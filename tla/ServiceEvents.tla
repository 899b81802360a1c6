--------------------------- MODULE ServiceEvents ----------------------------
(***************************************************************************)
(* What the push side sees of the service (service/service.go and           *)
(* service/effective.go): writes of versions, one gray release, the events   *)
(* that announce them, and the snapshot an instance is given.               *)
(*                                                                         *)
(* Only the stores' steps are kept: a write, the creation of the gray        *)
(* release it was made for, and the two or three steps of an operator's     *)
(* call that ends it, each a step of its own.  Calls run side by side and   *)
(* stop anywhere.  Events are handed to the bus later, in any order, or     *)
(* never.  LongPoll and WsSession add the two kinds of clients.             *)
(***************************************************************************)
EXTENDS PushHub

CONSTANTS
  Slots,       \* items in one environment
  Loc,         \* Loc[s]: [ns, group, env] of slot s
  Written,     \* slots that have a first version before the clients start
  Retention,   \* the tenant's version_retention, 0 keeps every version
  MaxVersion,  \* bound on the version of a slot
  Operators    \* those who end the gray release, each in one call at a time

\* domain.PushEvent; rel is the release it is about, 0 for none.
Events ==
  [type : {"change", "promote", "gray_rollback"}, slot : Slots,
   ns : Namespaces \cup {Loc[s].ns : s \in Slots},
   group : {Public} \cup {Loc[s].group : s \in Slots},
   env : {Loc[s].env : s \in Slots}, version : Nat, rel : {0, 1}]

ASSUME EventsAssumption ==
  Retention \in Nat /\ MaxVersion \in Nat \ {0} /\ None \notin Events

VARIABLES
  content,     \* content[s]: the texts of the versions of s, oldest first
  gray,        \* the gray release of the model; "withdrawn", a history field,
               \* once the value before it was committed again
  call,        \* call[o]: what o's call has got to: "promote" and "rollback" once
               \* it found the release gray, "withdrawn" once it committed
  outbox       \* events of handlers that have written and not yet published

serviceVars == <<content, gray, call, outbox>>

NoRelease ==
  [status |-> "none", slot |-> None, prev |-> 0, selected |-> {}, withdrawn |-> FALSE]

ServiceInit ==
  /\ content = [s \in Slots |-> IF s \in Written THEN <<1>> ELSE <<>>]
  /\ gray    = NoRelease
  /\ call    = [o \in Operators |-> "idle"]
  /\ outbox  = {}

-----------------------------------------------------------------------------
Version(s) == Len(content[s])

\* CommitValue has pruned version n of slot s.
Pruned(s, n) == Retention > 0 /\ Version(s) - n >= Retention

\* servedValue: instances outside an active gray release are given the version
\* before it; 0 is no value.
ServedVersion(p, s) ==
  IF gray.status = "gray" /\ gray.slot = s /\ ~ShouldDeliver(Client[p].key, gray.selected)
    THEN gray.prev ELSE Version(s)

\* layerContainers: the slots that contribute to what client p sees.
Contributes(p) ==
  {s \in Slots :
     /\ Loc[s].env = Client[p].env
     /\ \/ Loc[s].ns = Public /\ Loc[s].group = Public
        \/ Loc[s].ns = Client[p].ns /\ Loc[s].group = Defaults
        \/ Loc[s].ns = Client[p].ns /\ Client[p].group \in {All, Loc[s].group}}

Largest(S) == CHOOSE n \in S : \A m \in S : m <= n

\* Effective: every slot has a key of its own, the version of the snapshot is
\* the largest version in it.
Snapshot(p) ==
  LET shown == {s \in Contributes(p) : ServedVersion(p, s) > 0} IN
  [version |-> Largest({0} \cup {ServedVersion(p, s) : s \in shown}),
   texts   |-> {<<s, content[s][ServedVersion(p, s)]>> : s \in shown}]

-----------------------------------------------------------------------------
\* Effective fails as a whole when one of its items needs a pruned version.
Fails(p) ==
  \E s \in Contributes(p) : ServedVersion(p, s) > 0 /\ Pruned(s, ServedVersion(p, s))

EventOf(type, s, n, rel) ==
  [type |-> type, slot |-> s, ns |-> Loc[s].ns, group |-> Loc[s].group,
   env |-> Loc[s].env, version |-> n, rel |-> rel]

\* Write text n to slot s.
Write(s, n) ==
  /\ Version(s) < MaxVersion
  /\ content' = [content EXCEPT ![s] = Append(@, n)]

Announce(e) == outbox' = outbox \cup FanOut(e)

\* Commit and Rollback; every plain write brings a text of its own.
Commit(s) ==
  /\ Write(s, Version(s) + 1)
  /\ Announce(EventOf("change", s, Version(s) + 1, 0))
  /\ UNCHANGED <<hubVars, gray, call>>

\* Commit with a gray request: CommitValue, and in a later step CreateRelease.
\* In between the new version is live and nothing marks it as gray.
CommitForGray(s, selected) ==
  /\ gray.status = "none"
  /\ Write(s, Version(s) + 1)
  /\ gray' = [status |-> "opening", slot |-> s, prev |-> Version(s), selected |-> selected,
              withdrawn |-> FALSE]
  /\ UNCHANGED <<hubVars, call, outbox>>

CreateRelease ==
  /\ gray.status = "opening"
  /\ gray' = [gray EXCEPT !.status = "gray"]
  /\ Announce(EventOf("change", gray.slot, gray.prev + 1, 1))
  /\ UNCHANGED <<hubVars, content, call>>

\* Promote and GrayRollback read the release and check that it is gray; what
\* they write later is that copy with another status, whatever was written to
\* the release meanwhile.
Goes(o, from, to) == call[o] = from /\ call' = [call EXCEPT ![o] = to]

AskToPromote(o) ==
  /\ Goes(o, "idle", "promote")
  /\ gray.status = "gray"
  /\ UNCHANGED <<hubVars, content, gray, outbox>>

Promote(o) ==
  /\ Goes(o, "promote", "idle")
  /\ gray' = [gray EXCEPT !.status = "promoted"]
  /\ Announce(EventOf("promote", gray.slot, gray.prev + 1, 1))
  /\ UNCHANGED <<hubVars, content>>

\* The version before the gray one is read with the release.
AskToRollBack(o) ==
  /\ Goes(o, "idle", "rollback")
  /\ gray.status = "gray" /\ gray.prev > 0 /\ ~Pruned(gray.slot, gray.prev)
  /\ UNCHANGED <<hubVars, content, gray, outbox>>

\* CommitValue of its text, if the gray version is still the live one.
Withdraw(o) ==
  /\ Goes(o, "rollback", "withdrawn")
  /\ Version(gray.slot) = gray.prev + 1
  /\ Write(gray.slot, content[gray.slot][gray.prev])
  /\ gray' = [gray EXCEPT !.withdrawn = TRUE]
  /\ UNCHANGED <<hubVars, outbox>>

GrayRollback(o) ==
  /\ Goes(o, "withdrawn", "idle")
  /\ gray' = [gray EXCEPT !.status = "rolled_back"]
  /\ Announce(EventOf("gray_rollback", gray.slot, gray.prev + 2, 1))
  /\ UNCHANGED <<hubVars, content>>

\* The handler stops, or one of its calls to the store fails.
GiveUp(o) ==
  /\ call[o] # "idle"
  /\ call' = [call EXCEPT ![o] = "idle"]
  /\ UNCHANGED <<hubVars, content, gray, outbox>>

PublishOne(e) ==
  /\ e \in outbox
  /\ outbox' = outbox \ {e}
  /\ Publish(e)
  /\ UNCHANGED <<content, gray, call>>

\* The handler dies before it publishes, or Redis drops the message.
LoseOne(e) ==
  /\ e \in outbox
  /\ outbox' = outbox \ {e}
  /\ lost' = TRUE
  /\ UNCHANGED <<bus, registry, woken, event, targets, delivered>>
  /\ UNCHANGED <<content, gray, call>>

-----------------------------------------------------------------------------
ServiceStep ==
  \/ \E s \in Slots : Commit(s)
  \/ \E s \in Slots, selected \in SUBSET Keys : CommitForGray(s, selected)
  \/ CreateRelease
  \/ \E o \in Operators : \/ AskToPromote(o) \/ Promote(o)
                          \/ AskToRollBack(o) \/ Withdraw(o) \/ GrayRollback(o)
                          \/ GiveUp(o)
  \/ \E e \in outbox : PublishOne(e)

EventLost == \E e \in outbox : LoseOne(e)

ServiceTypeOK ==
  /\ \A s \in Slots : Version(s) <= MaxVersion
  /\ gray.status \in {"none", "opening", "gray", "promoted", "rolled_back"}
  /\ gray.withdrawn \in BOOLEAN
  /\ call \in [Operators -> {"idle", "promote", "rollback", "withdrawn"}]
=============================================================================
