------------------------------ MODULE PushProofs ------------------------------
(***************************************************************************)
(* Proofs about the push side, for every set of clients, subscriptions and   *)
(* slots.                                                                  *)
(*                                                                         *)
(* ServiceEvents: the filter that events are pushed through and the layers  *)
(* a snapshot is made of agree on who is concerned.                         *)
(* LongPoll: no poll misses a wake-up.                                     *)
(* WsSession: a session that was refused no frame is in step with its       *)
(* snapshot, and a recall reaches whoever was pushed the gray version.      *)
(***************************************************************************)
EXTENDS LongPoll, WsSession, SequenceTheorems, WellFoundedInduction, TLAPS

(***************************************************************************)
(* 1. The hub and the service's events.                                     *)
(***************************************************************************)
Gray == [status : {"none", "opening", "gray", "promoted", "rolled_back"},
         slot : Slots \cup {None}, prev : 0 .. MaxVersion, selected : SUBSET Keys,
         withdrawn : BOOLEAN]

\* The release is gray, or was.
Created == gray.status \notin {"none", "opening"}

\* The events on their way.
Coming == outbox \cup {bus[i] : i \in 1 .. Len(bus)}

\* Only a release that is or was gray has calls that end it.  It is withdrawn by
\* a version after its own, and rolled back after it was withdrawn.
CallsOK ==
  /\ call \in [Operators -> {"idle", "promote", "rollback", "withdrawn"}]
  /\ \A o \in Operators : /\ call[o] # "idle" => Created
                          /\ call[o] = "rollback" => gray.prev > 0
                          /\ call[o] = "withdrawn" => gray.withdrawn
  /\ gray.withdrawn => Created /\ gray.prev + 1 < Version(gray.slot)
  /\ gray.status = "rolled_back" => gray.withdrawn

ServiceOK ==
  /\ content \in [Slots -> Seq(Nat)]
  /\ \A s \in Slots : Version(s) <= MaxVersion
  /\ gray \in Gray
  /\ gray.status # "none" => gray.slot \in Slots /\ gray.prev < Version(gray.slot)
  /\ outbox \in SUBSET Events
  /\ CallsOK

\* A connection is registered under its own client's key, and only one of a
\* client's two is delivered to: there is one left for its next request.
HubOK ==
  /\ bus \in Seq(Events)
  /\ lost \in BOOLEAN
  /\ registry \in [Keys -> Conns \cup {None}]
  /\ \A c \in Conns, k \in Keys : registry[k] = c => Client[c[1]].key = k
  /\ event \in Events \cup {None}
  /\ targets \in SUBSET Conns
  /\ event = None <=> targets = {}
  /\ \A p \in Clients : ~(<<p, 1>> \in targets /\ <<p, 2>> \in targets)

\* The group that events of slot s carry once they are fanned out.
GroupOf(s) == IF Loc[s].ns = Public THEN Public ELSE Loc[s].group

\* Event e was announced as this.
Says(e, type, s, n, rel) ==
  /\ e.type = type /\ e.slot = s /\ e.version = n /\ e.rel = rel
  /\ e.env = Loc[s].env /\ e.group = GroupOf(s)

\* An event tells a version of a slot, with the place of the slot.  Only a gray
\* release has events with a release, and only its withdrawal recalls.
EventOK(e) ==
  /\ e.env = Loc[e.slot].env /\ e.group = GroupOf(e.slot) /\ e.version <= MaxVersion
  /\ e.rel # 0 => Created /\ e.slot = gray.slot
  /\ e.type = "gray_rollback" => gray.withdrawn
  /\ e.type # "change" => e.rel # 0

EventsOK == \A e \in Coming : EventOK(e)

\* What the gate does with an event that is not a recall, the release being read:
\* it asks the tracker for recalls only.
Lets(e, p, selected) ==
  /\ Matches(e, Client[p]) /\ e.type # "gray_rollback"
  /\ e.type = "promote" \/ e.rel = 0 \/ Client[p].key \in selected

-----------------------------------------------------------------------------
\* The push side and the pull side agree: of the events that announce a version
\* of a slot, one matches every client the slot contributes to.
LEMMA PushMatchesPull ==
  ASSUME NEW p \in Clients, NEW s \in Contributes(p), NEW type, NEW n, NEW rel
  PROVE  \E e \in FanOut(EventOf(type, s, n, rel)) :
           Matches(e, Client[p])
<1> DEFINE a == EventOf(type, s, n, rel)
<1>1. /\ a.type = type /\ a.slot = s /\ a.ns = Loc[s].ns /\ a.group = Loc[s].group
      /\ a.env = Loc[s].env /\ a.rel = rel /\ a.version = n
      /\ Loc[s].env = Client[p].env
  BY DEF EventOf, Contributes
<1>2. CASE Loc[s].ns # Public
  <2>1. FanOut(a) = {a}
    BY <1>1, <1>2 DEF FanOut
  <2>2. Matches(a, Client[p])
    BY <1>1, <1>2 DEF Matches, Contributes
  <2> QED
    BY <2>1, <2>2
<1>3. CASE Loc[s].ns = Public
  <2> DEFINE m == Client[p].ns
             b == [a EXCEPT !.ns = m, !.group = Public]
  <2>1. m \in Namespaces
    BY HubAssumption
  <2>2. b \in FanOut(a)
    BY <1>1, <1>3, <2>1 DEF FanOut
  <2>3. b.ns = m /\ b.group = Public /\ b.env = a.env
    BY DEF EventOf
  <2>4. Matches(b, Client[p])
    BY <1>1, <2>3 DEF Matches
  <2> QED
    BY <2>2, <2>4
<1> QED
  BY <1>2, <1>3

\* An event is announced as events that say the same of the same slot.
LEMMA FanOutEvents ==
  ASSUME NEW s \in Slots, NEW type \in {"change", "promote", "gray_rollback"},
         NEW n \in Nat, NEW rel \in {0, 1}, NEW e \in FanOut(EventOf(type, s, n, rel))
  PROVE  e \in Events /\ Says(e, type, s, n, rel)
<1> DEFINE a == EventOf(type, s, n, rel)
<1>1. CASE Loc[s].ns # Public
  <2>1. e = a
    BY <1>1 DEF FanOut, EventOf
  <2> QED
    BY <1>1, <2>1 DEF EventOf, Events, Says, GroupOf
<1>2. CASE Loc[s].ns = Public
  <2>1. PICK m \in Namespaces : e = [a EXCEPT !.ns = m, !.group = Public]
    BY <1>2 DEF FanOut, EventOf
  <2>2. e = [type |-> type, slot |-> s, ns |-> m, group |-> Public,
             env |-> Loc[s].env, version |-> n, rel |-> rel]
    BY <2>1 DEF EventOf
  <2> QED
    BY <1>2, <2>2 DEF Events, Says, GroupOf
<1> QED
  BY <1>1, <1>2

-----------------------------------------------------------------------------
\* A set of numbers below a bound has a greatest one.
LEMMA LargestIsGreatest ==
  ASSUME NEW b \in Nat, NEW S \in SUBSET (0 .. b), S # {}
  PROVE  Largest(S) \in S /\ \A n \in S : n <= Largest(S)
<1> DEFINE T == {b - n : n \in S}
<1>0. \A n \in S : b - n \in Nat
  OBVIOUS
<1>1. T \in SUBSET Nat /\ T # {}
  BY <1>0, Zenon
<1>2. PICK t \in T : \A x \in T : <<x, t>> \notin OpToRel(<, Nat)
  BY <1>1, NatLessThanWellFounded, WFMin
<1>3. PICK m \in S : t = b - m
  BY <1>2
<1>4. ASSUME NEW n \in S PROVE n <= m
  <2>1. b - n \in T /\ b - n \in Nat /\ b - m \in Nat /\ n \in Nat /\ m \in Nat
    BY <1>1, <1>3
  <2>2. ~(b - n < b - m)
    BY <1>2, <1>3, <2>1 DEF OpToRel
  <2> QED
    BY <2>1, <2>2
<1>5. \E k \in S : \A n \in S : n <= k
  BY <1>4
<1> QED
  BY <1>5 DEF Largest

\* Versions served are versions.
LEMMA ServedBounded ==
  ASSUME ServiceOK, NEW p \in Clients, NEW s \in Slots
  PROVE  ServedVersion(p, s) \in 0 .. MaxVersion /\ Version(s) \in 0 .. MaxVersion
<1>1. Version(s) \in 0 .. MaxVersion
  BY EventsAssumption DEF ServiceOK, Version
<1>2. gray.prev \in 0 .. MaxVersion
  BY DEF ServiceOK, Gray
<1> QED
  BY <1>1, <1>2 DEF ServedVersion

\* The version of a snapshot is the largest one served.
LEMMA SnapshotVersion ==
  ASSUME ServiceOK, NEW p \in Clients
  PROVE  /\ Snapshot(p).version \in Nat
         /\ \A s \in Contributes(p) : ServedVersion(p, s) <= Snapshot(p).version
         /\ \A h \in Nat : Snapshot(p).version > h
              => \E s \in Contributes(p) : ServedVersion(p, s) > h
<1> DEFINE S == {0} \cup {ServedVersion(p, s) : s \in {x \in Contributes(p) : ServedVersion(p, x) > 0}}
<1>1. Snapshot(p).version = Largest(S)
  BY DEF Snapshot
<1>2. Contributes(p) \subseteq Slots
  BY DEF Contributes
<1>3. \A s \in Contributes(p) : ServedVersion(p, s) \in 0 .. MaxVersion
  BY <1>2, ServedBounded
<1>4. MaxVersion \in Nat
  BY EventsAssumption
<1>5. S \in SUBSET (0 .. MaxVersion) /\ S # {} /\ 0 \in S
  BY <1>3, <1>4
<1>6. /\ \A s \in Contributes(p) : ServedVersion(p, s) > 0 => ServedVersion(p, s) \in S
      /\ \A n \in S : n = 0 \/ \E s \in Contributes(p) : n = ServedVersion(p, s)
  OBVIOUS
<1> HIDE DEF S
<1>7. Largest(S) \in S /\ \A n \in S : n <= Largest(S)
  BY <1>4, <1>5, LargestIsGreatest
<1>8. Largest(S) \in 0 .. MaxVersion
  BY <1>5, <1>7
<1>9. ASSUME NEW s \in Contributes(p) PROVE ServedVersion(p, s) <= Largest(S)
  BY <1>3, <1>4, <1>6, <1>7, <1>8
<1>10. ASSUME NEW h \in Nat, Largest(S) > h
       PROVE  \E s \in Contributes(p) : ServedVersion(p, s) > h
  BY <1>4, <1>6, <1>7, <1>8, <1>10
<1> QED
  BY <1>1, <1>4, <1>8, <1>9, <1>10

-----------------------------------------------------------------------------
\* The gate, for an event that is not a recall.
LEMMA GateLets ==
  ASSUME NEW e \in Events, NEW p, NEW S, Lets(e, p, S)
  PROVE  Accepts(e, p, S, TRUE) /\ e.type # "gray_rollback"
BY DEF Lets, Accepts, ShouldDeliver

\* The events on their way are events.
LEMMA ComingAreEvents == ServiceOK /\ HubOK => Coming \subseteq Events
<1> SUFFICES ASSUME ServiceOK, HubOK, NEW i \in 1 .. Len(bus) PROVE bus[i] \in Events
  BY DEF Coming, ServiceOK
<1> QED
  BY DEF HubOK

-----------------------------------------------------------------------------
\* The writes of the service.
ServiceWrite ==
  \/ \E s \in Slots : Commit(s)
  \/ \E s \in Slots, selected \in SUBSET Keys : CommitForGray(s, selected)
  \/ CreateRelease
  \/ \E o \in Operators : \/ AskToPromote(o) \/ Promote(o)
                          \/ AskToRollBack(o) \/ Withdraw(o) \/ GrayRollback(o)
                          \/ GiveUp(o)

\* A write adds one version to one slot.
LEMMA WriteEffect ==
  ASSUME ServiceOK, NEW s \in Slots, NEW n \in Nat, Write(s, n)
  PROVE  /\ content' \in [Slots -> Seq(Nat)] /\ Version(s)' = Version(s) + 1
         /\ \A t \in Slots : t # s => Version(t)' = Version(t)
         /\ \A t \in Slots : Version(t)' <= MaxVersion
         /\ Version(s) \in Nat /\ Version(s) < MaxVersion
<1>1. content \in [Slots -> Seq(Nat)] /\ \A t \in Slots : Version(t) <= MaxVersion
  BY DEF ServiceOK
<1>2. /\ content'[s] = Append(content[s], n)
      /\ \A t \in Slots : t # s => content'[t] = content[t]
      /\ content' \in [Slots -> Seq(Nat)]
      /\ Version(s) < MaxVersion
  BY <1>1 DEF Write
<1>3. content[s] \in Seq(Nat)
  BY <1>1
<1>4. Len(content'[s]) = Len(content[s]) + 1 /\ Len(content[s]) \in Nat
  BY <1>2, <1>3
<1>5. MaxVersion \in Nat
  BY EventsAssumption
<1>6. Version(s)' = Version(s) + 1 /\ Version(s) \in Nat /\ Version(s) < MaxVersion
  BY <1>2, <1>4 DEF Version
<1>7. \A t \in Slots : t # s => Version(t)' = Version(t)
  BY <1>2 DEF Version
<1>8. \A t \in Slots : Version(t)' <= MaxVersion
  <2>1. Version(s)' <= MaxVersion
    BY <1>5, <1>6
  <2> QED
    BY <1>1, <1>7, <2>1
<1> QED
  BY <1>2, <1>6, <1>7, <1>8

\* A step announces version n of slot s: new events say so, and one of them
\* matches every client the slot contributes to.
Announces(type, s, n, rel) ==
  /\ outbox' \in SUBSET Events /\ Coming \subseteq Coming'
  /\ \A e \in Coming' : e \in Coming \/ Says(e, type, s, n, rel)
  /\ \A p \in Clients : s \in Contributes(p)
       => \E e \in Coming' : Says(e, type, s, n, rel) /\ Matches(e, Client[p])

LEMMA AnnounceEffect ==
  ASSUME ServiceOK, HubOK, UNCHANGED bus,
         NEW type \in {"change", "promote", "gray_rollback"},
         NEW s \in Slots, NEW n \in Nat, NEW rel \in {0, 1}, Announce(EventOf(type, s, n, rel))
  PROVE  Announces(type, s, n, rel)
<1> DEFINE F == FanOut(EventOf(type, s, n, rel))
<1>1. outbox' = outbox \cup F
  BY DEF Announce
<1>2. \A e \in F : e \in Events /\ Says(e, type, s, n, rel)
  BY FanOutEvents
<1>3. \A p \in Clients : s \in Contributes(p) => \E e \in F : Matches(e, Client[p])
  BY PushMatchesPull
<1> HIDE DEF F
<1>4. Coming' = Coming \cup F
  BY <1>1 DEF Coming
<1> QED
  BY <1>1, <1>2, <1>3, <1>4 DEF ServiceOK, Announces

-----------------------------------------------------------------------------
\* What each write of the service does.
LEMMA CommitEffect ==
  ASSUME ServiceOK, HubOK, NEW s \in Slots, Commit(s)
  PROVE  /\ content' \in [Slots -> Seq(Nat)] /\ UNCHANGED <<hubVars, gray, call>>
         /\ Version(s)' = Version(s) + 1 /\ Version(s) \in Nat /\ Version(s) < MaxVersion
         /\ \A t \in Slots : t # s => Version(t)' = Version(t)
         /\ \A t \in Slots : Version(t)' <= MaxVersion
         /\ Announces("change", s, Version(s) + 1, 0)
<1>1. Write(s, Version(s) + 1) /\ UNCHANGED <<hubVars, gray, call>>
  BY DEF Commit
<1>2. Version(s) \in Nat
  BY DEF ServiceOK, Version
<1>3. PICK n \in Nat : n = Version(s) + 1
  BY <1>2
<1>4. Announces("change", s, n, 0)
  BY <1>1, <1>3, AnnounceEffect DEF Commit, hubVars
<1> QED
  BY <1>1, <1>3, <1>4, WriteEffect

LEMMA CommitForGrayEffect ==
  ASSUME ServiceOK, HubOK, NEW s \in Slots, NEW S \in SUBSET Keys, CommitForGray(s, S)
  PROVE  /\ content' \in [Slots -> Seq(Nat)] /\ UNCHANGED <<hubVars, outbox, call>>
         /\ Version(s)' = Version(s) + 1 /\ Version(s) \in Nat /\ Version(s) < MaxVersion
         /\ \A t \in Slots : t # s => Version(t)' = Version(t)
         /\ \A t \in Slots : Version(t)' <= MaxVersion
         /\ gray.status = "none"
         /\ gray' = [status |-> "opening", slot |-> s, prev |-> Version(s), selected |-> S,
                      withdrawn |-> FALSE]
<1>1. Write(s, Version(s) + 1)
  BY DEF CommitForGray
<1>2. Version(s) \in Nat
  BY DEF ServiceOK, Version
<1>3. PICK n \in Nat : n = Version(s) + 1
  BY <1>2
<1> QED
  BY <1>1, <1>3, WriteEffect DEF CommitForGray

\* Calls go on as they were, or end.
CallsGoOn ==
  /\ call' \in [Operators -> {"idle", "promote", "rollback", "withdrawn"}]
  /\ \A o \in Operators : call'[o] \in {call[o], "idle"}

LEMMA CallsEnd ==
  ASSUME ServiceOK, NEW o \in Operators, NEW from, Goes(o, from, "idle")
  PROVE  CallsGoOn /\ call[o] = from
BY DEF Goes, CallsGoOn, ServiceOK, CallsOK

\* CreateRelease, Promote and GrayRollback change the release's status only.
StatusWrite == CreateRelease \/ \E o \in Operators : Promote(o) \/ GrayRollback(o)

LEMMA StatusEffect ==
  ASSUME ServiceOK, HubOK, StatusWrite
  PROVE  \E s \in Slots :
           /\ s = gray.slot /\ UNCHANGED <<hubVars, content>>
           /\ gray.prev \in Nat /\ gray.prev + 1 \in Nat /\ gray.prev < Version(s)
           /\ gray' \in Gray /\ gray'.slot = gray.slot /\ gray'.prev = gray.prev
           /\ gray'.selected = gray.selected /\ gray'.withdrawn = gray.withdrawn
           /\ \/ /\ gray.status = "opening" /\ gray'.status = "gray"
                 /\ UNCHANGED call
                 /\ Announces("change", s, gray.prev + 1, 1)
              \/ /\ Created /\ gray'.status = "promoted" /\ CallsGoOn
                 /\ Announces("promote", s, gray.prev + 1, 1)
              \/ /\ gray.withdrawn /\ gray'.status = "rolled_back" /\ CallsGoOn
                 /\ gray.prev + 2 <= MaxVersion
                 /\ Announces("gray_rollback", s, gray.prev + 2, 1)
<1>1. /\ UNCHANGED <<hubVars, content>> /\ gray.status # "none"
      /\ CreateRelease \/ Created
  BY DEF StatusWrite, CreateRelease, Promote, GrayRollback, Goes, ServiceOK, CallsOK, Created
<1>2. PICK s \in Slots : s = gray.slot /\ gray.prev < Version(s)
  BY <1>1 DEF ServiceOK
<1>3. gray.prev \in Nat /\ Version(s) \in Nat /\ Version(s) <= MaxVersion
  BY EventsAssumption DEF ServiceOK, Gray, Version
<1>4. PICK n \in Nat, m \in Nat : n = gray.prev + 1 /\ m = gray.prev + 2
  BY <1>3
<1>5. UNCHANGED bus
  BY <1>1 DEF hubVars
<1>6. CASE CreateRelease
  <2>1. /\ gray' \in Gray /\ gray'.slot = gray.slot /\ gray'.prev = gray.prev
        /\ gray'.selected = gray.selected /\ gray'.withdrawn = gray.withdrawn
        /\ gray.status = "opening" /\ gray'.status = "gray" /\ UNCHANGED call
        /\ Announce(EventOf("change", s, n, 1))
    BY <1>2, <1>4, <1>6 DEF CreateRelease, ServiceOK, Gray
  <2>2. Announces("change", s, n, 1)
    BY <1>5, <2>1, AnnounceEffect
  <2> QED
    BY <1>1, <1>2, <1>3, <1>4, <2>1, <2>2
<1>7. ASSUME NEW o \in Operators, Promote(o)
      PROVE  /\ gray' \in Gray /\ gray'.slot = gray.slot /\ gray'.prev = gray.prev
             /\ gray'.selected = gray.selected /\ gray'.withdrawn = gray.withdrawn
             /\ Created /\ gray'.status = "promoted" /\ CallsGoOn
             /\ Announces("promote", s, n, 1)
  <2>1. /\ gray' \in Gray /\ gray'.slot = gray.slot /\ gray'.prev = gray.prev
        /\ gray'.selected = gray.selected /\ gray'.withdrawn = gray.withdrawn
        /\ gray'.status = "promoted" /\ Announce(EventOf("promote", s, n, 1))
    BY <1>2, <1>4, <1>7 DEF Promote, ServiceOK, Gray
  <2>2. CallsGoOn /\ Created
    BY <1>7, CallsEnd DEF Promote, ServiceOK, CallsOK
  <2> QED
    BY <1>5, <2>1, <2>2, AnnounceEffect
<1>8. ASSUME NEW o \in Operators, GrayRollback(o)
      PROVE  /\ gray' \in Gray /\ gray'.slot = gray.slot /\ gray'.prev = gray.prev
             /\ gray'.selected = gray.selected /\ gray'.withdrawn = gray.withdrawn
             /\ gray.withdrawn /\ gray'.status = "rolled_back" /\ CallsGoOn
             /\ m <= MaxVersion
             /\ Announces("gray_rollback", s, m, 1)
  <2>1. /\ gray' \in Gray /\ gray'.slot = gray.slot /\ gray'.prev = gray.prev
        /\ gray'.selected = gray.selected /\ gray'.withdrawn = gray.withdrawn
        /\ gray'.status = "rolled_back" /\ Announce(EventOf("gray_rollback", s, m, 1))
    BY <1>2, <1>4, <1>8 DEF GrayRollback, ServiceOK, Gray
  <2>2. CallsGoOn /\ gray.withdrawn
    BY <1>8, CallsEnd DEF GrayRollback, ServiceOK, CallsOK
  <2>3. gray.prev + 1 < Version(s)
    BY <1>2, <2>2 DEF ServiceOK, CallsOK
  <2>4. m <= MaxVersion
    BY <1>3, <1>4, <2>3, EventsAssumption
  <2> QED
    BY <1>5, <2>1, <2>2, <2>4, AnnounceEffect
<1>9. CASE \E o \in Operators : Promote(o)
  <2>1. PICK o \in Operators : Promote(o)
    BY <1>9
  <2> QED
    BY <1>1, <1>2, <1>3, <1>4, <1>7, <2>1
<1>10. CASE \E o \in Operators : GrayRollback(o)
  <2>1. PICK o \in Operators : GrayRollback(o)
    BY <1>10
  <2> QED
    BY <1>1, <1>2, <1>3, <1>4, <1>8, <2>1
<1> QED
  BY <1>6, <1>9, <1>10 DEF StatusWrite

\* A rollback commits the version before the gray one again, after the gray one,
\* and tells nobody yet.
LEMMA WithdrawEffect ==
  ASSUME ServiceOK, HubOK, NEW o \in Operators, Withdraw(o)
  PROVE  \E s \in Slots :
           /\ s = gray.slot /\ UNCHANGED <<hubVars, outbox>>
           /\ content' \in [Slots -> Seq(Nat)]
           /\ Version(s) = gray.prev + 1 /\ Version(s)' = Version(s) + 1 /\ Version(s) \in Nat
           /\ \A t \in Slots : t # s => Version(t)' = Version(t)
           /\ \A t \in Slots : Version(t)' <= MaxVersion
           /\ Created /\ gray' \in Gray /\ gray'.status = gray.status /\ gray'.withdrawn
           /\ gray'.slot = gray.slot /\ gray'.prev = gray.prev /\ gray'.selected = gray.selected
           /\ call' \in [Operators -> {"idle", "promote", "rollback", "withdrawn"}]
           /\ \A q \in Operators : call'[q] = call[q] \/ call'[q] = "withdrawn"
<1>1. Created /\ gray.prev > 0 /\ call[o] = "rollback" /\ call' = [call EXCEPT ![o] = "withdrawn"]
  BY DEF Withdraw, Goes, ServiceOK, CallsOK
<1>2. PICK s \in Slots : s = gray.slot
  BY <1>1 DEF ServiceOK, Created
<1>3. /\ content[s] \in Seq(Nat) /\ Version(s) = Len(content[s]) /\ Version(s) \in Nat
      /\ gray.prev \in Nat /\ Version(s) = gray.prev + 1
  BY <1>2, EventsAssumption DEF Withdraw, ServiceOK, Gray, Version
<1>4. PICK v \in Nat : v = content[s][gray.prev]
  <2>1. gray.prev \in 1 .. Len(content[s])
    BY <1>1, <1>3
  <2>2. content[s][gray.prev] \in Nat
    BY <1>3, <2>1, ElementOfSeq
  <2> QED
    BY <2>2
<1>5. Write(s, v) /\ UNCHANGED <<hubVars, outbox>>
  BY <1>2, <1>4 DEF Withdraw
<1>6. /\ gray' \in Gray /\ gray'.status = gray.status /\ gray'.withdrawn
      /\ gray'.slot = gray.slot /\ gray'.prev = gray.prev /\ gray'.selected = gray.selected
  BY DEF Withdraw, ServiceOK, Gray
<1>7. /\ content' \in [Slots -> Seq(Nat)] /\ Version(s)' = Version(s) + 1
      /\ \A t \in Slots : t # s => Version(t)' = Version(t)
      /\ \A t \in Slots : Version(t)' <= MaxVersion
  BY <1>5, WriteEffect
<1>8. /\ call' \in [Operators -> {"idle", "promote", "rollback", "withdrawn"}]
      /\ \A q \in Operators : call'[q] = call[q] \/ call'[q] = "withdrawn"
  BY <1>1 DEF ServiceOK, CallsOK
<1> QED
  BY <1>1, <1>2, <1>3, <1>5, <1>6, <1>7, <1>8

\* The first step of a call, and one that stops, write nothing.
LEMMA AskEffect ==
  ASSUME ServiceOK, NEW o \in Operators, AskToPromote(o) \/ AskToRollBack(o) \/ GiveUp(o)
  PROVE  UNCHANGED <<hubVars, content, gray, outbox>> /\ CallsOK'
<1>1. UNCHANGED <<hubVars, content, gray, outbox>>
  BY DEF AskToPromote, AskToRollBack, GiveUp
<1>2. /\ call' \in [Operators -> {"idle", "promote", "rollback", "withdrawn"}]
      /\ \A q \in Operators :
           \/ call'[q] \in {call[q], "idle"}
           \/ Created /\ call'[q] = "promote"
           \/ Created /\ gray.prev > 0 /\ call'[q] = "rollback"
  BY DEF AskToPromote, AskToRollBack, GiveUp, Goes, ServiceOK, CallsOK, Created
<1>3. CallsOK'
  BY <1>1, <1>2 DEF ServiceOK, CallsOK, Created, Version
<1> QED
  BY <1>1, <1>3

-----------------------------------------------------------------------------
\* Every write keeps the types of the service and takes back nothing that was
\* announced.
WriteOK ==
  /\ ServiceOK' /\ EventsOK' /\ Coming \subseteq Coming'
  /\ \A e \in Events : EventOK(e) => EventOK(e)'
  /\ \A e \in Coming, p \in Clients : Lets(e, p, gray.selected) => Lets(e, p, gray'.selected)
  /\ gray.withdrawn => gray'.withdrawn
  /\ Created => gray'.slot = gray.slot /\ Created'

LEMMA CommitOK ==
  ASSUME ServiceOK, HubOK, EventsOK, NEW s \in Slots, Commit(s)
  PROVE  WriteOK
<1>1. /\ content' \in [Slots -> Seq(Nat)] /\ UNCHANGED <<hubVars, gray, call>>
      /\ Version(s)' = Version(s) + 1 /\ Version(s) \in Nat /\ Version(s) < MaxVersion
      /\ \A t \in Slots : t # s => Version(t)' = Version(t)
      /\ \A t \in Slots : Version(t)' <= MaxVersion
      /\ Announces("change", s, Version(s) + 1, 0)
  BY CommitEffect
<1>2. ServiceOK'
  <2>1. \A t \in Slots : Version(t) \in Nat /\ Version(t)' >= Version(t) /\ Version(t)' \in Nat
    BY <1>1 DEF ServiceOK, Version
  <2>2. gray.prev \in Nat /\ (gray.status # "none" => gray.slot \in Slots)
    BY EventsAssumption DEF ServiceOK, Gray
  <2>3. \A t \in Slots : Version(t)' = Len(content'[t])
    BY DEF Version
  <2>4. /\ gray.status # "none" => gray.prev < Version(gray.slot)'
        /\ gray.withdrawn => gray.prev + 1 < Version(gray.slot)'
    BY <2>1, <2>2, <2>3, <1>1 DEF ServiceOK, CallsOK, Created, Version
  <2> QED
    BY <1>1, <2>4 DEF ServiceOK, Announces, CallsOK, Created
<1>3. \A e \in Events : EventOK(e) => EventOK(e)'
  BY <1>1 DEF EventOK, Created
<1>4. \A e : Says(e, "change", s, Version(s) + 1, 0) => EventOK(e)'
  <2>1. Version(s) + 1 <= MaxVersion
    BY <1>1, EventsAssumption
  <2> QED
    BY <2>1 DEF Says, EventOK
<1>5. EventsOK'
  <2>1. \A e \in Coming : EventOK(e)'
    BY <1>1 DEF EventsOK, EventOK, Created
  <2> QED
    BY <1>1, <1>4, <2>1 DEF EventsOK, Announces
<1> QED
  BY <1>1, <1>2, <1>3, <1>5 DEF WriteOK, Announces, Created

LEMMA CommitForGrayOK ==
  ASSUME ServiceOK, HubOK, EventsOK, NEW s \in Slots, NEW S \in SUBSET Keys, CommitForGray(s, S)
  PROVE  WriteOK
<1>1. /\ content' \in [Slots -> Seq(Nat)] /\ UNCHANGED <<hubVars, outbox, call>>
      /\ Version(s)' = Version(s) + 1 /\ Version(s) \in Nat /\ Version(s) < MaxVersion
      /\ \A t \in Slots : Version(t)' <= MaxVersion
      /\ gray.status = "none"
      /\ gray' = [status |-> "opening", slot |-> s, prev |-> Version(s), selected |-> S,
                      withdrawn |-> FALSE]
  BY CommitForGrayEffect
<1>2. Coming' = Coming /\ \A e \in Coming : e.rel = 0 /\ e.type = "change"
  BY <1>1 DEF Coming, EventsOK, EventOK, Created, hubVars
<1>3. ServiceOK'
  <2>1. /\ gray' \in Gray /\ gray'.slot = s /\ gray'.prev = Version(s) /\ gray'.status = "opening"
        /\ gray'.withdrawn = FALSE
    BY <1>1, EventsAssumption DEF Gray
  <2>2. gray'.prev < Version(s)'
    BY <1>1, <2>1
  <2>3. PICK t \in Slots : t = s
    OBVIOUS
  <2>4. gray'.prev < Version(gray.slot)'
    BY <2>1, <2>2 DEF Version
  <2>5. \A o \in Operators : call[o] = "idle"
    BY <1>1 DEF ServiceOK, CallsOK, Created
  <2> QED
    BY <1>1, <2>1, <2>4, <2>5 DEF ServiceOK, CallsOK
<1>4. \A e \in Events : EventOK(e) => EventOK(e)'
  <2>1. ~Created /\ ~gray.withdrawn
    BY <1>1 DEF ServiceOK, CallsOK, Created
  <2> QED
    BY <2>1 DEF EventOK
<1>5. EventsOK'
  <2>1. \A e \in Coming : EventOK(e)'
    BY <1>1, <1>2 DEF EventsOK, EventOK
  <2> QED
    BY <1>2, <2>1 DEF EventsOK
<1>6. ~Created /\ ~gray.withdrawn
  BY <1>1 DEF ServiceOK, CallsOK, Created
<1> QED
  BY <1>1, <1>2, <1>3, <1>4, <1>5, <1>6 DEF WriteOK, Lets

\* The calls stay as they should when the release keeps its slot and no version
\* is taken back.
LEMMA CallsKept ==
  ASSUME ServiceOK, UNCHANGED content, CallsGoOn,
         gray'.slot = gray.slot, gray'.prev = gray.prev, gray'.withdrawn = gray.withdrawn,
         Created', gray'.status = "rolled_back" => gray.withdrawn
  PROVE  CallsOK'
BY DEF ServiceOK, CallsOK, CallsGoOn, Version

LEMMA StatusOK ==
  ASSUME ServiceOK, HubOK, EventsOK, StatusWrite
  PROVE  WriteOK
<1>1. PICK s \in Slots :
           /\ s = gray.slot /\ UNCHANGED <<hubVars, content>>
           /\ gray.prev \in Nat /\ gray.prev + 1 \in Nat /\ gray.prev < Version(s)
           /\ gray' \in Gray /\ gray'.slot = gray.slot /\ gray'.prev = gray.prev
           /\ gray'.selected = gray.selected /\ gray'.withdrawn = gray.withdrawn
           /\ \/ /\ gray.status = "opening" /\ gray'.status = "gray"
                 /\ UNCHANGED call
                 /\ Announces("change", s, gray.prev + 1, 1)
              \/ /\ Created /\ gray'.status = "promoted" /\ CallsGoOn
                 /\ Announces("promote", s, gray.prev + 1, 1)
              \/ /\ gray.withdrawn /\ gray'.status = "rolled_back" /\ CallsGoOn
                 /\ gray.prev + 2 <= MaxVersion
                 /\ Announces("gray_rollback", s, gray.prev + 2, 1)
  BY StatusEffect
<1>2. \A t : Version(t)' = Version(t)
  BY <1>1 DEF Version
<1>3. Created' /\ gray.status # "none"
  BY <1>1 DEF Created, ServiceOK, CallsOK
<1>4. CallsOK'
  <2>1. CallsGoOn
    BY <1>1 DEF CallsGoOn, ServiceOK, CallsOK
  <2>2. gray'.status = "rolled_back" => gray.withdrawn
    BY <1>1
  <2> QED
    BY <1>1, <1>3, <2>1, <2>2, CallsKept
<1>5. ServiceOK'
  <2>1. outbox' \in SUBSET Events
    BY <1>1 DEF Announces
  <2>2. (gray.prev < Version(gray.slot))'
    BY <1>1 DEF Version
  <2> QED
    BY <1>1, <1>2, <1>4, <2>1, <2>2 DEF ServiceOK
<1>6. \A e \in Events : EventOK(e) => EventOK(e)'
  BY <1>1, <1>3 DEF EventOK
<1>7. PICK type \in {"change", "promote", "gray_rollback"}, n \in Nat :
        /\ Announces(type, s, n, 1) /\ n <= MaxVersion
        /\ type = "gray_rollback" => gray.withdrawn
  <2>1. gray.prev + 1 <= MaxVersion /\ gray.prev + 2 \in Nat
    <3>1. Version(s) <= MaxVersion /\ Version(s) \in Nat
      BY DEF ServiceOK, Version
    <3> QED
      BY <1>1, <3>1, EventsAssumption
  <2> QED
    BY <1>1, <2>1
<1>8. \A e : Says(e, type, s, n, 1) => EventOK(e)'
  BY <1>1, <1>3, <1>7 DEF Says, EventOK
<1>9. EventsOK'
  <2>1. \A e \in Coming : EventOK(e)'
    BY <1>1, <1>3 DEF EventsOK, EventOK
  <2> QED
    BY <1>7, <1>8, <2>1 DEF EventsOK, Announces
<1> QED
  BY <1>1, <1>3, <1>5, <1>6, <1>7, <1>9 DEF WriteOK, Announces

LEMMA WithdrawOK ==
  ASSUME ServiceOK, HubOK, EventsOK, NEW o \in Operators, Withdraw(o)
  PROVE  WriteOK
<1>1. PICK s \in Slots :
           /\ s = gray.slot /\ UNCHANGED <<hubVars, outbox>>
           /\ content' \in [Slots -> Seq(Nat)]
           /\ Version(s) = gray.prev + 1 /\ Version(s)' = Version(s) + 1 /\ Version(s) \in Nat
           /\ \A t \in Slots : Version(t)' <= MaxVersion
           /\ Created /\ gray' \in Gray /\ gray'.status = gray.status /\ gray'.withdrawn
           /\ gray'.slot = gray.slot /\ gray'.prev = gray.prev /\ gray'.selected = gray.selected
           /\ call' \in [Operators -> {"idle", "promote", "rollback", "withdrawn"}]
           /\ \A q \in Operators : call'[q] = call[q] \/ call'[q] = "withdrawn"
  BY WithdrawEffect
<1>2. Created' /\ Coming' = Coming
  BY <1>1 DEF Created, Coming, hubVars
<1>3. ServiceOK'
  <2>1. gray.prev \in Nat
    BY EventsAssumption DEF ServiceOK, Gray
  <2>2. gray.prev < Version(s)' /\ gray.prev + 1 < Version(s)'
    BY <1>1, <2>1
  <2>3. gray'.prev < Version(gray.slot)' /\ gray'.prev + 1 < Version(gray.slot)'
    BY <1>1, <2>2 DEF Version
  <2>4. CallsOK'
    BY <1>1, <1>2, <2>3 DEF ServiceOK, CallsOK
  <2> QED
    BY <1>1, <2>3, <2>4 DEF ServiceOK
<1>4. \A e \in Events : EventOK(e) => EventOK(e)'
  BY <1>1, <1>2 DEF EventOK
<1>5. EventsOK'
  <2>1. \A e \in Coming : EventOK(e)'
    BY <1>1, <1>2 DEF EventsOK, EventOK
  <2> QED
    BY <1>2, <2>1 DEF EventsOK
<1> QED
  BY <1>1, <1>2, <1>3, <1>4, <1>5 DEF WriteOK

LEMMA AskOK ==
  ASSUME ServiceOK, HubOK, EventsOK, NEW o \in Operators,
         AskToPromote(o) \/ AskToRollBack(o) \/ GiveUp(o)
  PROVE  WriteOK
<1>1. UNCHANGED <<hubVars, content, gray, outbox>> /\ CallsOK'
  BY AskEffect
<1>2. ServiceOK'
  BY <1>1 DEF ServiceOK, Version
<1>3. Coming' = Coming /\ \A e : EventOK(e)' = EventOK(e)
  BY <1>1 DEF Coming, hubVars, EventOK, Created
<1> QED
  BY <1>1, <1>2, <1>3 DEF WriteOK, EventsOK, Created

LEMMA WritesOK == ServiceOK /\ HubOK /\ EventsOK /\ ServiceWrite => WriteOK /\ UNCHANGED hubVars
<1> SUFFICES ASSUME ServiceOK, HubOK, EventsOK, ServiceWrite PROVE WriteOK /\ UNCHANGED hubVars
  OBVIOUS
<1>1. WriteOK
  BY CommitOK, CommitForGrayOK, StatusOK, WithdrawOK, AskOK DEF ServiceWrite, StatusWrite
<1>2. UNCHANGED hubVars
  BY DEF ServiceWrite, Commit, CommitForGray, CreateRelease, AskToPromote, Promote,
         AskToRollBack, Withdraw, GrayRollback, GiveUp
<1> QED
  BY <1>1, <1>2

-----------------------------------------------------------------------------
\* The elements of a queue that one joins, or leaves.
LEMMA AppendElements ==
  ASSUME NEW S, NEW q \in Seq(S), NEW x \in S
  PROVE  {Append(q, x)[i] : i \in 1 .. Len(Append(q, x))} = {q[i] : i \in 1 .. Len(q)} \cup {x}
<1>1. /\ Len(q) \in Nat /\ Len(Append(q, x)) = Len(q) + 1
      /\ Append(q, x)[Len(q) + 1] = x
      /\ \A i \in 1 .. Len(q) : Append(q, x)[i] = q[i]
  OBVIOUS
<1>2. \A i \in 1 .. Len(q) + 1 : i \in 1 .. Len(q) \/ i = Len(q) + 1
  BY <1>1
<1>3. Len(q) + 1 \in 1 .. Len(q) + 1 /\ \A i \in 1 .. Len(q) : i \in 1 .. Len(q) + 1
  BY <1>1
<1> QED
  BY <1>1, <1>2, <1>3, Zenon

LEMMA TailElements ==
  ASSUME NEW S, NEW q \in Seq(S), q # <<>>
  PROVE  /\ Head(q) \in S /\ Tail(q) \in Seq(S) /\ Len(Tail(q)) = Len(q) - 1
         /\ {q[i] : i \in 1 .. Len(q)} = {Head(q)} \cup {Tail(q)[i] : i \in 1 .. Len(Tail(q))}
<1>1. /\ Tail(q) \in Seq(S) /\ Len(Tail(q)) = Len(q) - 1 /\ Len(q) \in Nat /\ Len(q) > 0
      /\ \A i \in 1 .. Len(Tail(q)) : Tail(q)[i] = q[i + 1]
      /\ Head(q) = q[1] /\ Head(q) \in S
  OBVIOUS
<1>2. ASSUME NEW i \in 1 .. Len(q)
      PROVE  q[i] \in {Head(q)} \cup {Tail(q)[k] : k \in 1 .. Len(Tail(q))}
  <2>1. CASE i = 1
    BY <1>1, <2>1
  <2>2. CASE i # 1
    <3>1. i - 1 \in 1 .. Len(Tail(q)) /\ Tail(q)[i - 1] = q[i]
      BY <1>1, <2>2
    <3> QED
      BY <3>1
  <2> QED
    BY <2>1, <2>2
<1>3. ASSUME NEW i \in 1 .. Len(Tail(q)) PROVE Tail(q)[i] \in {q[k] : k \in 1 .. Len(q)}
  <2>1. i + 1 \in 1 .. Len(q) /\ Tail(q)[i] = q[i + 1]
    BY <1>1
  <2> QED
    BY <2>1
<1>4. Head(q) \in {q[k] : k \in 1 .. Len(q)}
  BY <1>1
<1> QED
  BY <1>1, <1>2, <1>3, <1>4

\* What the steps of the hub do.  A published event takes the last place of the
\* bus, or is lost.
LEMMA PublishEffect ==
  ASSUME ServiceOK, HubOK, NEW e \in outbox, PublishOne(e) \/ LoseOne(e)
  PROVE  /\ UNCHANGED <<content, gray, call, registry, woken, event, targets, delivered>>
         /\ ServiceOK' /\ HubOK' /\ Coming' \subseteq Coming
         /\ lost' \/ (~lost /\ Coming' = Coming)
<1>1. /\ outbox' = outbox \ {e}
      /\ UNCHANGED <<content, gray, call, registry, woken, event, targets, delivered>>
      /\ e \in Events
  BY DEF PublishOne, Publish, LoseOne, ServiceOK
<1>2. \/ bus' = Append(bus, e) /\ lost' = lost
      \/ bus' = bus /\ lost' = TRUE
  BY DEF PublishOne, Publish, LoseOne
<1>3. bus \in Seq(Events) /\ lost \in BOOLEAN
  BY DEF HubOK
<1>4. /\ bus' \in Seq(Events) /\ lost' \in BOOLEAN
      /\ Coming' \subseteq Coming
      /\ lost' \/ (~lost /\ Coming' = Coming)
  <2>1. CASE bus' = Append(bus, e) /\ lost' = lost
    <3>1. {bus'[i] : i \in 1 .. Len(bus')} = {bus[i] : i \in 1 .. Len(bus)} \cup {e}
      BY <1>1, <1>3, <2>1, AppendElements
    <3> QED
      BY <1>1, <1>3, <2>1, <3>1 DEF Coming
  <2>2. CASE bus' = bus /\ lost' = TRUE
    BY <1>1, <1>3, <2>2 DEF Coming
  <2> QED
    BY <1>2, <2>1, <2>2
<1>5. ServiceOK'
  BY <1>1 DEF ServiceOK, CallsOK, Created, Version
<1>6. HubOK'
  BY <1>1, <1>4 DEF HubOK
<1> QED
  BY <1>1, <1>4, <1>5, <1>6

\* A step that leaves the service alone.
LEMMA ServiceKept ==
  ASSUME ServiceOK, EventsOK, UNCHANGED serviceVars, Coming' \subseteq Coming
  PROVE  ServiceOK' /\ EventsOK' /\ \A e : EventOK(e) => EventOK(e)'
<1>1. UNCHANGED <<content, gray, call, outbox>>
  BY DEF serviceVars
<1>2. ServiceOK'
  BY <1>1 DEF ServiceOK, CallsOK, Created, Version
<1>3. \A e : EventOK(e)' = EventOK(e)
  BY <1>1 DEF EventOK, Created
<1> QED
  BY <1>2, <1>3 DEF EventsOK

\* The event taken is on its way no more.  Of two connections of a client one is
\* registered at most, so that is true of the targets as well.  Whom the gate
\* would let it through to is a target, or is overlooked.
LEMMA TakeEffect ==
  ASSUME HubOK, NEW unread, TakeEvent(gray.selected, unread), lost' \in BOOLEAN,
         UNCHANGED serviceVars
  PROVE  /\ event = None /\ targets = {} /\ HubOK' /\ bus # <<>> /\ bus' = Tail(bus)
         /\ UNCHANGED <<content, gray, call, outbox, registry, woken, delivered>>
         /\ \E e \in Events :
           /\ e = Head(bus) /\ Coming = Coming' \cup {e}
           /\ targets' = {c \in Registered : Accepts(e, c[1], gray.selected, c \notin unread)}
           /\ event' = IF targets' = {} THEN None ELSE e
           /\ \A c \in Registered : Lets(e, c[1], gray.selected)
                => c \in targets' \cup Overlooked(Head(bus), gray.selected, unread)
<1>1. /\ event = None /\ targets = {} /\ bus # <<>> /\ bus \in Seq(Events)
      /\ UNCHANGED <<registry, woken, delivered, content, gray, call, outbox>>
      /\ bus' = Tail(bus)
  BY DEF TakeEvent, HubOK, serviceVars
<1>2. PICK e \in Events : e = Head(bus)
  BY <1>1
<1>3. /\ targets' = {c \in Registered : Accepts(e, c[1], gray.selected, c \notin unread)}
      /\ event' = IF targets' = {} THEN None ELSE e
  BY <1>2 DEF TakeEvent
<1>4. /\ bus' \in Seq(Events)
      /\ {bus[i] : i \in 1 .. Len(bus)} = {e} \cup {bus'[i] : i \in 1 .. Len(bus')}
  <2>1. /\ Tail(bus) \in Seq(Events)
        /\ {bus[i] : i \in 1 .. Len(bus)}
             = {Head(bus)} \cup {Tail(bus)[i] : i \in 1 .. Len(Tail(bus))}
    BY <1>1, TailElements, Zenon
  <2> QED
    BY <1>1, <1>2, <2>1, Zenon
<1>5. Coming = Coming' \cup {e}
  BY <1>1, <1>4 DEF Coming
<1>6. HubOK'
  <2>1. targets' \in SUBSET Conns /\ \A c \in targets' : registry[Client[c[1]].key] = c
    BY <1>3 DEF Registered
  <2>2. ASSUME NEW p \in Clients PROVE ~(<<p, 1>> \in targets' /\ <<p, 2>> \in targets')
    <3>1. <<p, 1>>[1] = p /\ <<p, 2>>[1] = p /\ <<p, 1>> # <<p, 2>>
      OBVIOUS
    <3> QED
      BY <2>1, <3>1
  <2>3. e # None
    BY EventsAssumption
  <2> QED
    BY <1>1, <1>3, <1>4, <2>1, <2>2, <2>3 DEF HubOK
<1>7. ASSUME NEW c \in Registered, Lets(e, c[1], gray.selected)
      PROVE  c \in targets' \cup Overlooked(Head(bus), gray.selected, unread)
  <2>1. Accepts(e, c[1], gray.selected, TRUE)
    BY <1>7, GateLets
  <2>2. CASE c \notin unread
    <3>1. Accepts(e, c[1], gray.selected, c \notin unread)
      BY <2>1, <2>2
    <3> QED
      BY <1>3, <3>1
  <2>3. CASE c \in unread /\ Accepts(e, c[1], gray.selected, FALSE)
    <3>1. Accepts(e, c[1], gray.selected, c \notin unread)
      BY <2>3
    <3> QED
      BY <1>3, <3>1
  <2>4. CASE c \in unread /\ ~Accepts(e, c[1], gray.selected, FALSE)
    BY <1>2, <2>1, <2>4 DEF Overlooked
  <2> QED
    BY <2>2, <2>3, <2>4
<1> QED
  BY <1>1, <1>2, <1>3, <1>5, <1>6, <1>7

\* A target that was delivered to is a target no more.
LEMMA DeliveredEffect ==
  ASSUME HubOK, NEW c \in targets, targets' = targets \ {c},
         event' = IF targets = {c} THEN None ELSE event, UNCHANGED <<bus, lost, registry>>
  PROVE  HubOK'
<1>1. event' = None <=> targets' = {}
  BY DEF HubOK
<1> QED
  BY <1>1 DEF HubOK

LEMMA RegisterEffect ==
  ASSUME HubOK, NEW c \in Conns, Register(c)
  PROVE  /\ HubOK' /\ UNCHANGED <<bus, lost, event, targets, delivered>>
         /\ registry'[Client[c[1]].key] = c
         /\ \A k \in Keys : k # Client[c[1]].key => registry'[k] = registry[k]
<1>1. c[1] \in Clients /\ Client[c[1]].key \in Keys
  BY DEF Conns, Keys
<1>2. registry' = [registry EXCEPT ![Client[c[1]].key] = c]
  BY DEF Register
<1>3. /\ registry' \in [Keys -> Conns \cup {None}]
      /\ \A d \in Conns, k \in Keys : registry'[k] = d => Client[d[1]].key = k
  BY <1>1, <1>2 DEF HubOK
<1> QED
  BY <1>1, <1>2, <1>3 DEF HubOK, Register

\* c need not be a connection: a poll that ends before it has registered has
\* none to remove.
LEMMA UnregisterEffect ==
  ASSUME HubOK, NEW c, Unregister(c)
  PROVE  /\ HubOK' /\ UNCHANGED <<bus, lost, event, targets, delivered>>
         /\ \A k \in Keys : registry'[k] = IF registry[k] = c THEN None ELSE registry[k]
<1>1. registry' = [k \in Keys |-> IF registry[k] = c THEN None ELSE registry[k]]
  BY DEF Unregister
<1>2. None \notin Conns
  BY HubAssumption DEF Conns
<1>3. /\ registry' \in [Keys -> Conns \cup {None}]
      /\ \A d \in Conns, k \in Keys : registry'[k] = d => Client[d[1]].key = k
  BY <1>1, <1>2 DEF HubOK
<1> QED
  BY <1>1, <1>3 DEF HubOK, Unregister

LEMMA ServiceHubInit ==
  HubInit /\ ServiceInit => ServiceOK /\ HubOK /\ Coming = {} /\ gray.status = "none" /\ ~lost
<1> SUFFICES ASSUME HubInit, ServiceInit
             PROVE  ServiceOK /\ HubOK /\ Coming = {} /\ gray.status = "none" /\ ~lost
  OBVIOUS
<1>1. ServiceOK /\ gray.status = "none"
  <2>1. content \in [Slots -> Seq(Nat)] /\ \A s \in Slots : Version(s) \in {0, 1}
    <3>1. ASSUME NEW s \in Slots PROVE content[s] \in Seq(Nat) /\ Len(content[s]) \in {0, 1}
      <4>1. content[s] \in {<<1>>, <<>>}
        BY DEF ServiceInit
      <4>2. <<1>> \in Seq(Nat) /\ Len(<<1>>) = 1
        OBVIOUS
      <4>3. <<>> \in Seq(Nat) /\ Len(<<>>) = 0
        OBVIOUS
      <4> QED
        BY <4>1, <4>2, <4>3
    <3>2. content = [s \in Slots |-> content[s]]
      BY DEF ServiceInit
    <3> QED
      BY <3>1, <3>2 DEF Version
  <2>2. MaxVersion \in Nat \ {0}
    BY EventsAssumption
  <2>3. gray \in Gray /\ gray.status = "none" /\ ~gray.withdrawn
    BY <2>2 DEF ServiceInit, NoRelease, Gray
  <2>4. CallsOK
    BY <2>3 DEF ServiceInit, CallsOK
  <2> QED
    BY <2>1, <2>2, <2>3, <2>4 DEF ServiceInit, ServiceOK
<1>2. HubOK /\ ~lost
  <2>1. None \notin Conns
    BY HubAssumption DEF Conns
  <2>2. bus \in Seq(Events) /\ lost \in BOOLEAN
    <3>1. bus = <<>> /\ lost = FALSE
      BY DEF HubInit
    <3>2. <<>> \in Seq(Events)
      OBVIOUS
    <3> QED
      BY <3>1, <3>2
  <2>3. registry \in [Keys -> Conns \cup {None}] /\ \A k \in Keys : registry[k] \notin Conns
    BY <2>1 DEF HubInit
  <2>4. event = None /\ targets = {} /\ lost = FALSE
    BY DEF HubInit
  <2> QED
    BY <2>2, <2>3, <2>4 DEF HubOK
<1>3. Coming = {}
  BY DEF HubInit, ServiceInit, Coming
<1> QED
  BY <1>1, <1>2, <1>3

(***************************************************************************)
(* 2. LongPoll.                                                            *)
(***************************************************************************)
PollOK ==
  /\ ppc  \in [Clients -> {"idle", "register", "recheck", "wait", "leave"}]
  /\ conn \in [Clients -> Conns \cup {None}]
  /\ \A p \in Clients : ppc[p] = "wait" => conn[p] \in {<<p, 1>>, <<p, 2>>}
  /\ \A p \in Clients : conn[p] \in {None, <<p, 1>>, <<p, 2>>}
  /\ \A p \in Clients : ppc[p] \in {"recheck", "wait"} => conn[p] # None
  /\ DOMAIN have = Clients
  /\ \A p \in Clients : have[p].version \in Nat

\* The version of slot s that client p is served, leaving out one that is
\* committed to become the gray version but is not yet known to be gray.
Settled(p, s) ==
  IF gray.slot = s /\ \/ gray.status = "opening"
                      \/ gray.status = "gray" /\ Client[p].key \notin gray.selected
    THEN gray.prev ELSE Version(s)

\* Client p is woken, a target, or an event that it is let have is coming.
Covered(p) ==
  \/ conn[p] \in woken
  \/ conn[p] \in targets
  \/ \E e \in Coming : Lets(e, p, gray.selected)

\* An item of client p's belongs to a withdrawn release.
Excused(p) == gray.withdrawn /\ gray.slot \in Contributes(p)

Suspended(p) ==
  /\ ppc[p] = "wait" /\ registry[Client[p].key] = conn[p]
  /\ ~lost /\ ~Excused(p)

WakeUpOK(p) ==
  Suspended(p) => \/ Covered(p)
                  \/ \A s \in Contributes(p) : Settled(p, s) <= have[p].version

\* The inductive invariant.
PollInv ==
  /\ ServiceOK /\ PollOK /\ HubOK /\ EventsOK
  /\ \A p \in Clients : WakeUpOK(p)

-----------------------------------------------------------------------------
\* What a write of the service leaves to prove of each client: it announced
\* what the client is now served, or the client is served what it was.
AnnouncedTo(p) ==
  \/ \E e \in Coming' : Lets(e, p, gray'.selected)
  \/ \A s \in Contributes(p) : Settled(p, s)' = Settled(p, s)

LEMMA WritesAnnounce ==
  ASSUME ServiceOK, HubOK, EventsOK, ServiceWrite, NEW p \in Clients, ~Excused(p)'
  PROVE  AnnouncedTo(p)
<1>0. Contributes(p) \subseteq Slots
  BY DEF Contributes
<1>1. ASSUME NEW s \in Slots, Commit(s) PROVE AnnouncedTo(p)
  <2>1. /\ UNCHANGED gray /\ \A t \in Slots : t # s => Version(t)' = Version(t)
        /\ Announces("change", s, Version(s) + 1, 0)
    BY <1>1, CommitEffect
  <2>2. CASE s \in Contributes(p)
    BY <2>1, <2>2 DEF Announces, Says, AnnouncedTo, Lets
  <2>3. CASE s \notin Contributes(p)
    <3>1. \A t \in Contributes(p) : Settled(p, t)' = Settled(p, t)
      BY <1>0, <2>1, <2>3 DEF Settled
    <3> QED
      BY <3>1 DEF AnnouncedTo
  <2> QED
    BY <2>2, <2>3
<1>2. ASSUME NEW s \in Slots, NEW S \in SUBSET Keys, CommitForGray(s, S) PROVE AnnouncedTo(p)
  <2>1. \A t \in Slots : Settled(p, t)' = Settled(p, t)
    BY <1>2, CommitForGrayEffect DEF Settled
  <2> QED
    BY <1>0, <2>1 DEF AnnouncedTo
<1>3. CASE StatusWrite
  <2>1. PICK s \in Slots :
           /\ s = gray.slot /\ UNCHANGED content
           /\ gray'.slot = gray.slot /\ gray'.prev = gray.prev
           /\ gray'.selected = gray.selected /\ gray'.withdrawn = gray.withdrawn
           /\ \/ /\ gray.status = "opening" /\ gray'.status = "gray"
                 /\ Announces("change", s, gray.prev + 1, 1)
              \/ /\ Created /\ gray'.status = "promoted"
                 /\ Announces("promote", s, gray.prev + 1, 1)
              \/ gray.withdrawn
    BY <1>3, StatusEffect
  <2>2. \A t : Version(t)' = Version(t)
    BY <2>1 DEF Version
  <2>3. CASE s \notin Contributes(p)
    <3>1. \A t \in Contributes(p) : Settled(p, t)' = Settled(p, t)
      BY <1>0, <2>1, <2>2, <2>3 DEF Settled
    <3> QED
      BY <3>1 DEF AnnouncedTo
  <2>4. CASE /\ s \in Contributes(p) /\ gray.status = "opening" /\ gray'.status = "gray"
             /\ Announces("change", s, gray.prev + 1, 1)
    <3>1. CASE Client[p].key \in gray.selected
      BY <2>1, <2>4, <3>1 DEF Announces, Says, AnnouncedTo, Lets
    <3>2. CASE Client[p].key \notin gray.selected
      <4>1. \A t \in Contributes(p) : Settled(p, t)' = Settled(p, t)
        BY <1>0, <2>1, <2>2, <2>4, <3>2 DEF Settled
      <4> QED
        BY <4>1 DEF AnnouncedTo
    <3> QED
      BY <3>1, <3>2
  <2>5. CASE s \in Contributes(p) /\ Announces("promote", s, gray.prev + 1, 1)
    BY <2>1, <2>5 DEF Announces, Says, AnnouncedTo, Lets
  <2>6. CASE s \in Contributes(p) /\ gray.withdrawn
    BY <2>1, <2>6 DEF Excused, Contributes
  <2> QED
    BY <2>1, <2>3, <2>4, <2>5, <2>6
<1>4. ASSUME NEW o \in Operators, Withdraw(o) PROVE AnnouncedTo(p)
  <2>1. PICK s \in Slots :
          /\ s = gray.slot /\ gray'.withdrawn /\ gray'.slot = gray.slot
          /\ \A t \in Slots : t # s => Version(t)' = Version(t)
    BY <1>4, WithdrawEffect
  <2>2. s \notin Contributes(p)
    BY <2>1 DEF Excused, Contributes
  <2>3. \A t \in Contributes(p) : Settled(p, t)' = Settled(p, t)
    BY <1>0, <2>1, <2>2 DEF Settled
  <2> QED
    BY <2>3 DEF AnnouncedTo
<1>5. ASSUME NEW o \in Operators, AskToPromote(o) \/ AskToRollBack(o) \/ GiveUp(o)
      PROVE  AnnouncedTo(p)
  <2>1. UNCHANGED <<content, gray>>
    BY <1>5, AskEffect
  <2>2. \A t : Settled(p, t)' = Settled(p, t)
    BY <2>1 DEF Settled, Version
  <2> QED
    BY <2>2 DEF AnnouncedTo
<1> QED
  BY <1>1, <1>2, <1>3, <1>4, <1>5 DEF ServiceWrite, StatusWrite

\* Every write of the service keeps the invariant.
LEMMA WriteStep == PollInv /\ ServiceWrite /\ UNCHANGED pollVars => PollInv'
<1> SUFFICES ASSUME PollInv, ServiceWrite, UNCHANGED pollVars PROVE PollInv'
  OBVIOUS
<1>1. ServiceOK /\ PollOK /\ HubOK /\ EventsOK /\ \A p \in Clients : WakeUpOK(p)
  BY DEF PollInv
<1>2. WriteOK
  BY <1>1, WritesOK
<1>3. UNCHANGED hubVars
  BY <1>1, WritesOK
<1>4. PollOK' /\ HubOK'
  BY <1>1, <1>3 DEF PollOK, HubOK, pollVars, hubVars
<1>5. ASSUME NEW p \in Clients PROVE WakeUpOK(p)'
  <2>1. CASE ~Suspended(p)'
    BY <2>1 DEF WakeUpOK
  <2>2. CASE Suspended(p)'
    <3>0. Excused(p) => Excused(p)'
      BY <1>1, <1>2 DEF Excused, WriteOK, ServiceOK, CallsOK, Contributes
    <3>1. Suspended(p) /\ AnnouncedTo(p)
      BY <1>1, <1>3, <2>2, <3>0, WritesAnnounce DEF Suspended, pollVars, hubVars
    <3>2. CASE Covered(p)
      BY <1>2, <1>3, <3>2 DEF Covered, WriteOK, pollVars, hubVars, WakeUpOK
    <3>3. CASE \A s \in Contributes(p) : Settled(p, s) <= have[p].version
      <4>1. CASE \E e \in Coming' : Lets(e, p, gray'.selected)
        BY <4>1 DEF Covered, WakeUpOK
      <4>2. CASE \A s \in Contributes(p) : Settled(p, s)' = Settled(p, s)
        BY <3>3, <4>2 DEF WakeUpOK, pollVars
      <4> QED
        BY <3>1, <4>1, <4>2 DEF AnnouncedTo
    <3> QED
      BY <1>1, <3>1, <3>2, <3>3 DEF WakeUpOK
  <2> QED
    BY <2>1, <2>2
<1> QED
  BY <1>2, <1>4, <1>5 DEF PollInv, WriteOK

-----------------------------------------------------------------------------
\* A suspended client that the step leaves suspended keeps its wake-up if each
\* of the three forms it may have stays, or becomes another.
LEMMA WakeUpKept ==
  ASSUME NEW p \in Clients, WakeUpOK(p), Suspended(p), UNCHANGED <<content, gray>>,
         conn'[p] = conn[p], have'[p] = have[p],
         conn[p] \in woken => conn[p] \in woken',
         conn[p] \in targets => conn[p] \in woken' \cup targets',
         \A e \in Coming : Lets(e, p, gray.selected)
           => e \in Coming' \/ conn[p] \in targets'
  PROVE  WakeUpOK(p)'
<1>1. CASE Covered(p)
  BY <1>1 DEF Covered, WakeUpOK
<1>2. CASE \A s \in Contributes(p) : Settled(p, s) <= have[p].version
  <2>1. \A s : Settled(p, s)' = Settled(p, s)
    BY DEF Settled, Version
  <2> QED
    BY <1>2, <2>1 DEF WakeUpOK
<1> QED
  BY <1>1, <1>2 DEF WakeUpOK

\* An event is published, or lost.
LEMMA PublishStep ==
  ASSUME PollInv, NEW e \in outbox, PublishOne(e) \/ LoseOne(e), UNCHANGED pollVars
  PROVE  PollInv'
<1>1. ServiceOK /\ PollOK /\ HubOK /\ EventsOK /\ \A p \in Clients : WakeUpOK(p)
  BY DEF PollInv
<1>2. /\ UNCHANGED <<content, gray, registry, woken, event, targets>>
      /\ ServiceOK' /\ HubOK' /\ Coming' \subseteq Coming
      /\ lost' \/ (~lost /\ Coming' = Coming)
  BY <1>1, PublishEffect
<1>3. PollOK' /\ EventsOK'
  BY <1>1, <1>2 DEF PollOK, pollVars, EventsOK, EventOK, Created
<1>4. ASSUME NEW p \in Clients PROVE WakeUpOK(p)'
  <2>1. CASE ~Suspended(p)'
    BY <2>1 DEF WakeUpOK
  <2>2. CASE Suspended(p)'
    <3>1. Suspended(p) /\ Coming' = Coming
      BY <1>2, <2>2 DEF Suspended, Excused, Contributes, pollVars
    <3> QED
      BY <1>1, <1>2, <3>1, WakeUpKept DEF pollVars
  <2> QED
    BY <2>1, <2>2
<1> QED
  BY <1>2, <1>3, <1>4 DEF PollInv

-----------------------------------------------------------------------------
\* The dispatcher takes an event: every suspended client that it is for becomes
\* a target, the others' wake-ups are where they were.
LEMMA TakeStep == PollInv /\ Take => PollInv'
<1> SUFFICES ASSUME PollInv, Take PROVE PollInv'
  OBVIOUS
<1>1. ServiceOK /\ PollOK /\ HubOK /\ EventsOK /\ \A p \in Clients : WakeUpOK(p)
  BY DEF PollInv
<1>2. PICK unread \in SUBSET Registered :
        /\ TakeEvent(gray.selected, unread)
        /\ lost' = (lost \/ Overlooked(Head(bus), gray.selected, unread) # {})
  BY DEF Take
<1>3. lost' \in BOOLEAN /\ UNCHANGED serviceVars
  BY <1>1, <1>2 DEF HubOK, Take
<1>4. /\ targets = {} /\ HubOK'
      /\ UNCHANGED <<content, gray, registry, woken, ppc, conn, have>>
  BY <1>1, <1>2, <1>3, TakeEffect DEF Take, pollVars
<1>5. PICK e \in Events :
        /\ Coming = Coming' \cup {e}
        /\ \A c \in Registered : Lets(e, c[1], gray.selected)
             => c \in targets' \cup Overlooked(Head(bus), gray.selected, unread)
  BY <1>1, <1>2, <1>3, TakeEffect
<1>6. ServiceOK' /\ EventsOK'
  BY <1>1, <1>3, <1>5, ServiceKept
<1>7. PollOK'
  BY <1>1, <1>4 DEF PollOK
<1>8. ASSUME NEW p \in Clients PROVE WakeUpOK(p)'
  <2>1. CASE ~Suspended(p)'
    BY <2>1 DEF WakeUpOK
  <2>2. CASE Suspended(p)'
    <3>1. Suspended(p) /\ Overlooked(Head(bus), gray.selected, unread) = {}
      BY <1>1, <1>2, <1>4, <2>2 DEF Suspended, Excused, Contributes, HubOK
    <3>2. conn[p] \in Registered /\ conn[p][1] = p
      BY <1>1, <3>1 DEF Registered, Suspended, PollOK, Conns
    <3>3. Lets(e, p, gray.selected) => conn[p] \in targets'
      BY <1>5, <3>1, <3>2
    <3> QED
      BY <1>1, <1>4, <1>5, <3>1, <3>3, WakeUpKept
  <2> QED
    BY <2>1, <2>2
<1> QED
  BY <1>4, <1>6, <1>7, <1>8 DEF PollInv

\* A delivery wakes its target.
LEMMA DeliverStep == ASSUME PollInv, NEW c \in Conns, DeliverTo(c) PROVE PollInv'
<1>1. ServiceOK /\ PollOK /\ HubOK /\ EventsOK /\ \A p \in Clients : WakeUpOK(p)
  BY DEF PollInv
<1>2. /\ event # None /\ c \in targets /\ targets' = targets \ {c}
      /\ event' = IF targets = {c} THEN None ELSE event
      /\ woken' = woken \cup {c}
      /\ UNCHANGED <<bus, lost, registry, content, gray, call, outbox, ppc, conn, have>>
  BY DEF DeliverTo, Deliver, serviceVars, pollVars
<1>3. HubOK'
  BY <1>1, <1>2, DeliveredEffect
<1>4. Coming' = Coming
  BY <1>2 DEF Coming
<1>5. ServiceOK' /\ PollOK' /\ EventsOK'
  <2>1. ServiceOK' /\ EventsOK'
    BY <1>1, <1>2, <1>4, ServiceKept DEF serviceVars
  <2>2. PollOK'
    BY <1>1, <1>2 DEF PollOK
  <2> QED
    BY <2>1, <2>2
<1>6. ASSUME NEW p \in Clients PROVE WakeUpOK(p)'
  <2>1. CASE ~Suspended(p)'
    BY <2>1 DEF WakeUpOK
  <2>2. CASE Suspended(p)'
    <3>1. Suspended(p)
      BY <1>2, <2>2 DEF Suspended, Excused, Contributes
    <3> QED
      BY <1>1, <1>2, <1>4, <3>1, WakeUpKept
  <2> QED
    BY <2>1, <2>2
<1> QED
  BY <1>3, <1>5, <1>6 DEF PollInv

-----------------------------------------------------------------------------
\* A step of the poll of client q that leaves the other clients alone and q not
\* suspended, or suspended in a way that is proved apart.
LEMMA PollKeeps ==
  ASSUME PollInv, NEW q \in Clients, PollOK', HubOK', WakeUpOK(q)',
         UNCHANGED <<bus, lost, event, targets, content, gray, call, outbox>>,
         \A p \in Clients : p # q =>
           /\ ppc'[p] = ppc[p] /\ conn'[p] = conn[p] /\ have'[p] = have[p]
           /\ Suspended(p)' => Suspended(p)
           /\ Suspended(p) /\ conn[p] \in woken => conn[p] \in woken'
  PROVE  PollInv'
<1>1. ServiceOK /\ PollOK /\ HubOK /\ EventsOK /\ \A p \in Clients : WakeUpOK(p)
  BY DEF PollInv
<1>2. Coming' = Coming
  BY DEF Coming
<1>3. ServiceOK' /\ EventsOK'
  BY <1>1, <1>2, ServiceKept DEF serviceVars
<1>4. ASSUME NEW p \in Clients PROVE WakeUpOK(p)'
  <2>1. CASE ~Suspended(p)'
    BY <2>1 DEF WakeUpOK
  <2>2. CASE Suspended(p)' /\ p # q
    BY <1>1, <1>2, <2>2, WakeUpKept
  <2> QED
    BY <2>1, <2>2
<1> QED
  BY <1>3, <1>4 DEF PollInv

\* The connection of the other suspended clients is another one.
LEMMA OtherConns ==
  ASSUME PollOK, NEW p \in Clients, NEW q \in Clients, p # q, ppc[p] = "wait"
  PROVE  conn[p] \notin {<<q, 1>>, <<q, 2>>, None} /\ conn[p] \in Conns
<1>1. conn[p] \in {<<p, 1>>, <<p, 2>>}
  BY DEF PollOK
<1>2. {<<p, 1>>, <<p, 2>>} \subseteq Conns
  BY DEF Conns
<1>3. None \notin Conns
  BY HubAssumption DEF Conns
<1> QED
  BY <1>1, <1>2, <1>3

\* A client has a connection left that nothing is delivered to.
LEMMA FreshConnIsFree ==
  ASSUME HubOK, NEW p \in Clients
  PROVE  FreshConn(p) \in {<<p, 1>>, <<p, 2>>} /\ FreshConn(p) \notin targets
<1>1. \E c \in {<<p, 1>>, <<p, 2>>} : c \notin targets
  BY DEF HubOK
<1> QED
  BY <1>1 DEF FreshConn

\* A suspended client is up to date: Recheck has looked once more.
LEMMA RecheckSettles ==
  ASSUME ServiceOK, NEW p \in Clients, ~Newer(p), ~Fails(p), have[p].version \in Nat
  PROVE  \A s \in Contributes(p) : Settled(p, s) <= have[p].version
<1> SUFFICES ASSUME NEW s \in Contributes(p) PROVE Settled(p, s) <= have[p].version
  OBVIOUS
<1>1. s \in Slots
  BY DEF Contributes
<1>2. ServedVersion(p, s) \in Nat /\ Version(s) \in Nat /\ gray.prev \in Nat
  BY <1>1, ServedBounded, EventsAssumption DEF ServiceOK, Gray
<1>3. Settled(p, s) <= ServedVersion(p, s) /\ Settled(p, s) \in Nat
  BY <1>1, <1>2 DEF Settled, ServedVersion, ShouldDeliver, ServiceOK
<1>4. ServedVersion(p, s) <= Snapshot(p).version /\ Snapshot(p).version \in Nat
  BY SnapshotVersion
<1>5. ~(Snapshot(p).version > have[p].version)
  BY DEF Newer
<1> QED
  BY <1>2, <1>3, <1>4, <1>5

\* A poll that answers, or goes on, without a look at its registration.
LEMMA AnswerStep ==
  ASSUME PollInv, NEW q \in Clients, Poll(q) \/ Recheck(q) \/ Wake(q) \/ Timeout(q)
  PROVE  PollInv'
<1>1. ServiceOK /\ PollOK /\ HubOK /\ EventsOK /\ \A p \in Clients : WakeUpOK(p)
  BY DEF PollInv
<1>2. /\ UNCHANGED <<bus, lost, registry, woken, event, targets>>
      /\ UNCHANGED <<content, gray, call, outbox, conn>>
      /\ \A p \in Clients : p # q => ppc'[p] = ppc[p] /\ have'[p] = have[p]
      /\ DOMAIN have' = Clients
      /\ have'[q] = have[q] \/ have'[q] = Snapshot(q)
      /\ ppc' \in [Clients -> {"idle", "register", "recheck", "wait", "leave"}]
      /\ \/ ppc'[q] \in {"idle", "register", "leave"}
         \/ /\ ppc'[q] = "wait" /\ ppc[q] = "recheck"
            /\ ~Newer(q) /\ ~Fails(q) /\ have'[q] = have[q]
  BY <1>1 DEF Poll, Recheck, Wake, Timeout, PollOK, hubVars, serviceVars
<1>3. \A p \in Clients : have[p].version \in Nat /\ have'[p].version \in Nat
  BY <1>1, <1>2, SnapshotVersion DEF PollOK
<1>4. HubOK'
  BY <1>1, <1>2 DEF HubOK
<1>5. PollOK'
  BY <1>1, <1>2, <1>3 DEF PollOK
<1>6. WakeUpOK(q)'
  <2>1. CASE ppc'[q] # "wait"
    BY <2>1 DEF WakeUpOK, Suspended
  <2>2. CASE ~Newer(q) /\ ~Fails(q) /\ have'[q] = have[q]
    <3>1. \A s \in Contributes(q) : Settled(q, s) <= have[q].version
      BY <1>1, <1>3, <2>2, RecheckSettles
    <3>2. \A s : Settled(q, s)' = Settled(q, s)
      BY <1>2 DEF Settled, Version
    <3> QED
      BY <2>2, <3>1, <3>2 DEF WakeUpOK
  <2> QED
    BY <1>2, <2>1, <2>2
<1> QED
  BY <1>2, <1>4, <1>5, <1>6, PollKeeps DEF Suspended, Excused, Contributes

\* A poll registers: no other client's connection is touched, except that one
\* under the same key is no longer the registered one.
LEMMA RegisterStep == ASSUME PollInv, NEW q \in Clients, RegisterConn(q) PROVE PollInv'
<1>1. ServiceOK /\ PollOK /\ HubOK /\ EventsOK /\ \A p \in Clients : WakeUpOK(p)
  BY DEF PollInv
<1>2. PICK c \in {<<q, 1>>, <<q, 2>>} : c = FreshConn(q) /\ c \notin targets
  BY <1>1, FreshConnIsFree
<1>3. c \in Conns /\ c[1] = q /\ Client[q].key \in Keys
  BY <1>2 DEF Conns, Keys
<1>4. /\ UNCHANGED <<bus, lost, event, targets, content, gray, call, outbox, have>>
      /\ registry' = [registry EXCEPT ![Client[q].key] = c]
      /\ woken' = woken \ {c}
      /\ conn' = [conn EXCEPT ![q] = c]
      /\ ppc' = [ppc EXCEPT ![q] = "recheck"]
  BY <1>2, <1>3 DEF RegisterConn, Register, serviceVars
<1>5. HubOK'
  BY <1>1, <1>2, <1>3, RegisterEffect DEF RegisterConn
<1>6. PollOK'
  <2>1. c # None
    BY <1>3, HubAssumption DEF Conns
  <2> QED
    BY <1>1, <1>2, <1>3, <1>4, <2>1 DEF PollOK
<1>7. WakeUpOK(q)'
  <2>1. ppc'[q] = "recheck"
    BY <1>1, <1>4 DEF PollOK
  <2> QED
    BY <2>1 DEF WakeUpOK, Suspended
<1>8. ASSUME NEW p \in Clients, p # q
      PROVE  /\ ppc'[p] = ppc[p] /\ conn'[p] = conn[p] /\ have'[p] = have[p]
             /\ Suspended(p)' => Suspended(p)
             /\ Suspended(p) /\ conn[p] \in woken => conn[p] \in woken'
  <2>1. ppc'[p] = ppc[p] /\ conn'[p] = conn[p] /\ have'[p] = have[p]
    BY <1>1, <1>4, <1>8 DEF PollOK
  <2>2. ppc[p] = "wait" => conn[p] # c
    BY <1>1, <1>2, <1>8, OtherConns
  <2>3. registry'[Client[p].key] \in {c, registry[Client[p].key]}
    BY <1>1, <1>4 DEF HubOK, Keys
  <2> QED
    BY <1>4, <2>1, <2>2, <2>3 DEF Suspended, Excused, Contributes
<1> QED
  BY <1>4, <1>5, <1>6, <1>7, <1>8, PollKeeps

\* A poll is over: only its own connection leaves the registry.
LEMMA LeaveStep == ASSUME PollInv, NEW q \in Clients, Leave(q) PROVE PollInv'
<1>1. ServiceOK /\ PollOK /\ HubOK /\ EventsOK /\ \A p \in Clients : WakeUpOK(p)
  BY DEF PollInv
<1>2. PICK c \in {None, <<q, 1>>, <<q, 2>>} : c = conn[q]
  BY <1>1 DEF PollOK
<1>3. /\ UNCHANGED <<bus, lost, event, targets, content, gray, call, outbox, have>>
      /\ registry' = [k \in Keys |-> IF registry[k] = c THEN None ELSE registry[k]]
      /\ woken' = woken \ {c}
      /\ conn' = [conn EXCEPT ![q] = None]
      /\ ppc' = [ppc EXCEPT ![q] = "idle"]
  BY <1>2 DEF Leave, Unregister, serviceVars
<1>4. HubOK'
  BY <1>1, UnregisterEffect DEF Leave
<1>5. PollOK'
  BY <1>1, <1>3 DEF PollOK
<1>6. WakeUpOK(q)'
  <2>1. ppc'[q] = "idle"
    BY <1>1, <1>3 DEF PollOK
  <2> QED
    BY <2>1 DEF WakeUpOK, Suspended
<1>7. ASSUME NEW p \in Clients, p # q
      PROVE  /\ ppc'[p] = ppc[p] /\ conn'[p] = conn[p] /\ have'[p] = have[p]
             /\ Suspended(p)' => Suspended(p)
             /\ Suspended(p) /\ conn[p] \in woken => conn[p] \in woken'
  <2>1. ppc'[p] = ppc[p] /\ conn'[p] = conn[p] /\ have'[p] = have[p]
    BY <1>1, <1>3, <1>7 DEF PollOK
  <2>2. ppc[p] = "wait" => conn[p] # c /\ conn[p] # None
    BY <1>1, <1>2, <1>7, OtherConns
  <2>3. registry'[Client[p].key] \in {None, registry[Client[p].key]}
    BY <1>3 DEF Keys
  <2> QED
    BY <1>3, <2>1, <2>2, <2>3 DEF Suspended, Excused, Contributes
<1> QED
  BY <1>3, <1>4, <1>5, <1>6, <1>7, PollKeeps

-----------------------------------------------------------------------------
\* The invariant holds initially.
LEMMA InitInv == Init => PollInv
<1> SUFFICES ASSUME Init PROVE PollInv
  OBVIOUS
<1>1. ServiceOK /\ HubOK /\ Coming = {}
  BY ServiceHubInit DEF Init
<1>2. PollOK
  BY DEF Init, PollOK, Nothing
<1>3. EventsOK /\ \A p \in Clients : WakeUpOK(p)
  BY <1>1 DEF EventsOK, WakeUpOK, Suspended, Init
<1> QED
  BY <1>1, <1>2, <1>3 DEF PollInv

\* Every step keeps the invariant.
LEMMA StepInv == PollInv /\ [Next]_vars => PollInv'
<1> SUFFICES ASSUME PollInv, [Next]_vars PROVE PollInv'
  OBVIOUS
<1>1. CASE ServiceStep /\ UNCHANGED pollVars
  <2>1. ServiceWrite \/ \E e \in outbox : PublishOne(e)
    BY <1>1 DEF ServiceStep, ServiceWrite
  <2> QED
    BY <1>1, <2>1, WriteStep, PublishStep
<1>2. CASE EventLost /\ UNCHANGED pollVars
  BY <1>2, PublishStep DEF EventLost
<1>3. CASE HubStep
  BY <1>3, TakeStep, DeliverStep DEF HubStep
<1>4. ASSUME NEW p \in Clients, PollStep(p) PROVE PollInv'
  BY <1>4, AnswerStep, RegisterStep, LeaveStep DEF PollStep
<1>5. CASE UNCHANGED vars
  <2>1. ServiceOK' /\ PollOK' /\ HubOK' /\ EventsOK'
    <3>1. UNCHANGED <<hubVars, serviceVars, pollVars>> /\ Coming' = Coming
      BY <1>5 DEF vars, Coming, hubVars, serviceVars
    <3>2. ServiceOK' /\ EventsOK'
      BY <3>1, ServiceKept DEF PollInv
    <3> QED
      BY <3>1, <3>2 DEF PollInv, hubVars, pollVars, PollOK, HubOK
  <2>2. ASSUME NEW p \in Clients PROVE WakeUpOK(p)'
    BY <1>5 DEF PollInv, vars, hubVars, serviceVars, pollVars, WakeUpOK, Suspended, Excused,
                Contributes, Covered, Settled, Coming, Version
  <2> QED
    BY <2>1, <2>2 DEF PollInv
<1> QED
  BY <1>1, <1>2, <1>3, <1>4, <1>5 DEF Next

\* The inductive invariant holds for any clients, subscriptions and slots.
THEOREM LongPollInvariant == Spec => []PollInv
BY InitInv, StepInv, PTL DEF Spec

\* Polls register before they look again and the filter of the push side
\* (Matches, Gate.ShouldDeliver) lets through what changes a snapshot
\* (layerContainers, servedValue): no wake-up is lost (handlers.go:377-398,
\* hub.go:151-183, effective.go:61-117 and 258-290).
THEOREM WakeUpNeverLost == Spec => []NoLostWakeup
<1>1. PollInv => NoLostWakeup
  <2> SUFFICES ASSUME PollInv, NEW p \in Clients, ppc[p] = "wait",
                      registry[Client[p].key] = conn[p], Newer(p), ~lost, ~Excused(p)
               PROVE  \/ gray.status = "opening" /\ gray.slot \in Contributes(p)
                      \/ conn[p] \in woken
                      \/ conn[p] \in targets
                      \/ \E e \in Coming : Accepts(e, p, gray.selected, TRUE)
    BY DEF NoLostWakeup, Coming, Excused
  <2>1. ServiceOK /\ PollOK /\ HubOK /\ EventsOK /\ WakeUpOK(p) /\ Suspended(p)
    BY DEF PollInv, Suspended
  <2>2. CASE Covered(p)
    <3>1. ASSUME NEW e \in Coming, Lets(e, p, gray.selected)
          PROVE  Accepts(e, p, gray.selected, TRUE)
      <4>1. e \in Events
        BY <2>1, ComingAreEvents
      <4> QED
        BY <3>1, <4>1, GateLets
    <3> QED
      BY <2>2, <3>1 DEF Covered
  <2>3. CASE \A s \in Contributes(p) : Settled(p, s) <= have[p].version
    <3>1. have[p].version \in Nat /\ Snapshot(p).version > have[p].version
      BY <2>1 DEF PollOK, Newer
    <3>2. PICK s \in Contributes(p) : ServedVersion(p, s) > have[p].version
      BY <2>1, <3>1, SnapshotVersion
    <3>3. ServedVersion(p, s) \in Nat /\ Settled(p, s) <= have[p].version
      BY <2>1, <2>3, ServedBounded, EventsAssumption DEF Contributes
    <3>4. Settled(p, s) # ServedVersion(p, s)
      BY <3>1, <3>2, <3>3
    <3>5. gray.status = "opening" /\ gray.slot = s
      BY <3>4 DEF Settled, ServedVersion, ShouldDeliver
    <3> QED
      BY <3>5
  <2> QED
    BY <2>1, <2>2, <2>3 DEF WakeUpOK
<1> QED
  BY <1>1, LongPollInvariant, PTL

(***************************************************************************)
(* 3. WsSession.                                                           *)
(***************************************************************************)
Frame == SUBSET (Slots \X (0 .. MaxVersion))

\* No event is lost here, see SessionNext.
BusOK == ~lost /\ Len(bus) <= BusCap /\ woken \in SUBSET Conns /\ delivered \in SUBSET ({1} \X Keys)

SessionOK ==
  /\ handler \in [Conns -> {"none", "registered", "snapshot"}]
  /\ first \in [Conns -> Frame]
  /\ \A c \in Conns : handler[c] = "snapshot" \/ first[c] = NoFrame
  /\ frames \in [Conns -> Seq(Frame)]
  /\ \A c \in Conns : Len(frames[c]) <= QueueCap
  /\ socket \in [Conns -> {"open", "closed"}]
  /\ reader \in [Conns -> {"run", "ended"}]
  /\ writer \in [Conns -> {"run", "ended"}]
  /\ \A c \in Conns : socket[c] = "open" => writer[c] = "run"
  /\ marking \in targets \cup {None}
  /\ dropped \in SUBSET Conns /\ replaced \in SUBSET Conns /\ holders \in SUBSET Conns
  /\ told \in [Conns -> [Slots -> 0 .. MaxVersion]]

\* The event in dispatch is one that was announced, its targets are those it
\* matches, and who is about to be queued it has been recorded.
DispatchOK ==
  /\ event # None => EventOK(event)
  /\ \A c \in targets : Matches(event, Client[c[1]])
  /\ marking # None => Marks(event) /\ <<1, Client[marking[1]].key>> \in delivered

\* Matches, of the events of slot s in the namespace of subscription m.
SlotMatches(s, m) ==
  /\ m.env = All \/ Loc[s].env = m.env
  /\ m.group = All \/ GroupOf(s) \in {m.group, Defaults, Public}

\* Whoever holds the gray version by a push is recorded, and concerned by it.
HoldersOK ==
  \A c \in holders : /\ Created
                     /\ <<1, Client[c[1]].key>> \in delivered
                     /\ SlotMatches(gray.slot, Client[c[1]])

SessionInv ==
  /\ ServiceOK /\ HubOK /\ EventsOK
  /\ BusOK /\ SessionOK /\ DispatchOK /\ HoldersOK

-----------------------------------------------------------------------------
LEMMA EventMatches ==
  ASSUME NEW e, EventOK(e), NEW m
  PROVE  Matches(e, m) <=> e.ns = m.ns /\ SlotMatches(e.slot, m)
BY DEF EventOK, Matches, SlotMatches

\* A gray event that matches a client's subscription is about the gray slot.
LEMMA GrayEventMatches ==
  ASSUME NEW e \in Events, EventOK(e), NEW m, Matches(e, m), Marks(e)
  PROVE  e.rel = 1 /\ Created /\ SlotMatches(gray.slot, m)
<1>1. e.rel \in {0, 1}
  BY DEF Events
<1> QED
  BY <1>1, EventMatches DEF Marks, EventOK

LEMMA ConnKeys == \A c \in Conns : c[1] \in Clients /\ Client[c[1]].key \in Keys /\ c # None
BY HubAssumption DEF Conns, Keys

\* What the peer was told, after one more frame.
TellOf(n, f, s) == Largest({n} \cup {t[2] : t \in {u \in f : u[1] = s}})

LEMMA TellEffect ==
  ASSUME NEW n \in 0 .. MaxVersion, NEW f \in Frame, NEW s
  PROVE  /\ TellOf(n, f, s) \in 0 .. MaxVersion /\ TellOf(n, f, s) >= n
         /\ \A t \in f : t[1] = s => TellOf(n, f, s) >= t[2]
<1> DEFINE S == {n} \cup {t[2] : t \in {u \in f : u[1] = s}}
<1>1. MaxVersion \in Nat
  BY EventsAssumption
<1>2. \A t \in f : t[2] \in 0 .. MaxVersion
  BY DEF Frame
<1>3. S \in SUBSET (0 .. MaxVersion) /\ S # {}
  BY <1>2
<1>4. n \in S /\ \A t \in f : t[1] = s => t[2] \in S
  OBVIOUS
<1> HIDE DEF S
<1>5. Largest(S) \in S /\ \A x \in S : x <= Largest(S)
  BY <1>1, <1>3, LargestIsGreatest
<1>6. Largest(S) \in 0 .. MaxVersion /\ Largest(S) >= n /\ \A t \in f : t[1] = s => Largest(S) >= t[2]
  BY <1>1, <1>2, <1>3, <1>4, <1>5
<1> QED
  BY <1>6 DEF S, TellOf

-----------------------------------------------------------------------------
\* SessionInv, step by step.  The service writes, and publishes.
LEMMA WriteKeepsSessions ==
  ASSUME SessionInv, ServiceWrite, UNCHANGED <<lost, sessionVars>>
  PROVE  SessionInv'
<1>1. WriteOK /\ UNCHANGED hubVars
  BY WritesOK DEF SessionInv
<1>2. HubOK' /\ BusOK' /\ SessionOK'
  BY <1>1 DEF SessionInv, HubOK, BusOK, SessionOK, hubVars, sessionVars
<1>3. DispatchOK'
  BY <1>1 DEF SessionInv, HubOK, WriteOK, DispatchOK, hubVars, sessionVars
<1>4. HoldersOK'
  BY <1>1 DEF SessionInv, WriteOK, HoldersOK, hubVars, sessionVars
<1> QED
  BY <1>1, <1>2, <1>3, <1>4 DEF SessionInv, WriteOK

LEMMA PublishKeepsSessions ==
  ASSUME SessionInv, NEW e \in outbox, PublishOne(e), UNCHANGED <<lost, sessionVars>>
  PROVE  SessionInv'
<1>1. /\ UNCHANGED <<content, gray, registry, woken, event, targets, delivered, lost>>
      /\ ServiceOK' /\ HubOK' /\ Coming' \subseteq Coming
  BY PublishEffect DEF SessionInv
<1>2. EventsOK' /\ \A x : EventOK(x)' = EventOK(x)
  <2>1. \A x : EventOK(x)' = EventOK(x)
    BY <1>1 DEF EventOK, Created
  <2> QED
    BY <1>1, <2>1 DEF SessionInv, EventsOK
<1>3. Len(bus') <= BusCap
  <2>1. CASE Len(bus) < BusCap /\ bus' = Append(bus, e)
    <3>1. Len(bus') = Len(bus) + 1 /\ Len(bus) \in Nat /\ BusCap \in Nat
      BY <2>1, HubAssumption DEF SessionInv, HubOK
    <3> QED
      BY <2>1, <3>1
  <2> QED
    BY <2>1 DEF PublishOne, Publish, SessionInv, BusOK
<1>4. BusOK' /\ SessionOK'
  BY <1>1, <1>3 DEF SessionInv, BusOK, SessionOK, sessionVars
<1>5. DispatchOK' /\ HoldersOK'
  BY <1>1, <1>2 DEF SessionInv, DispatchOK, HoldersOK, Created, sessionVars
<1> QED
  BY <1>1, <1>2, <1>4, <1>5 DEF SessionInv

\* The dispatcher.
LEMMA TakeTargetsEffect ==
  ASSUME SessionInv, TakeTargets
  PROVE  /\ targets = {} /\ HubOK' /\ bus # <<>> /\ bus' = Tail(bus)
         /\ UNCHANGED <<lost, serviceVars, registry, woken, delivered>>
         /\ UNCHANGED <<handler, first, frames, socket, reader, writer, marking>>
         /\ UNCHANGED <<replaced, holders, told>>
         /\ dropped \subseteq dropped' /\ dropped' \in SUBSET Conns
         /\ \E e \in Events :
              /\ e = Head(bus) /\ Coming = Coming' \cup {e}
              /\ \A c \in targets' : Matches(e, Client[c[1]])
              /\ event' = IF targets' = {} THEN None ELSE e
              /\ \A c \in Registered : socket[c] = "open" /\ Lets(e, c[1], gray.selected)
                   => c \in targets' \cup dropped'
              /\ \A c \in Registered : e.type = "gray_rollback" /\ Matches(e, Client[c[1]])
                                          /\ DeliveredTo(e.rel, Client[c[1]].key)
                   => c \in targets'
<1>1. PICK unread \in SUBSET Registered :
        /\ TakeEvent(gray.selected, unread)
        /\ dropped' = dropped \cup {c \in Overlooked(Head(bus), gray.selected, unread) :
                                     socket[c] = "open"}
  BY DEF TakeTargets
<1>2. /\ UNCHANGED <<lost, serviceVars>>
      /\ UNCHANGED <<handler, first, frames, socket, reader, writer, marking>>
      /\ UNCHANGED <<replaced, holders, told>>
  BY DEF TakeTargets
<1>3. HubOK /\ lost' \in BOOLEAN /\ dropped \in SUBSET Conns
  BY <1>2 DEF SessionInv, HubOK, SessionOK
<1>4. /\ targets = {} /\ HubOK' /\ bus # <<>> /\ bus' = Tail(bus)
      /\ UNCHANGED <<registry, woken, delivered>>
  BY <1>1, <1>2, <1>3, TakeEffect
<1>5. PICK e \in Events :
        /\ e = Head(bus) /\ Coming = Coming' \cup {e}
        /\ targets' = {c \in Registered : Accepts(e, c[1], gray.selected, c \notin unread)}
        /\ event' = IF targets' = {} THEN None ELSE e
        /\ \A c \in Registered : Lets(e, c[1], gray.selected)
             => c \in targets' \cup Overlooked(Head(bus), gray.selected, unread)
  BY <1>1, <1>2, <1>3, TakeEffect
<1>6. dropped' \in SUBSET Conns
  BY <1>1, <1>3 DEF Overlooked, Registered
<1>7. \A c \in targets' : Matches(e, Client[c[1]])
  BY <1>5 DEF Accepts
<1>8. \A c \in Registered : socket[c] = "open" /\ Lets(e, c[1], gray.selected)
        => c \in targets' \cup dropped'
  BY <1>1, <1>5
<1>9. \A c \in Registered : e.type = "gray_rollback" /\ Matches(e, Client[c[1]])
                                /\ DeliveredTo(e.rel, Client[c[1]].key)
        => c \in targets'
  BY <1>5 DEF Accepts
<1> QED
  BY <1>1, <1>2, <1>4, <1>5, <1>6, <1>7, <1>8, <1>9

LEMMA TakeKeepsSessions ==
  ASSUME SessionInv, TakeTargets
  PROVE  SessionInv'
<1>1. /\ targets = {} /\ HubOK' /\ bus # <<>> /\ bus' = Tail(bus)
      /\ UNCHANGED <<lost, serviceVars, registry, woken, delivered>>
      /\ UNCHANGED <<handler, first, frames, socket, reader, writer, marking>>
      /\ UNCHANGED <<replaced, holders, told>>
      /\ dropped' \in SUBSET Conns
  BY TakeTargetsEffect
<1>2. PICK e \in Events :
        /\ Coming = Coming' \cup {e}
        /\ \A c \in targets' : Matches(e, Client[c[1]])
        /\ event' = IF targets' = {} THEN None ELSE e
  BY TakeTargetsEffect
<1>3. ServiceOK' /\ EventsOK' /\ EventOK(e)'
  BY <1>1, <1>2, ServiceKept DEF SessionInv, EventsOK
<1>4. BusOK'
  <2>1. Len(bus') = Len(bus) - 1 /\ Len(bus) \in Nat /\ BusCap \in Nat
    BY <1>1, TailElements, HubAssumption DEF SessionInv, HubOK
  <2> QED
    BY <1>1, <2>1 DEF SessionInv, BusOK
<1>5. marking = None
  BY <1>1 DEF SessionInv, SessionOK
<1>6. SessionOK'
  BY <1>1, <1>5 DEF SessionInv, SessionOK
<1>7. DispatchOK'
  <2>1. \A c \in targets' : event' = e /\ Matches(e, Client[c[1]])
    BY <1>2
  <2> QED
    BY <1>1, <1>2, <1>3, <1>5, <2>1 DEF DispatchOK
<1>8. HoldersOK'
  BY <1>1 DEF SessionInv, HoldersOK, Created, serviceVars
<1> QED
  BY <1>1, <1>3, <1>4, <1>6, <1>7, <1>8 DEF SessionInv

LEMMA MarkKeepsSessions ==
  ASSUME SessionInv, NEW c \in Conns, MarkTarget(c)
  PROVE  SessionInv'
<1>1. /\ event # None /\ Marks(event) /\ marking = None /\ c \in targets
      /\ delivered' = delivered \cup {<<event.rel, Client[c[1]].key>>} /\ marking' = c
      /\ UNCHANGED <<bus, lost, registry, woken, event, targets, serviceVars>>
      /\ UNCHANGED <<handler, first, frames, socket, reader, writer>>
      /\ UNCHANGED <<dropped, replaced, holders, told>>
  BY DEF MarkTarget, Mark
<1>2. event \in Events /\ EventOK(event) /\ Matches(event, Client[c[1]])
  BY <1>1 DEF SessionInv, HubOK, DispatchOK
<1>3. event.rel = 1
  BY <1>1, <1>2, GrayEventMatches
<1>4. ServiceOK' /\ HubOK' /\ EventsOK' /\ EventOK(event)' /\ (Created' <=> Created)
  <2>1. Coming' = Coming /\ HubOK' /\ (Created' <=> Created)
    BY <1>1 DEF SessionInv, HubOK, Coming, Created, serviceVars
  <2>2. PICK x : x = event
    OBVIOUS
  <2>3. ServiceOK' /\ EventsOK' /\ EventOK(x)'
    BY <1>1, <1>2, <2>1, <2>2, ServiceKept DEF SessionInv
  <2> QED
    BY <1>1, <2>1, <2>2, <2>3 DEF EventOK
<1>5. BusOK' /\ SessionOK'
  BY <1>1, <1>3, ConnKeys DEF SessionInv, BusOK, SessionOK
<1>6. DispatchOK' /\ HoldersOK'
  BY <1>1, <1>3, <1>4 DEF SessionInv, DispatchOK, HoldersOK, serviceVars
<1> QED
  BY <1>4, <1>5, <1>6 DEF SessionInv

\* A frame that is queued, or refused.
LEMMA EnqueueEffect ==
  ASSUME SessionOK, NEW c \in Conns, NEW f \in Frame, Enqueue(c, f)
  PROVE  /\ frames' \in [Conns -> Seq(Frame)] /\ \A d \in Conns : Len(frames'[d]) <= QueueCap
         /\ dropped' \in SUBSET Conns /\ dropped \subseteq dropped'
         /\ \A d \in Conns : d # c => frames'[d] = frames[d]
         /\ socket[c] = "open" /\ c \notin dropped'
              => Accepting(c) /\ Queued(c)' = Queued(c) \cup {f}
<1>1. frames[c] \in Seq(Frame) /\ Len(frames[c]) <= QueueCap /\ QueueCap \in Nat
  BY SessionAssumption DEF SessionOK
<1>2. CASE Accepting(c)
  <2>1. /\ frames' = [frames EXCEPT ![c] = Append(@, f)] /\ UNCHANGED dropped
        /\ Len(frames[c]) < QueueCap
    BY <1>2 DEF Enqueue, Accepting
  <2>2. frames'[c] = Append(frames[c], f) /\ \A d \in Conns : d # c => frames'[d] = frames[d]
    BY <2>1 DEF SessionOK
  <2>3. Append(frames[c], f) \in Seq(Frame) /\ Len(Append(frames[c], f)) = Len(frames[c]) + 1
    BY <1>1
  <2>4. Len(frames'[c]) <= QueueCap
    BY <1>1, <2>1, <2>2, <2>3
  <2>5. Queued(c)' = Queued(c) \cup {f}
    BY <1>1, <2>2, AppendElements DEF Queued
  <2> QED
    BY <1>2, <2>1, <2>2, <2>3, <2>4, <2>5 DEF SessionOK
<1>3. CASE ~Accepting(c)
  BY <1>3 DEF Enqueue, SessionOK
<1> QED
  BY <1>2, <1>3

LEMMA FramesTyped ==
  /\ SessionInv => \A p \in Clients : SnapshotFrame(p) \in Frame
  /\ \A e \in Events : EventOK(e) => EventFrame(e) \in Frame
<1>1. ASSUME SessionInv, NEW p \in Clients PROVE SnapshotFrame(p) \in Frame
  <2>1. \A s \in Contributes(p) : s \in Slots /\ ServedVersion(p, s) \in 0 .. MaxVersion
    BY <1>1, ServedBounded DEF Contributes, SessionInv
  <2> QED
    BY <2>1 DEF SnapshotFrame, Frame
<1>2. ASSUME NEW e \in Events, EventOK(e) PROVE EventFrame(e) \in Frame
  <2>1. e.slot \in Slots /\ e.version \in 0 .. MaxVersion
    BY <1>2, EventsAssumption DEF Events, EventOK
  <2> QED
    BY <2>1 DEF EventFrame, Frame
<1> QED
  BY <1>1, <1>2

LEMMA QueueEventKeepsSessions ==
  ASSUME SessionInv, NEW c \in Conns, QueueEvent(c)
  PROVE  SessionInv'
<1>1. /\ event # None /\ c \in targets /\ (Marks(event) => marking = c)
      /\ Enqueue(c, EventFrame(event))
      /\ holders' = IF Marks(event) /\ Accepting(c) THEN holders \cup {c} ELSE holders
      /\ targets' = targets \ {c} /\ event' = IF targets = {c} THEN None ELSE event
      /\ marking' = None
      /\ UNCHANGED <<bus, lost, registry, woken, delivered, serviceVars>>
      /\ UNCHANGED <<handler, first, socket, reader, writer, replaced, told>>
  BY DEF QueueEvent
<1>2. event \in Events /\ EventOK(event) /\ Matches(event, Client[c[1]])
  BY <1>1 DEF SessionInv, HubOK, DispatchOK
<1>3. HubOK'
  BY <1>1, DeliveredEffect DEF SessionInv
<1>4. /\ ServiceOK' /\ EventsOK' /\ BusOK'
      /\ \A e : EventOK(e) => EventOK(e)'
  <2>1. Coming' = Coming /\ BusOK'
    BY <1>1 DEF SessionInv, BusOK, Coming, serviceVars
  <2> QED
    BY <1>1, <2>1, ServiceKept DEF SessionInv
<1>5. SessionOK'
  <2>1. /\ frames' \in [Conns -> Seq(Frame)] /\ \A d \in Conns : Len(frames'[d]) <= QueueCap
        /\ dropped' \in SUBSET Conns
    BY <1>1, <1>2, EnqueueEffect, FramesTyped DEF SessionInv
  <2> QED
    BY <1>1, <2>1 DEF SessionInv, SessionOK
<1>6. DispatchOK'
  <2>1. event' \in {event, None} /\ (targets' # {} => event' = event)
    BY <1>1
  <2>2. PICK x : x = event'
    OBVIOUS
  <2>3. x # None => EventOK(x)'
    BY <1>4, <2>1, <2>2 DEF SessionInv, DispatchOK
  <2>4. event' # None => EventOK(event)'
    BY <2>2, <2>3 DEF EventOK
  <2> QED
    BY <1>1, <2>1, <2>4 DEF SessionInv, DispatchOK
<1>7. HoldersOK'
  <2>1. Marks(event) => /\ Created
                        /\ SlotMatches(gray.slot, Client[c[1]])
                        /\ <<1, Client[c[1]].key>> \in delivered
    BY <1>1, <1>2, GrayEventMatches, ConnKeys DEF SessionInv, DispatchOK
  <2> QED
    BY <1>1, <2>1 DEF SessionInv, HoldersOK, Created, serviceVars
<1> QED
  BY <1>3, <1>4, <1>5, <1>6, <1>7 DEF SessionInv

\* The handler, the pumps and the peer: they leave events, releases and targets
\* alone, and give nobody a gray version.
LEMMA OthersKeepSessions ==
  ASSUME SessionInv, HubOK', BusOK', SessionOK', holders' \subseteq holders,
         UNCHANGED <<bus, event, targets, delivered, marking, serviceVars>>
  PROVE  SessionInv'
<1>1. ServiceOK' /\ EventsOK'
  <2>1. Coming' = Coming
    BY DEF Coming, serviceVars
  <2> QED
    BY <2>1, ServiceKept DEF SessionInv
<1>2. UNCHANGED <<content, gray>>
  BY DEF serviceVars
<1>3. DispatchOK' /\ HoldersOK'
  BY <1>2 DEF SessionInv, DispatchOK, EventOK, HoldersOK, Created
<1> QED
  BY <1>1, <1>3 DEF SessionInv

LEMMA HandlerKeepsSessions ==
  ASSUME SessionInv, NEW c \in Conns, HandlerStep(c)
  PROVE  SessionInv'
<1>1. /\ UNCHANGED <<hubVars, serviceVars, socket, reader, writer, marking, replaced, holders, told>>
  BY DEF HandlerStep, TakeSnapshot, QueueSnapshot
<1>2. HubOK' /\ BusOK'
  BY <1>1 DEF SessionInv, HubOK, BusOK, hubVars
<1>3. CASE TakeSnapshot(c)
  <2>1. SnapshotFrame(c[1]) \in Frame /\ NoFrame \in Frame
    BY FramesTyped, ConnKeys DEF NoFrame, Frame
  <2>2. SessionOK'
    BY <1>1, <1>3, <2>1 DEF SessionInv, SessionOK, TakeSnapshot, hubVars
  <2> QED
    BY <1>1, <1>2, <2>2, OthersKeepSessions DEF hubVars
<1>4. CASE QueueSnapshot(c)
  <2>1. /\ frames' \in [Conns -> Seq(Frame)] /\ \A d \in Conns : Len(frames'[d]) <= QueueCap
        /\ dropped' \in SUBSET Conns
    <3>1. first[c] \in Frame
      BY DEF SessionInv, SessionOK
    <3> QED
      BY <1>4, <3>1, EnqueueEffect DEF SessionInv, QueueSnapshot
  <2>2. NoFrame \in Frame
    BY DEF NoFrame, Frame
  <2>3. SessionOK'
    BY <1>1, <1>4, <2>1, <2>2 DEF SessionInv, SessionOK, QueueSnapshot, hubVars
  <2> QED
    BY <1>1, <1>2, <2>3, OthersKeepSessions DEF hubVars
<1> QED
  BY <1>3, <1>4 DEF HandlerStep

LEMMA CloseKeepsSessions ==
  ASSUME SessionInv, NEW c \in Conns, CloseSocket(c),
         writer' = writer \/ writer' = [writer EXCEPT ![c] = "ended"]
  PROVE  SessionInv'
<1>1. HubOK' /\ BusOK' /\ UNCHANGED <<hubVars, serviceVars, handler, reader, marking>>
  BY DEF SessionInv, HubOK, BusOK, CloseSocket, hubVars
<1>2. SessionOK'
  <2>1. <<>> \in Seq(Frame) /\ Len(<<>>) = 0 /\ NoFrame \in Frame
    BY DEF NoFrame, Frame
  <2>2. [s \in Slots |-> 0] \in [Slots -> 0 .. MaxVersion] /\ QueueCap \in Nat
    BY EventsAssumption, SessionAssumption
  <2>3. /\ frames' \in [Conns -> Seq(Frame)] /\ first' \in [Conns -> Frame]
        /\ \A d \in Conns : Len(frames'[d]) <= QueueCap
        /\ \A d \in Conns : handler[d] = "snapshot" \/ first'[d] = NoFrame
        /\ told' \in [Conns -> [Slots -> 0 .. MaxVersion]]
    BY <2>1, <2>2 DEF SessionInv, SessionOK, CloseSocket
  <2>4. /\ socket' \in [Conns -> {"open", "closed"}] /\ writer' \in [Conns -> {"run", "ended"}]
        /\ \A d \in Conns : socket'[d] = "open" => writer'[d] = "run"
    BY DEF SessionInv, SessionOK, CloseSocket
  <2> QED
    BY <1>1, <2>3, <2>4 DEF SessionInv, SessionOK, CloseSocket, hubVars
<1> QED
  BY <1>1, <1>2, OthersKeepSessions DEF CloseSocket, hubVars

LEMMA WriteFrameKeepsSessions ==
  ASSUME SessionInv, NEW c \in Conns, WriteFrame(c)
  PROVE  SessionInv'
<1>1. /\ frames' = [frames EXCEPT ![c] = Tail(@)] /\ frames[c] # <<>>
      /\ told' = [told EXCEPT ![c] = [s \in Slots |->
                    TellOf(@[s], Head(frames[c]), s)]]
      /\ UNCHANGED <<hubVars, serviceVars, handler, first, socket, reader, writer>>
      /\ UNCHANGED <<marking, dropped, replaced, holders>>
  BY DEF WriteFrame, TellOf
<1>2. frames[c] \in Seq(Frame) /\ told[c] \in [Slots -> 0 .. MaxVersion]
  BY DEF SessionInv, SessionOK
<1>3. /\ Tail(frames[c]) \in Seq(Frame) /\ Len(Tail(frames[c])) <= QueueCap
      /\ Head(frames[c]) \in Frame
  <2>1. Len(Tail(frames[c])) = Len(frames[c]) - 1 /\ Len(frames[c]) \in Nat
    BY <1>1, <1>2
  <2> QED
    BY <1>1, <1>2, <2>1, TailElements, SessionAssumption DEF SessionInv, SessionOK
<1>4. \A s \in Slots : TellOf(told[c][s], Head(frames[c]), s) \in 0 .. MaxVersion
  <2> SUFFICES ASSUME NEW s \in Slots
               PROVE  TellOf(told[c][s], Head(frames[c]), s) \in 0 .. MaxVersion
    OBVIOUS
  <2>1. told[c][s] \in 0 .. MaxVersion
    BY <1>2
  <2> QED
    BY <1>3, <2>1, TellEffect
<1>5. told' \in [Conns -> [Slots -> 0 .. MaxVersion]]
  BY <1>1, <1>4 DEF SessionInv, SessionOK
<1>6. HubOK' /\ BusOK' /\ SessionOK'
  BY <1>1, <1>3, <1>5 DEF SessionInv, HubOK, BusOK, SessionOK, hubVars
<1> QED
  BY <1>1, <1>6, OthersKeepSessions DEF hubVars

LEMMA ReaderKeepsSessions ==
  ASSUME SessionInv, NEW c \in Conns, ReaderEnds(c)
  PROVE  SessionInv'
<1>1. /\ HubOK' /\ UNCHANGED <<bus, lost, event, targets, delivered>>
      /\ woken' \subseteq woken /\ reader' = [reader EXCEPT ![c] = "ended"]
      /\ UNCHANGED <<serviceVars, handler, first, frames, socket, writer>>
      /\ UNCHANGED <<marking, dropped, replaced, holders, told>>
  BY UnregisterEffect DEF SessionInv, ReaderEnds, Unregister
<1>2. BusOK' /\ SessionOK'
  BY <1>1 DEF SessionInv, BusOK, SessionOK
<1> QED
  BY <1>1, <1>2, OthersKeepSessions

LEMMA OpenKeepsSessions ==
  ASSUME SessionInv, NEW c \in Conns, Open(c[1], c)
  PROVE  SessionInv'
<1>1. /\ HubOK' /\ UNCHANGED <<bus, lost, event, targets, delivered>>
      /\ woken' \subseteq woken
      /\ UNCHANGED <<serviceVars, first, frames, marking, dropped, holders, told>>
      /\ replaced' \subseteq replaced \cup Registered
  BY RegisterEffect DEF SessionInv, Open, Register
<1>2. BusOK'
  BY <1>1 DEF SessionInv, BusOK
<1>3. SessionOK'
  <2>1. /\ handler' = [handler EXCEPT ![c] = "registered"] /\ handler[c] = "none"
        /\ socket'  = [socket EXCEPT ![c] = "open"]
        /\ reader'  = [reader EXCEPT ![c] = "run"]
        /\ writer'  = [writer EXCEPT ![c] = "run"]
    BY DEF Open, Unused
  <2>2. replaced' \in SUBSET Conns
    BY <1>1 DEF SessionInv, SessionOK, Registered
  <2> QED
    BY <1>1, <2>1, <2>2 DEF SessionInv, SessionOK
<1> QED
  BY <1>1, <1>2, <1>3, OthersKeepSessions

LEMMA SessionInitInv == SessionInit => SessionInv
<1> SUFFICES ASSUME SessionInit PROVE SessionInv
  OBVIOUS
<1>1. ServiceOK /\ HubOK /\ Coming = {} /\ ~lost
  BY ServiceHubInit DEF SessionInit
<1>2. bus = <<>> /\ woken = {} /\ targets = {} /\ event = None /\ delivered = {}
  BY DEF SessionInit, HubInit
<1>3. BusOK
  BY <1>1, <1>2, HubAssumption DEF BusOK
<1>4. SessionOK
  <2>1. <<>> \in Seq(Frame) /\ Len(<<>>) = 0 /\ NoFrame \in Frame
    BY DEF NoFrame, Frame
  <2>2. [s \in Slots |-> 0] \in [Slots -> 0 .. MaxVersion] /\ QueueCap \in Nat
    BY EventsAssumption, SessionAssumption
  <2> QED
    BY <2>1, <2>2 DEF SessionInit, SessionOK
<1>5. EventsOK /\ DispatchOK /\ HoldersOK
  BY <1>1, <1>2 DEF EventsOK, DispatchOK, HoldersOK, SessionInit
<1> QED
  BY <1>1, <1>3, <1>4, <1>5 DEF SessionInv

LEMMA SessionStepInv == SessionInv /\ [SessionNext]_wsVars => SessionInv'
<1> SUFFICES ASSUME SessionInv, [SessionNext]_wsVars PROVE SessionInv'
  OBVIOUS
<1>1. CASE ServiceStep /\ UNCHANGED <<lost, sessionVars>>
  <2>1. ServiceWrite \/ \E e \in outbox : PublishOne(e)
    BY <1>1 DEF ServiceStep, ServiceWrite
  <2> QED
    BY <1>1, <2>1, WriteKeepsSessions, PublishKeepsSessions
<1>2. CASE DispatcherStep
  BY <1>2, TakeKeepsSessions, MarkKeepsSessions, QueueEventKeepsSessions DEF DispatcherStep
<1>3. ASSUME NEW c \in Conns, HandlerStep(c) PROVE SessionInv'
  BY <1>3, HandlerKeepsSessions
<1>4. ASSUME NEW c \in Conns, WriterStep(c) PROVE SessionInv'
  BY <1>4, WriteFrameKeepsSessions, CloseKeepsSessions DEF WriterStep, WriterEnds
<1>5. ASSUME NEW c \in Conns, PeerStep(c) PROVE SessionInv'
  BY <1>5, OpenKeepsSessions, CloseKeepsSessions DEF PeerStep, PeerCloses
<1>6. ASSUME NEW c \in Conns, ReaderEnds(c) PROVE SessionInv'
  BY <1>6, ReaderKeepsSessions
<1>7. CASE UNCHANGED wsVars
  <2>1. UNCHANGED hubVars /\ UNCHANGED serviceVars /\ UNCHANGED sessionVars
    BY <1>7 DEF wsVars
  <2>2. HubOK' /\ BusOK' /\ SessionOK'
    BY <2>1 DEF SessionInv, HubOK, BusOK, SessionOK, hubVars, sessionVars
  <2> QED
    BY <2>1, <2>2, OthersKeepSessions DEF hubVars, sessionVars
<1> QED
  BY <1>1, <1>2, <1>3, <1>4, <1>5, <1>6, <1>7 DEF SessionNext

\* The types, the order of marking and queueing, and who holds a gray version.
THEOREM SessionInvariant == SessionSpec => []SessionInv
BY SessionInitInv, SessionStepInv, PTL DEF SessionSpec

\* The types of sessions; the dispatcher marks only a target of its event.
THEOREM SessionTypeCorrect == SessionSpec => []TypeOK
<1>1. SessionInv => TypeOK
  BY DEF SessionInv, ServiceOK, CallsOK, HubOK, BusOK, SessionOK, Gray, TypeOK, HubTypeOK, ServiceTypeOK
<1> QED
  BY <1>1, SessionInvariant, PTL

-----------------------------------------------------------------------------
\* What sessions are pushed.  Clients may share a key: the session of one then
\* takes the place of another's in the registry.

\* Slot s is that of a withdrawn release.
Recalled(s) == gray.withdrawn /\ gray.slot = s

\* While a release opens, its version may be live and announced to nobody yet.
Owed(p, s) ==
  IF gray.status = "opening" /\ gray.slot = s /\ Version(s) = gray.prev + 1
    THEN gray.prev ELSE Due(p, s)

\* Frame f tells version n of slot s, or a later one.
Tells(f, s, n) == \E t \in f : t[1] = s /\ t[2] >= n

OnItsWay(p, s, n) ==
  \E e \in Coming : e.slot = s /\ e.version >= n /\ Lets(e, p, gray.selected)

\* Version n of slot s, or a later one, has reached c's peer, or will.
Covers(c, s, n) ==
  \/ told[c][s] >= n
  \/ Tells(first[c], s, n)
  \/ \E f \in Queued(c) : Tells(f, s, n)
  \/ c \in targets /\ event.slot = s /\ event.version >= n
  \/ OnItsWay(c[1], s, n)

Synced(c) == \A s \in Contributes(c[1]) : Recalled(s) \/ Covers(c, s, Owed(c[1], s))

\* Session c was refused nothing, and is in no other's shadow.
Unharmed(c) == Serving(c) /\ c \notin dropped /\ c \notin replaced

SyncOK(c) == Unharmed(c) /\ handler[c] # "registered" => Synced(c)

RegisteredOK(c) == Serving(c) /\ c \notin replaced => registry[Client[c[1]].key] = c

InStep == SessionInv /\ \A c \in Conns : RegisteredOK(c) /\ SyncOK(c)

\* A client is owed what it is served at most.
LEMMA OwedServed ==
  ASSUME ServiceOK, NEW p \in Clients, NEW s \in Slots
  PROVE  /\ Owed(p, s) \in Nat /\ Owed(p, s) <= ServedVersion(p, s)
         /\ ServedVersion(p, s) <= Version(s) /\ Version(s) \in Nat
<1>1. MaxVersion \in Nat /\ ServedVersion(p, s) \in 0 .. MaxVersion /\ Version(s) \in 0 .. MaxVersion
  BY ServedBounded, EventsAssumption
<1>2. gray \in Gray /\ gray.prev \in Nat
  BY DEF ServiceOK, Gray
<1>3. gray.status # "none" /\ gray.slot = s => gray.prev < Version(s)
  BY DEF ServiceOK
<1> QED
  BY <1>1, <1>2, <1>3 DEF Owed, Due, ServedVersion, ShouldDeliver

\* A write that does not withdraw the release owes nobody more, or what it owes
\* is announced to them.
WriteOwes(p, s) ==
  \/ Recalled(s)'
  \/ Owed(p, s)' <= Owed(p, s)
  \/ OnItsWay(p, s, Owed(p, s))'

LEMMA CommitOwes ==
  ASSUME ServiceOK, HubOK, NEW x \in Slots, Commit(x),
         NEW p \in Clients, NEW s \in Contributes(p)
  PROVE  WriteOwes(p, s)
<1>1. s \in Slots /\ gray' = gray /\ Version(x)' = Version(x) + 1 /\ Version(x) \in Nat
      /\ (s # x => Version(s)' = Version(s))
      /\ Announces("change", x, Version(x) + 1, 0)
  BY CommitEffect DEF Contributes
<1>2. CASE s # x
  <2>1. Owed(p, s)' = Owed(p, s)
    BY <1>1, <1>2 DEF Owed, Due, ServedVersion
  <2> QED
    BY <2>1, <1>1, OwedServed DEF WriteOwes
<1>3. CASE s = x
  <2>1. PICK e \in Coming' : Says(e, "change", s, Version(s) + 1, 0) /\ Matches(e, Client[p])
    BY <1>1, <1>3 DEF Announces
  <2>2. Owed(p, s)' <= Version(s) + 1
    <3>1. gray.prev \in Nat /\ (gray.status # "none" /\ gray.slot = s => gray.prev < Version(s))
      BY DEF ServiceOK, Gray
    <3> QED
      BY <1>1, <1>3, <3>1 DEF Owed, Due, ServedVersion
  <2>3. e.slot = s /\ e.version >= Owed(p, s)' /\ Lets(e, p, gray.selected)'
    BY <1>1, <1>3, <2>1, <2>2 DEF Says, Lets
  <2> QED
    BY <2>3 DEF WriteOwes, OnItsWay, Lets
<1> QED
  BY <1>2, <1>3

LEMMA CommitForGrayOwes ==
  ASSUME ServiceOK, HubOK, NEW x \in Slots, NEW S \in SUBSET Keys, CommitForGray(x, S),
         NEW p \in Clients, NEW s \in Contributes(p)
  PROVE  WriteOwes(p, s)
<1>1. s \in Slots /\ gray.status = "none" /\ Version(x)' = Version(x) + 1 /\ Version(x) \in Nat
      /\ (s # x => Version(s)' = Version(s))
      /\ gray'.status = "opening" /\ gray'.slot = x /\ gray'.prev = Version(x)
  BY CommitForGrayEffect DEF Contributes
<1>2. Version(s) \in Nat
  BY <1>1, OwedServed
<1>3. Owed(p, s)' = Owed(p, s)
  BY <1>1 DEF Owed, Due, ServedVersion
<1> QED
  BY <1>1, <1>3, OwedServed DEF WriteOwes

LEMMA StatusOwes ==
  ASSUME ServiceOK, HubOK, StatusWrite, NEW p \in Clients, NEW s \in Contributes(p)
  PROVE  WriteOwes(p, s)
<1>1. s \in Slots /\ Owed(p, s) \in Nat /\ Version(s) \in Nat
  BY OwedServed DEF Contributes
<1>2. PICK x \in Slots :
        /\ x = gray.slot /\ content' = content
        /\ gray.prev \in Nat /\ gray.prev + 1 \in Nat /\ gray.prev < Version(x)
        /\ gray'.slot = gray.slot /\ gray'.prev = gray.prev
        /\ gray'.selected = gray.selected /\ gray'.withdrawn = gray.withdrawn
        /\ \/ /\ gray.status = "opening" /\ gray'.status = "gray"
              /\ Announces("change", x, gray.prev + 1, 1)
           \/ /\ Created /\ gray'.status = "promoted"
              /\ Announces("promote", x, gray.prev + 1, 1)
           \/ gray.withdrawn
  BY StatusEffect
<1>3. Version(s)' = Version(s) /\ (x = s => gray.prev < Version(s))
  BY <1>2 DEF Version
<1>4. CASE s # x
  BY <1>1, <1>2, <1>3, <1>4 DEF Owed, Due, ServedVersion, WriteOwes
<1>5. CASE /\ s = x /\ gray.status = "opening" /\ gray'.status = "gray"
           /\ Announces("change", x, gray.prev + 1, 1)
  <2>1. CASE Client[p].key \in gray.selected /\ Version(s) = gray.prev + 1
    <3>1. PICK e \in Coming' : Says(e, "change", s, gray.prev + 1, 1) /\ Matches(e, Client[p])
      BY <1>5 DEF Announces
    <3>2. e.slot = s /\ e.version >= Owed(p, s)' /\ Lets(e, p, gray'.selected)
      BY <1>2, <1>3, <1>5, <2>1, <3>1
         DEF Says, Lets, Owed, Due, ServedVersion, ShouldDeliver
    <3> QED
      BY <3>2 DEF WriteOwes, OnItsWay, Lets
  <2>2. CASE ~(Client[p].key \in gray.selected /\ Version(s) = gray.prev + 1)
    BY <1>1, <1>2, <1>3, <1>5, <2>2 DEF Owed, Due, ServedVersion, ShouldDeliver, WriteOwes
  <2> QED
    BY <2>1, <2>2
<1>6. CASE /\ s = x /\ Created /\ gray'.status = "promoted"
           /\ Announces("promote", x, gray.prev + 1, 1)
  <2>1. CASE Client[p].key \notin gray.selected
    <3>1. PICK e \in Coming' : Says(e, "promote", s, gray.prev + 1, 1) /\ Matches(e, Client[p])
      BY <1>6 DEF Announces
    <3>2. e.slot = s /\ e.version >= Owed(p, s)' /\ Lets(e, p, gray'.selected)
      BY <1>2, <1>6, <2>1, <3>1 DEF Says, Lets, Owed, Due
    <3> QED
      BY <3>2 DEF WriteOwes, OnItsWay, Lets
  <2>2. CASE Client[p].key \in gray.selected
    BY <1>1, <1>2, <1>3, <1>6, <2>2
       DEF Owed, Due, ServedVersion, ShouldDeliver, WriteOwes, Created
  <2> QED
    BY <2>1, <2>2
<1>7. CASE s = x /\ gray.withdrawn
  BY <1>2, <1>7 DEF WriteOwes, Recalled
<1> QED
  BY <1>2, <1>4, <1>5, <1>6, <1>7

LEMMA WithdrawOwes ==
  ASSUME ServiceOK, HubOK, NEW o \in Operators, Withdraw(o),
         NEW p \in Clients, NEW s \in Contributes(p)
  PROVE  WriteOwes(p, s)
<1>1. s \in Slots /\ Owed(p, s) \in Nat
  BY OwedServed DEF Contributes
<1>2. PICK x \in Slots :
        /\ x = gray.slot /\ \A t \in Slots : t # x => Version(t)' = Version(t)
        /\ gray'.withdrawn /\ gray'.slot = gray.slot
  BY WithdrawEffect
<1>3. CASE s = x
  BY <1>2, <1>3 DEF WriteOwes, Recalled
<1>4. CASE s # x
  BY <1>1, <1>2, <1>4 DEF Owed, Due, ServedVersion, WriteOwes
<1> QED
  BY <1>3, <1>4

LEMMA WritesOwe ==
  ASSUME ServiceOK, HubOK, ServiceWrite, NEW p \in Clients, NEW s \in Contributes(p)
  PROVE  WriteOwes(p, s)
<1>1. ASSUME NEW o \in Operators, AskToPromote(o) \/ AskToRollBack(o) \/ GiveUp(o)
      PROVE  WriteOwes(p, s)
  <2>1. UNCHANGED <<content, gray>>
    BY <1>1, AskEffect
  <2>2. Owed(p, s)' = Owed(p, s) /\ Owed(p, s) \in Nat
    BY <2>1, OwedServed DEF Owed, Due, ServedVersion, ShouldDeliver, Version, Contributes
  <2> QED
    BY <2>2 DEF WriteOwes
<1> QED
  BY <1>1, CommitOwes, CommitForGrayOwes, StatusOwes, WithdrawOwes DEF ServiceWrite, StatusWrite

-----------------------------------------------------------------------------
\* Who stays in step.  Steps that change neither c's side nor the versions, and
\* deliver what they take off the bus:
Untouched(c) ==
  /\ UNCHANGED <<content, gray>>
  /\ Unharmed(c)' => Unharmed(c)
  /\ handler'[c] = handler[c]
  /\ told'[c] = told[c] /\ first'[c] = first[c] /\ frames'[c] = frames[c]
  /\ c \in targets => c \in targets' /\ event' = event

LEMMA UntouchedKept ==
  ASSUME NEW c \in Conns, SyncOK(c), Untouched(c),
         \A e \in Coming : Unharmed(c)' /\ Lets(e, c[1], gray.selected) =>
            e \in Coming' \/ (c \in targets' /\ event' = e)
  PROVE  SyncOK(c)'
<1> SUFFICES ASSUME Unharmed(c)', handler'[c] # "registered",
                    NEW s \in Contributes(c[1]), ~Recalled(s)'
             PROVE  Covers(c, s, Owed(c[1], s))'
  BY DEF SyncOK, Synced, Contributes
<1> DEFINE n == Owed(c[1], s)
<1>1. Owed(c[1], s)' = n
  BY DEF Untouched, Owed, Due, ServedVersion, ShouldDeliver, Version
<1>2. Covers(c, s, n)
  BY DEF SyncOK, Synced, Untouched, Recalled
<1> HIDE DEF n
<1>3. Queued(c)' = Queued(c)
  BY DEF Untouched, Queued
<1>4. CASE told[c][s] >= n \/ Tells(first[c], s, n) \/ \E f \in Queued(c) : Tells(f, s, n)
  BY <1>1, <1>3, <1>4 DEF Covers, Untouched, Tells
<1>5. CASE c \in targets /\ event.slot = s /\ event.version >= n
  BY <1>1, <1>5 DEF Covers, Untouched
<1>6. CASE OnItsWay(c[1], s, n)
  <2>1. PICK e \in Coming : e.slot = s /\ e.version >= n /\ Lets(e, c[1], gray.selected)
    BY <1>6 DEF OnItsWay
  <2>2. e \in Coming' \/ (c \in targets' /\ event' = e)
    BY <2>1
  <2>3. gray'.selected = gray.selected
    BY DEF Untouched
  <2> QED
    BY <1>1, <2>1, <2>2, <2>3 DEF Covers, OnItsWay, Lets
<1> QED
  BY <1>2, <1>4, <1>5, <1>6 DEF Covers

\* The versions that are told, queued or under way are numbers.
LEMMA ToldAreNumbers ==
  ASSUME SessionInv, NEW c \in Conns
  PROVE  /\ \A s \in Slots : told[c][s] \in Int
         /\ \A t \in first[c] : t[2] \in Int
         /\ \A f \in Queued(c) : \A t \in f : t[2] \in Int
         /\ \A e \in Coming : e.version \in Int
         /\ c \in targets => event.version \in Int
<1>1. /\ told[c] \in [Slots -> 0 .. MaxVersion] /\ first[c] \in Frame /\ frames[c] \in Seq(Frame)
      /\ MaxVersion \in Nat
  BY EventsAssumption DEF SessionInv, SessionOK
<1>2. \A f \in Frame : \A t \in f : t[2] \in Int
  BY <1>1 DEF Frame
<1>3. Queued(c) \subseteq Frame
  BY <1>1 DEF Queued
<1>4. \A e \in Events : e.version \in Int
  BY DEF Events
<1>5. c \in targets => event \in Events
  BY DEF SessionInv, HubOK
<1> QED
  BY <1>1, <1>2, <1>3, <1>4, <1>5, ComingAreEvents DEF SessionInv

LEMMA WriteKeepsStep ==
  ASSUME InStep, ServiceWrite, UNCHANGED <<lost, sessionVars>>, NEW c \in Conns
  PROVE  RegisteredOK(c)' /\ SyncOK(c)'
<1>1. UNCHANGED hubVars
  BY WritesOK DEF InStep, SessionInv
<1>2. RegisteredOK(c)'
  BY <1>1 DEF InStep, RegisteredOK, Serving, hubVars, sessionVars
<1>3. SyncOK(c)'
  <2> SUFFICES ASSUME Unharmed(c)', handler'[c] # "registered",
                      NEW s \in Contributes(c[1]), ~Recalled(s)'
               PROVE  Covers(c, s, Owed(c[1], s))'
    BY DEF SyncOK, Synced, Contributes
  <2>0. WriteOK
    BY WritesOK DEF InStep, SessionInv
  <2>1. /\ ~Recalled(s) /\ Coming \subseteq Coming'
        /\ \A e \in Coming, p \in Clients : Lets(e, p, gray.selected) => Lets(e, p, gray'.selected)
    BY <2>0 DEF WriteOK, InStep, SessionInv, ServiceOK, CallsOK, Recalled
  <2>2. c[1] \in Clients /\ s \in Slots
    BY ConnKeys DEF Contributes
  <2>3. /\ Covers(c, s, Owed(c[1], s)) /\ WriteOwes(c[1], s)
    BY <2>1, <2>2, WritesOwe DEF InStep, SessionInv, SyncOK, Synced, Unharmed, Serving, sessionVars
  <2>4. CASE OnItsWay(c[1], s, Owed(c[1], s))'
    BY <2>4 DEF Covers
  <2>5. CASE Owed(c[1], s)' <= Owed(c[1], s)
    <3> DEFINE n == Owed(c[1], s)
               m == Owed(c[1], s)'
    <3>1. n \in Nat
      BY <2>2, OwedServed DEF InStep, SessionInv
    <3>2. m \in Int
      <4>1. (content \in [Slots -> Seq(Nat)] /\ gray \in Gray)'
        BY WritesOK DEF InStep, SessionInv, WriteOK, ServiceOK
      <4>2. gray'.prev \in Int /\ Version(s)' \in Int
        BY <2>2, <4>1, EventsAssumption DEF Gray, Version
      <4> QED
        BY <4>2 DEF Owed, Due, ServedVersion
    <3>3. \A v \in Int : v >= n => v >= m
      BY <2>5, <3>1, <3>2
    <3> HIDE DEF n, m
    <3>4. told' = told /\ first' = first /\ targets' = targets /\ event' = event
          /\ Queued(c)' = Queued(c)
      BY <1>1 DEF sessionVars, hubVars, Queued
    <3>5. CASE told[c][s] >= n
      BY <2>2, <3>3, <3>4, <3>5, ToldAreNumbers DEF InStep, Covers, m
    <3>6. CASE Tells(first[c], s, n) \/ \E f \in Queued(c) : Tells(f, s, n)
      BY <3>3, <3>4, <3>6, ToldAreNumbers DEF InStep, Covers, Tells, m
    <3>7. CASE c \in targets /\ event.slot = s /\ event.version >= n
      BY <3>3, <3>4, <3>7, ToldAreNumbers DEF InStep, Covers, m
    <3>8. CASE OnItsWay(c[1], s, n)
      <4>1. PICK e \in Coming : e.slot = s /\ e.version >= n /\ Lets(e, c[1], gray.selected)
        BY <3>8 DEF OnItsWay
      <4>2. e \in Coming' /\ e.version >= m /\ Lets(e, c[1], gray'.selected)
        BY <2>1, <2>2, <3>3, <4>1, ToldAreNumbers DEF InStep
      <4> QED
        BY <4>1, <4>2 DEF Covers, OnItsWay, Lets, m
    <3> QED
      BY <2>3, <3>5, <3>6, <3>7, <3>8 DEF Covers, n
  <2> QED
    BY <2>3, <2>4, <2>5 DEF WriteOwes, Recalled
<1> QED
  BY <1>2, <1>3

LEMMA PublishKeepsStep ==
  ASSUME InStep, NEW e \in outbox, PublishOne(e), UNCHANGED <<lost, sessionVars>>, NEW c \in Conns
  PROVE  RegisteredOK(c)' /\ SyncOK(c)'
<1>1. /\ UNCHANGED <<content, gray, registry, woken, event, targets, delivered>> /\ Coming' = Coming
  BY PublishEffect DEF InStep, SessionInv, BusOK
<1>2. Untouched(c)
  BY <1>1 DEF Untouched, Unharmed, Serving, sessionVars
<1>3. RegisteredOK(c)'
  BY <1>1 DEF InStep, RegisteredOK, Serving, sessionVars
<1> QED
  BY <1>1, <1>2, <1>3, UntouchedKept DEF InStep

\* The event taken off the bus has every session that the gate lets it through
\* to as a target, for each is registered.
LEMMA TakeKeepsStep ==
  ASSUME InStep, TakeTargets, NEW c \in Conns
  PROVE  RegisteredOK(c)' /\ SyncOK(c)'
<1>1. /\ targets = {} /\ dropped \subseteq dropped'
      /\ UNCHANGED <<serviceVars, registry>>
      /\ UNCHANGED <<handler, first, frames, socket, reader, writer, replaced, told>>
  BY TakeTargetsEffect DEF InStep
<1>2. PICK e \in Events :
        /\ Coming = Coming' \cup {e}
        /\ event' = IF targets' = {} THEN None ELSE e
        /\ \A d \in Registered : socket[d] = "open" /\ Lets(e, d[1], gray.selected)
             => d \in targets' \cup dropped'
  BY TakeTargetsEffect DEF InStep
<1>3. Untouched(c)
  BY <1>1 DEF Untouched, Unharmed, Serving, serviceVars
<1>4. RegisteredOK(c)'
  BY <1>1 DEF InStep, RegisteredOK, Serving
<1>5. ASSUME Unharmed(c)', Lets(e, c[1], gray.selected) PROVE c \in targets' /\ event' = e
  <2>1. c \in Registered /\ socket[c] = "open" /\ c \notin dropped'
    BY <1>1, <1>5 DEF InStep, RegisteredOK, Registered, Unharmed, Serving
  <2> QED
    BY <1>2, <1>5, <2>1
<1>6. SyncOK(c)'
  BY <1>2, <1>3, <1>5, UntouchedKept DEF InStep
<1> QED
  BY <1>4, <1>6

\* A frame joins the queue of connection d: an event's, or the snapshot.
LEMMA QueueEventKeepsStep ==
  ASSUME InStep, NEW d \in Conns, QueueEvent(d), NEW c \in Conns
  PROVE  RegisteredOK(c)' /\ SyncOK(c)'
<1>1. /\ event # None /\ d \in targets /\ Enqueue(d, EventFrame(event))
      /\ targets' = targets \ {d} /\ event' = IF targets = {d} THEN None ELSE event
      /\ UNCHANGED <<bus, registry, content, gray, outbox>>
      /\ UNCHANGED <<handler, first, socket, reader, writer, replaced, told>>
  BY DEF QueueEvent, serviceVars
<1>2. EventFrame(event) \in Frame
  BY <1>1, FramesTyped DEF InStep, SessionInv, HubOK, DispatchOK
<1>3. /\ dropped \subseteq dropped' /\ (c # d => frames'[c] = frames[c])
      /\ (socket[d] = "open" /\ d \notin dropped' => Queued(d)' = Queued(d) \cup {EventFrame(event)})
  BY <1>1, <1>2, EnqueueEffect DEF InStep, SessionInv
<1>4. RegisteredOK(c)'
  BY <1>1 DEF InStep, RegisteredOK, Serving
<1>5. Coming' = Coming
  BY <1>1 DEF Coming
<1>6. CASE c # d
  <2>1. Untouched(c)
    BY <1>1, <1>3, <1>6 DEF Untouched, Unharmed, Serving
  <2> QED
    BY <1>4, <1>5, <2>1, UntouchedKept DEF InStep
<1>7. CASE c = d
  <2> SUFFICES ASSUME Unharmed(c)', handler'[c] # "registered",
                      NEW s \in Contributes(c[1]), ~Recalled(s)'
               PROVE  Covers(c, s, Owed(c[1], s))'
    BY <1>4 DEF SyncOK, Synced, Contributes
  <2> DEFINE n == Owed(c[1], s)
  <2>1. Owed(c[1], s)' = n
    BY <1>1 DEF Owed, Due, ServedVersion, ShouldDeliver, Version
  <2>2. Covers(c, s, n)
    BY <1>1, <1>3 DEF InStep, SyncOK, Synced, Unharmed, Serving, Recalled
  <2> HIDE DEF n
  <2>3. Queued(c)' = Queued(c) \cup {EventFrame(event)}
    BY <1>1, <1>3, <1>7 DEF Unharmed, Serving
  <2>4. event.slot = s /\ event.version >= n => Tells(EventFrame(event), s, n)
    BY DEF Tells, EventFrame
  <2>5. CASE told[c][s] >= n \/ Tells(first[c], s, n)
    BY <1>1, <2>1, <2>5 DEF Covers
  <2>6. CASE (\E f \in Queued(c) : Tells(f, s, n))
             \/ (c \in targets /\ event.slot = s /\ event.version >= n)
    BY <2>1, <2>3, <2>4, <2>6 DEF Covers
  <2>7. CASE OnItsWay(c[1], s, n)
    BY <1>1, <2>1, <1>5, <2>7 DEF Covers, OnItsWay, Lets
  <2> QED
    BY <2>2, <2>5, <2>6, <2>7 DEF Covers
<1> QED
  BY <1>4, <1>6, <1>7

\* MarkTarget records only.
LEMMA MarkKeepsStep ==
  ASSUME InStep, NEW d \in Conns, MarkTarget(d), NEW c \in Conns
  PROVE  RegisteredOK(c)' /\ SyncOK(c)'
<1>1. /\ UNCHANGED <<bus, registry, event, targets, content, gray, outbox>>
      /\ UNCHANGED <<handler, first, frames, socket, reader, writer, dropped, replaced, told>>
  BY DEF MarkTarget, serviceVars
<1>2. Untouched(c) /\ Coming' = Coming
  BY <1>1 DEF Untouched, Unharmed, Serving, Coming
<1>3. RegisteredOK(c)'
  BY <1>1 DEF InStep, RegisteredOK, Serving
<1> QED
  BY <1>2, <1>3, UntouchedKept DEF InStep

\* The snapshot tells what its client is owed.
LEMMA HandlerKeepsStep ==
  ASSUME InStep, NEW d \in Conns, HandlerStep(d), NEW c \in Conns
  PROVE  RegisteredOK(c)' /\ SyncOK(c)'
<1>1. UNCHANGED <<hubVars, serviceVars, socket, reader, writer, marking, replaced, holders, told>>
  BY DEF HandlerStep, TakeSnapshot, QueueSnapshot
<1>2. RegisteredOK(c)' /\ Coming' = Coming /\ UNCHANGED <<targets, event, content, gray>>
  BY <1>1 DEF InStep, RegisteredOK, Serving, Coming, hubVars, serviceVars
<1>3. first[d] \in Frame
  BY DEF InStep, SessionInv, SessionOK
<1>4. CASE TakeSnapshot(d)
  <2>1. CASE c # d
    <3>1. Untouched(c)
      BY <1>1, <1>2, <1>4, <2>1 DEF TakeSnapshot, Untouched, Unharmed, Serving, InStep, SessionInv, SessionOK
    <3> QED
      BY <1>2, <3>1, UntouchedKept DEF InStep
  <2>2. CASE c = d
    <3> SUFFICES ASSUME Unharmed(c)', handler'[c] # "registered", NEW s \in Contributes(c[1])
                 PROVE  Covers(c, s, Owed(c[1], s))'
      BY <1>2 DEF SyncOK, Synced, Contributes
    <3>0. socket[c] = "open" /\ c \notin dropped'
      BY <1>1 DEF Unharmed, Serving
    <3>1. first'[c] = SnapshotFrame(c[1])
      BY <1>4, <2>2, <3>0 DEF TakeSnapshot, InStep, SessionInv, SessionOK
    <3>2. Owed(c[1], s)' = Owed(c[1], s)
      BY <1>2 DEF Owed, Due, ServedVersion, ShouldDeliver, Version
    <3>3. Tells(SnapshotFrame(c[1]), s, Owed(c[1], s))
      <4>1. c[1] \in Clients /\ s \in Slots
        BY ConnKeys DEF Contributes
      <4>2. /\ Owed(c[1], s) \in Nat /\ Owed(c[1], s) <= ServedVersion(c[1], s)
            /\ ServedVersion(c[1], s) \in Nat
        BY <4>1, OwedServed, ServedBounded, EventsAssumption DEF InStep, SessionInv
      <4>3. <<s, ServedVersion(c[1], s)>> \in SnapshotFrame(c[1])
        BY DEF SnapshotFrame
      <4> QED
        BY <4>2, <4>3 DEF Tells
    <3> QED
      BY <3>1, <3>2, <3>3 DEF Covers, Tells
  <2> QED
    BY <1>2, <2>1, <2>2
<1>5. CASE QueueSnapshot(d)
  <2>1. /\ handler[d] = "snapshot" /\ Enqueue(d, first[d])
        /\ handler' = [handler EXCEPT ![d] = "none"] /\ first' = [first EXCEPT ![d] = NoFrame]
    BY <1>5 DEF QueueSnapshot
  <2>2. /\ dropped \subseteq dropped' /\ (c # d => frames'[c] = frames[c])
        /\ (socket[d] = "open" /\ d \notin dropped' => Queued(d)' = Queued(d) \cup {first[d]})
    BY <1>3, <2>1, EnqueueEffect DEF InStep, SessionInv
  <2>3. CASE c # d
    <3>1. Untouched(c)
      BY <1>1, <1>2, <2>1, <2>2, <2>3 DEF Untouched, Unharmed, Serving, InStep, SessionInv, SessionOK
    <3> QED
      BY <1>2, <3>1, UntouchedKept DEF InStep
  <2>4. CASE c = d
    <3> SUFFICES ASSUME Unharmed(c)', NEW s \in Contributes(c[1]), ~Recalled(s)'
                 PROVE  Covers(c, s, Owed(c[1], s))'
      BY <1>2 DEF SyncOK, Synced, Contributes
    <3> DEFINE n == Owed(c[1], s)
    <3>1. Owed(c[1], s)' = n
      BY <1>2 DEF Owed, Due, ServedVersion, ShouldDeliver, Version
    <3>2. Covers(c, s, n)
      BY <1>1, <1>2, <2>1, <2>2, <2>4 DEF InStep, SyncOK, Synced, Unharmed, Serving, Recalled
    <3> HIDE DEF n
    <3>3. Queued(c)' = Queued(c) \cup {first[c]}
      BY <1>1, <2>2, <2>4 DEF Unharmed, Serving
    <3>4. CASE told[c][s] >= n \/ (c \in targets /\ event.slot = s /\ event.version >= n)
      BY <1>1, <1>2, <3>1, <3>4 DEF Covers
    <3>5. CASE Tells(first[c], s, n) \/ \E f \in Queued(c) : Tells(f, s, n)
      BY <3>1, <3>3, <3>5 DEF Covers
    <3>6. CASE OnItsWay(c[1], s, n)
      BY <1>2, <3>1, <3>6 DEF Covers, OnItsWay, Lets
    <3> QED
      BY <3>2, <3>4, <3>5, <3>6 DEF Covers
  <2> QED
    BY <1>2, <2>3, <2>4
<1> QED
  BY <1>4, <1>5 DEF HandlerStep

\* What writePump takes off the queue its peer is told.
LEMMA WriteFrameKeepsStep ==
  ASSUME InStep, NEW d \in Conns, WriteFrame(d), NEW c \in Conns
  PROVE  RegisteredOK(c)' /\ SyncOK(c)'
<1>1. /\ frames' = [frames EXCEPT ![d] = Tail(@)] /\ frames[d] # <<>>
      /\ told' = [told EXCEPT ![d] = [s \in Slots |-> TellOf(@[s], Head(frames[d]), s)]]
      /\ UNCHANGED <<hubVars, serviceVars, handler, first, socket, reader, writer>>
      /\ UNCHANGED <<marking, dropped, replaced, holders>>
  BY DEF WriteFrame, TellOf
<1>2. RegisteredOK(c)' /\ Coming' = Coming /\ UNCHANGED <<targets, event, content, gray>>
  BY <1>1 DEF InStep, RegisteredOK, Serving, Coming, hubVars, serviceVars
<1>3. frames \in [Conns -> Seq(Frame)] /\ told \in [Conns -> [Slots -> 0 .. MaxVersion]]
  BY DEF InStep, SessionInv, SessionOK
<1>4. CASE c # d
  <2>1. Untouched(c)
    BY <1>1, <1>2, <1>3, <1>4 DEF Untouched, Unharmed, Serving
  <2> QED
    BY <1>2, <2>1, UntouchedKept DEF InStep
<1>5. CASE c = d
  <2> SUFFICES ASSUME Unharmed(c)', handler'[c] # "registered",
                      NEW s \in Contributes(c[1]), ~Recalled(s)'
               PROVE  Covers(c, s, Owed(c[1], s))'
    BY <1>2 DEF SyncOK, Synced, Contributes
  <2> DEFINE n == Owed(c[1], s)
             f == Head(frames[c])
  <2>1. Owed(c[1], s)' = n
    BY <1>2 DEF Owed, Due, ServedVersion, ShouldDeliver, Version
  <2>2. Covers(c, s, n)
    BY <1>1, <1>2 DEF InStep, SyncOK, Synced, Unharmed, Serving, Recalled
  <2>3. s \in Slots /\ n \in Int
    BY OwedServed, ConnKeys DEF InStep, SessionInv, Contributes
  <2> HIDE DEF n
  <2>4. frames[c] \in Seq(Frame) /\ frames[c] # <<>> /\ frames'[c] = Tail(frames[c])
    BY <1>1, <1>3, <1>5
  <2>5. f \in Frame /\ Queued(c) = {f} \cup Queued(c)'
    <3> DEFINE q == frames[c]
    <3>1. q \in Seq(Frame) /\ q # <<>>
      BY <2>4
    <3> HIDE DEF q
    <3>2. /\ Head(q) \in Frame
          /\ {q[i] : i \in 1 .. Len(q)} = {Head(q)} \cup {Tail(q)[i] : i \in 1 .. Len(Tail(q))}
      BY <3>1, TailElements
    <3> QED
      BY <2>4, <3>2 DEF Queued, q
  <2>6. told[c][s] \in 0 .. MaxVersion /\ told'[c][s] = TellOf(told[c][s], f, s)
    BY <1>1, <1>3, <1>5, <2>3
  <2>7. /\ told'[c][s] \in Int /\ told'[c][s] >= told[c][s] /\ told[c][s] \in Int
        /\ \A t \in f : t[1] = s => told'[c][s] >= t[2]
        /\ \A t \in f : t[2] \in Int
    <3>1. TellOf(told[c][s], f, s) \in 0 .. MaxVersion
      BY <2>5, <2>6, TellEffect
    <3>2. /\ TellOf(told[c][s], f, s) >= told[c][s]
          /\ \A t \in f : t[1] = s => TellOf(told[c][s], f, s) >= t[2]
      BY <2>5, <2>6, TellEffect
    <3>3. \A t \in f : t[2] \in Int
      BY <2>5 DEF Frame
    <3> QED
      BY <2>6, <3>1, <3>2, <3>3
  <2> HIDE DEF f
  <2>8. CASE told[c][s] >= n \/ Tells(f, s, n)
    <3>1. told'[c][s] >= n
      BY <2>3, <2>7, <2>8 DEF Tells
    <3> QED
      BY <2>1, <3>1 DEF Covers
  <2>9. CASE Tells(first[c], s, n) \/ (c \in targets /\ event.slot = s /\ event.version >= n)
    BY <1>1, <1>2, <2>1, <2>9 DEF Covers
  <2>10. CASE \E g \in Queued(c) : Tells(g, s, n)
    <3>1. CASE \E g \in Queued(c)' : Tells(g, s, n)
      BY <2>1, <3>1 DEF Covers
    <3> QED
      BY <2>5, <2>8, <2>10, <3>1
  <2>11. CASE OnItsWay(c[1], s, n)
    BY <1>2, <2>1, <2>11 DEF Covers, OnItsWay, Lets
  <2> QED
    BY <2>2, <2>8, <2>9, <2>10, <2>11 DEF Covers
<1> QED
  BY <1>2, <1>4, <1>5

\* A closed socket is served no more, and the other sessions go on.
LEMMA CloseKeepsStep ==
  ASSUME InStep, NEW d \in Conns, CloseSocket(d),
         writer' = writer \/ writer' = [writer EXCEPT ![d] = "ended"], NEW c \in Conns
  PROVE  RegisteredOK(c)' /\ SyncOK(c)'
<1>1. UNCHANGED <<hubVars, serviceVars, handler, reader>> /\ Coming' = Coming
  BY DEF CloseSocket, hubVars, serviceVars, Coming
<1>2. CASE c = d
  <2>1. socket'[c] = "closed"
    BY <1>2 DEF CloseSocket, InStep, SessionInv, SessionOK
  <2> QED
    BY <2>1 DEF RegisteredOK, SyncOK, Unharmed, Serving
<1>3. CASE c # d
  <2>1. /\ socket'[c] = socket[c] /\ writer'[c] = writer[c] /\ told'[c] = told[c]
        /\ first'[c] = first[c] /\ frames'[c] = frames[c] /\ (c \in dropped => c \in dropped')
        /\ (c \in replaced <=> c \in replaced')
    BY <1>3 DEF CloseSocket, InStep, SessionInv, SessionOK
  <2>2. Untouched(c)
    BY <1>1, <2>1 DEF Untouched, Unharmed, Serving, hubVars, serviceVars
  <2>3. RegisteredOK(c)'
    BY <1>1, <2>1 DEF InStep, RegisteredOK, Serving, hubVars
  <2> QED
    BY <1>1, <2>2, <2>3, UntouchedKept DEF InStep
<1> QED
  BY <1>2, <1>3

\* readPump unregisters its own connection only.
LEMMA ReaderKeepsStep ==
  ASSUME InStep, NEW d \in Conns, ReaderEnds(d), NEW c \in Conns
  PROVE  RegisteredOK(c)' /\ SyncOK(c)'
<1>1. /\ UNCHANGED <<bus, lost, event, targets, delivered>>
      /\ \A k \in Keys : registry'[k] = IF registry[k] = d THEN None ELSE registry[k]
      /\ reader' = [reader EXCEPT ![d] = "ended"]
      /\ UNCHANGED <<content, gray, outbox, handler, first, frames, socket, writer>>
      /\ UNCHANGED <<dropped, replaced, told>>
  BY UnregisterEffect DEF InStep, SessionInv, ReaderEnds, serviceVars
<1>2. reader \in [Conns -> {"run", "ended"}] /\ Client[c[1]].key \in Keys /\ Coming' = Coming
  BY <1>1, ConnKeys DEF InStep, SessionInv, SessionOK, Coming
<1>3. CASE c = d
  BY <1>1, <1>2, <1>3 DEF RegisteredOK, SyncOK, Unharmed, Serving
<1>4. CASE c # d
  <2>1. Untouched(c)
    BY <1>1, <1>2, <1>4 DEF Untouched, Unharmed, Serving
  <2>2. RegisteredOK(c)'
    BY <1>1, <1>2, <1>4 DEF InStep, RegisteredOK, Serving
  <2> QED
    BY <1>2, <2>1, <2>2, UntouchedKept DEF InStep
<1> QED
  BY <1>3, <1>4

\* A new session takes the place of whoever is registered under its key.
LEMMA OpenKeepsStep ==
  ASSUME InStep, NEW d \in Conns, Open(d[1], d), NEW c \in Conns
  PROVE  RegisteredOK(c)' /\ SyncOK(c)'
<1>1. /\ UNCHANGED <<bus, lost, event, targets, delivered>>
      /\ registry'[Client[d[1]].key] = d
      /\ \A k \in Keys : k # Client[d[1]].key => registry'[k] = registry[k]
      /\ UNCHANGED <<content, gray, outbox, first, frames, dropped, told>>
  BY RegisterEffect DEF InStep, SessionInv, Open, serviceVars
<1>2. /\ replaced' = replaced \cup {x \in Registered :
                         Client[x[1]].key = Client[d[1]].key /\ socket[x] = "open"}
      /\ handler' = [handler EXCEPT ![d] = "registered"]
      /\ socket'  = [socket EXCEPT ![d] = "open"]
      /\ reader'  = [reader EXCEPT ![d] = "run"]
      /\ writer'  = [writer EXCEPT ![d] = "run"]
  BY DEF Open
<1>3. Client[c[1]].key \in Keys /\ c[1] \in Clients /\ d[1] \in Clients /\ Coming' = Coming
  BY <1>1, ConnKeys DEF Coming
<1>4. CASE c = d
  BY <1>1, <1>2, <1>4 DEF RegisteredOK, SyncOK, InStep, SessionInv, SessionOK
<1>5. CASE c # d
  <2>1. /\ socket'[c] = socket[c] /\ reader'[c] = reader[c] /\ writer'[c] = writer[c]
        /\ handler'[c] = handler[c]
    BY <1>2, <1>5 DEF InStep, SessionInv, SessionOK
  <2>2. Untouched(c)
    BY <1>1, <1>2, <2>1 DEF Untouched, Unharmed, Serving
  <2>3. RegisteredOK(c)'
    <3>1. Serving(c)' /\ c \notin replaced' => Client[c[1]].key # Client[d[1]].key
      BY <1>2, <2>1 DEF InStep, RegisteredOK, Registered, Serving
    <3> QED
      BY <1>1, <1>2, <1>3, <2>1, <3>1 DEF InStep, RegisteredOK, Serving
  <2> QED
    BY <1>1, <1>3, <2>2, <2>3, UntouchedKept DEF InStep
<1> QED
  BY <1>4, <1>5

LEMMA StepInitInv == SessionInit => InStep
<1> SUFFICES ASSUME SessionInit PROVE InStep
  OBVIOUS
<1>1. \A c \in Conns : ~Serving(c)
  BY DEF SessionInit, Serving
<1> QED
  BY <1>1, SessionInitInv DEF InStep, RegisteredOK, SyncOK, Unharmed

LEMMA StepStepInv ==
  ASSUME InStep, [SessionNext]_wsVars
  PROVE  InStep'
<1>1. SessionInv'
  BY SessionStepInv DEF InStep
<1>2. ASSUME NEW c \in Conns PROVE RegisteredOK(c)' /\ SyncOK(c)'
  <2>1. CASE ServiceStep /\ UNCHANGED <<lost, sessionVars>>
    <3>1. ServiceWrite \/ \E e \in outbox : PublishOne(e)
      BY <2>1 DEF ServiceStep, ServiceWrite
    <3> QED
      BY <2>1, <3>1, WriteKeepsStep, PublishKeepsStep
  <2>2. CASE DispatcherStep
    BY <2>2, TakeKeepsStep, MarkKeepsStep, QueueEventKeepsStep DEF DispatcherStep
  <2>3. ASSUME NEW d \in Conns, HandlerStep(d) PROVE RegisteredOK(c)' /\ SyncOK(c)'
    BY <2>3, HandlerKeepsStep
  <2>4. ASSUME NEW d \in Conns, WriterStep(d) PROVE RegisteredOK(c)' /\ SyncOK(c)'
    BY <2>4, WriteFrameKeepsStep, CloseKeepsStep DEF WriterStep, WriterEnds
  <2>5. ASSUME NEW d \in Conns, PeerStep(d) PROVE RegisteredOK(c)' /\ SyncOK(c)'
    BY <2>5, OpenKeepsStep, CloseKeepsStep DEF PeerStep, PeerCloses
  <2>6. ASSUME NEW d \in Conns, ReaderEnds(d) PROVE RegisteredOK(c)' /\ SyncOK(c)'
    BY <2>6, ReaderKeepsStep
  <2>7. CASE UNCHANGED wsVars
    <3>1. UNCHANGED hubVars /\ UNCHANGED serviceVars /\ UNCHANGED sessionVars
      BY <2>7 DEF wsVars
    <3>2. Untouched(c) /\ Coming' = Coming /\ RegisteredOK(c)'
      BY <3>1 DEF Untouched, Unharmed, Serving, Coming, InStep, RegisteredOK,
                  hubVars, serviceVars, sessionVars
    <3> QED
      BY <3>2, UntouchedKept DEF InStep
  <2> QED
    BY <2>1, <2>2, <2>3, <2>4, <2>5, <2>6, <2>7 DEF SessionNext
<1> QED
  BY <1>1, <1>2 DEF InStep

\* A session that is served, and in no other's shadow, is registered under its
\* client's key; if it was refused no frame either it has been told what its
\* client is owed of every item, or will be.
THEOREM SessionsInStep == SessionSpec => []InStep
<1>1. InStep /\ [SessionNext]_wsVars => InStep'
  BY StepStepInv
<1> QED
  BY <1>1, StepInitInv, PTL DEF SessionSpec

\* Sessions register before they take their snapshot and the filter of the push
\* side lets through what changes one: nothing falls between the snapshot and
\* the pushed events of a session that was refused none, whatever opens, closes,
\* is written, released or withdrawn meanwhile (handlers.go:420-443, hub.go:49-66
\* and 112-183, socket.go, effective.go:271-290).
THEOREM NothingIsMissed == SessionSpec => []NothingFallsBetween
<1>1. InStep => NothingFallsBetween
  <2> SUFFICES ASSUME InStep, NEW c \in Conns, Serving(c), handler[c] = "none",
                      c \notin dropped \cup replaced, NEW s \in Contributes(c[1]),
                      ~((gray.status = "opening" \/ gray.withdrawn) /\ gray.slot = s)
               PROVE
         LET IsDue(t) == t[1] = s /\ t[2] >= Due(c[1], s) IN
         \/ told[c][s] >= Due(c[1], s)
         \/ \E f \in Queued(c) : \E t \in f : IsDue(t)
         \/ c \in targets /\ IsDue(<<event.slot, event.version>>)
         \/ \E e \in outbox \cup {bus[i] : i \in 1 .. Len(bus)} :
              IsDue(<<e.slot, e.version>>) /\ Accepts(e, c[1], gray.selected, TRUE)
    BY DEF NothingFallsBetween
  <2> DEFINE n == Due(c[1], s)
  <2>1. Covers(c, s, n)
    BY DEF InStep, SyncOK, Synced, Owed, Unharmed, Recalled
  <2>2. ~Tells(first[c], s, n)
    BY DEF InStep, SessionInv, SessionOK, NoFrame, Tells
  <2>3. ASSUME NEW e \in Coming, Lets(e, c[1], gray.selected)
        PROVE  Accepts(e, c[1], gray.selected, TRUE)
    <3>1. e \in Events
      BY ComingAreEvents DEF InStep, SessionInv
    <3> QED
      BY <2>3, <3>1, GateLets
  <2> HIDE DEF n
  <2>4. CASE OnItsWay(c[1], s, n)
    BY <2>3, <2>4 DEF OnItsWay, Coming, n
  <2>5. CASE told[c][s] >= n \/ (c \in targets /\ event.slot = s /\ event.version >= n)
    BY <2>5 DEF n
  <2>6. CASE \E f \in Queued(c) : Tells(f, s, n)
    BY <2>6 DEF Tells, n
  <2> QED
    BY <2>1, <2>2, <2>4, <2>5, <2>6 DEF Covers
<1> QED
  BY <1>1, SessionsInStep, PTL

\* Deliveries are marked before they are queued, marks outlive the sessions and
\* a session is unregistered by its own reader only: a recall reaches whoever
\* was pushed the gray version and was not replaced since (hub.go:125-183,
\* socket.go:40-69, tracker.go:21-51).
THEOREM RecallReaches == SessionSpec => RecallReachesPushed
<1>1. ASSUME InStep, NEW c \in holders \ replaced, TakeTargets, Head(bus).type = "gray_rollback",
             Head(bus).ns = Client[c[1]].ns, Serving(c)
      PROVE  c \in targets'
  <2>1. PICK e \in Events :
          /\ e = Head(bus) /\ e \in Coming
          /\ \A d \in Registered : e.type = "gray_rollback" /\ Matches(e, Client[d[1]])
                                      /\ DeliveredTo(e.rel, Client[d[1]].key)
               => d \in targets'
    BY <1>1, TakeTargetsEffect DEF InStep
  <2>2. EventOK(e) /\ c \in Conns
    BY <1>1, <2>1 DEF InStep, SessionInv, EventsOK, SessionOK
  <2>3. e.rel = 1 /\ e.slot = gray.slot
    BY <1>1, <2>1, <2>2 DEF EventOK, Events
  <2>4. SlotMatches(e.slot, Client[c[1]]) /\ <<1, Client[c[1]].key>> \in delivered
    BY <1>1, <2>3 DEF InStep, SessionInv, HoldersOK
  <2>5. Matches(e, Client[c[1]])
    BY <1>1, <2>1, <2>2, <2>4, EventMatches
  <2>6. c \in Registered
    BY <1>1, <2>2 DEF InStep, RegisteredOK, Registered
  <2> QED
    BY <1>1, <2>1, <2>3, <2>4, <2>5, <2>6 DEF DeliveredTo
<1>2. InStep => [\A c \in holders \ replaced :
       /\ TakeTargets /\ Head(bus).type = "gray_rollback"
       /\ Head(bus).ns = Client[c[1]].ns /\ Serving(c)
       => c \in targets']_wsVars
  BY <1>1
<1> QED
  BY <1>2, SessionsInStep, PTL DEF RecallReachesPushed
=============================================================================
