----------------------------- MODULE PushCluster -----------------------------
(***************************************************************************)
(* The push side of several backend nodes over one Redis: RedisBus          *)
(* (push/bus.go), RedisTracker (push/tracker.go), each node's registry and  *)
(* dispatcher (push/hub.go) and the life of its process                     *)
(* (cmd/server/main.go).  One node's hub is in PushHub; here nodes start,   *)
(* stop and die, and instances go from node to node, while one item has a   *)
(* gray release that several operators may end at once.  Every instance     *)
(* watches that item's namespace and environment; an instance has one       *)
(* session at a time.                                                       *)
(***************************************************************************)
EXTENDS Naturals, Sequences, FiniteSets, Functions

CONSTANTS
  Nodes,        \* server processes
  Instances,    \* instance ids
  Operators,    \* those who end the gray release, each in one call at a time
  ChanCap,      \* capacity of the subscriber channel (256 in the code)
  None

\* The events about the release; two calls of Promote may both publish one.
GrayChange   == <<"gray", None>>
Recall       == <<"recall", None>>
PromoteBy(o) == <<"promote", o>>

Events == {GrayChange, Recall} \cup {PromoteBy(o) : o \in Operators}

ASSUME ClusterAssumption == ChanCap \in Nat \ {0} /\ None \notin Nodes \cup Events

VARIABLES
  proc,         \* proc[n]: "down", "up", or "stopping" after a signal
  listening,    \* nodes that accept connections
  consuming,    \* nodes whose consumeEvents runs and has subscribed
  wire,         \* wire[n]: what Redis has sent to node n's subscription
  chan,         \* chan[n]: the channel between forwarder and consumer
  event,        \* event[n]: the event in dispatch, None between events
  targets,      \* targets[n]: the sessions picked for it; live until they end
  session,      \* session[i]: the node instance i is connected to, or None
  release,      \* the gray release: its status, the instances selected, whether
                \* the value before it was committed again ("withdrawn") and,
                \* a history field, whether a Promote was ever recorded
  calls,        \* the calls of Promote and GrayRollback that found the release
                \* gray: by whom, on which node, what the call has got to
  outbox,       \* events of handlers still to be published, and their nodes
  marked,       \* RedisTracker: the instances marked for the release
  heard,        \* heard[i]: the events pushed to i's present session
  \* history variables
  missed,       \* missed[i]: the events that the gate, unable to ask a store, or
                \* a full frame queue kept from i's present session
  present,      \* present[e]: instances whose session was there, on a node that
                \* Redis sent e to, when e was published, and still is
  first,        \* GrayChange or Recall, whichever was published first
  got,          \* instances that were pushed the gray change
  twice,        \* some session was pushed an event twice
  faulty        \* the tracker failed to record, or forgot

procVars  == <<proc, listening, consuming>>
busVars   == <<wire, chan, first>>
nodeVars  == <<event, targets>>
sessVars  == <<session, heard, missed, present>>
relVars   == <<release, calls, outbox>>
trackVars == <<marked, got, twice, faulty>>
vars == <<procVars, busVars, nodeVars, sessVars, relVars, trackVars>>

NoRelease ==
  [status |-> "none", selected |-> {}, withdrawn |-> FALSE, promoted |-> FALSE]

Init ==
  /\ proc = [n \in Nodes |-> "down"] /\ listening = {} /\ consuming = {}
  /\ wire = [n \in Nodes |-> <<>>] /\ chan = [n \in Nodes |-> <<>>]
  /\ event = [n \in Nodes |-> None] /\ targets = [n \in Nodes |-> {}]
  /\ session = [i \in Instances |-> None]
  /\ heard = [i \in Instances |-> {}] /\ missed = [i \in Instances |-> {}]
  /\ release = NoRelease /\ calls = {} /\ outbox = {}
  /\ marked = {} /\ present = [e \in Events |-> {}] /\ first = None
  /\ got = {} /\ twice = FALSE /\ faulty = FALSE

-----------------------------------------------------------------------------
\* A process comes up.  consumeEvents subscribes in a goroutine of its own:
\* nothing orders that before the node listens.
Boot(n) ==
  /\ proc[n] = "down"
  /\ proc' = [proc EXCEPT ![n] = "up"]
  /\ UNCHANGED <<listening, consuming, busVars, nodeVars, sessVars, relVars, trackVars>>

Subscribe(n) ==
  /\ proc[n] = "up" /\ n \notin consuming
  /\ consuming' = consuming \cup {n}
  /\ UNCHANGED <<proc, listening, busVars, nodeVars, sessVars, relVars, trackVars>>

Listen(n) ==
  /\ proc[n] = "up" /\ n \notin listening
  /\ listening' = listening \cup {n}
  /\ UNCHANGED <<proc, consuming, busVars, nodeVars, sessVars, relVars, trackVars>>

\* A signal: the consumer's context is cancelled before the server drains its
\* connections, and open websockets stay until the process ends.
Stop(n) ==
  /\ proc[n] = "up" /\ n \in listening
  /\ proc' = [proc EXCEPT ![n] = "stopping"]
  /\ listening' = listening \ {n}
  /\ UNCHANGED <<consuming, busVars, nodeVars, sessVars, relVars, trackVars>>

\* The consumer sees the cancellation between two events.
EndConsume(n) ==
  /\ proc[n] = "stopping" /\ n \in consuming /\ event[n] = None
  /\ consuming' = consuming \ {n}
  /\ UNCHANGED <<proc, listening, busVars, nodeVars, sessVars, relVars, trackVars>>

\* The sessions of the instances I end.
EndSessions(I) ==
  /\ session' = [i \in Instances |-> IF i \in I THEN None ELSE session[i]]
  /\ heard'   = [i \in Instances |-> IF i \in I THEN {} ELSE heard[i]]
  /\ missed'  = [i \in Instances |-> IF i \in I THEN {} ELSE missed[i]]
  /\ present' = [e \in Events |-> present[e] \ I]

\* The targets, once the sessions of the instances I have ended.
Without(T, I) ==
  {[inst |-> t.inst, live |-> t.live /\ t.inst \notin I] : t \in T}

\* The process ends, or dies, with its sessions, its channels and its handlers.
Die(n) ==
  /\ proc[n] # "down"
  /\ proc' = [proc EXCEPT ![n] = "down"]
  /\ listening' = listening \ {n} /\ consuming' = consuming \ {n}
  /\ wire' = [wire EXCEPT ![n] = <<>>] /\ chan' = [chan EXCEPT ![n] = <<>>]
  /\ event' = [event EXCEPT ![n] = None] /\ targets' = [targets EXCEPT ![n] = {}]
  /\ EndSessions({i \in Instances : session[i] = n})
  /\ calls'  = {c \in calls : c.node # n}
  /\ outbox' = {o \in outbox : o.node # n}
  /\ UNCHANGED <<first, release, trackVars>>

-----------------------------------------------------------------------------
Connect(i, n) ==
  /\ session[i] = None /\ n \in listening
  /\ session' = [session EXCEPT ![i] = n]
  /\ UNCHANGED <<procVars, busVars, nodeVars, heard, missed, present, relVars, trackVars>>

Disconnect(i) ==
  /\ session[i] # None
  /\ EndSessions({i})
  /\ targets' = [n \in Nodes |-> Without(targets[n], {i})]
  /\ UNCHANGED <<procVars, busVars, event, relVars, trackVars>>

-----------------------------------------------------------------------------
\* A handler on node n ends with an event to publish.
Announce(n, e) == outbox' = outbox \cup {[event |-> e, node |-> n]}

\* Commit with a gray request, as far as the push side sees it.
OpenGray(n, S) ==
  /\ release.status = "none" /\ n \in listening
  /\ release' = [release EXCEPT !.status = "gray", !.selected = S]
  /\ Announce(n, GrayChange)
  /\ UNCHANGED <<procVars, busVars, nodeVars, sessVars, calls, trackVars>>

\* Promote and GrayRollback read the release and check that it is gray; what
\* they write later is that copy with another status, whatever was written to
\* the release meanwhile.
Ask(o, n, to) ==
  /\ release.status = "gray" /\ n \in listening
  /\ \A c \in calls : c.by # o
  /\ calls' = calls \cup {[by |-> o, node |-> n, at |-> to]}
  /\ UNCHANGED <<procVars, busVars, nodeVars, sessVars, release, outbox, trackVars>>

Promote(c) ==
  /\ c.at = "promote"
  /\ calls' = calls \ {c}
  /\ release' = [release EXCEPT !.status = "promoted", !.promoted = TRUE]
  /\ Announce(c.node, PromoteBy(c.by))
  /\ UNCHANGED <<procVars, busVars, nodeVars, sessVars, trackVars>>

\* CommitValue of the old text under the gray version's number, which succeeds
\* at most once.
Withdraw(c) ==
  /\ c.at = "rollback" /\ ~release.withdrawn
  /\ calls' = (calls \ {c}) \cup {[c EXCEPT !.at = "withdrawn"]}
  /\ release' = [release EXCEPT !.withdrawn = TRUE]
  /\ UNCHANGED <<procVars, busVars, nodeVars, sessVars, outbox, trackVars>>

GrayRollback(c) ==
  /\ c.at = "withdrawn"
  /\ calls' = calls \ {c}
  /\ release' = [release EXCEPT !.status = "rolled_back"]
  /\ Announce(c.node, Recall)
  /\ UNCHANGED <<procVars, busVars, nodeVars, sessVars, trackVars>>

\* One of the call's requests to the store fails.
GiveUp(c) ==
  /\ calls' = calls \ {c}
  /\ UNCHANGED <<procVars, busVars, nodeVars, sessVars, release, outbox, trackVars>>

\* wrong: the publisher's own node is served at once as well
SendToOwnTwice(o, R) ==
  wire' = [n \in Nodes |-> IF n \notin R THEN wire[n]
                           ELSE IF n = o.node THEN wire[n] \o <<o.event, o.event>>
                           ELSE Append(wire[n], o.event)]

\* Redis passes an event on to the subscriptions R, in one order to all.
Send(o, R) ==
  wire' = [n \in Nodes |-> IF n \in R THEN Append(wire[n], o.event) ELSE wire[n]]

\* RedisBus.Publish: of the subscribed nodes, Redis reaches those it still has
\* a connection to; it keeps nothing for the others.
Publish(o, R) ==
  /\ outbox' = outbox \ {o}
  /\ Send(o, R)
  /\ first' = IF first = None /\ o.event \in {GrayChange, Recall} THEN o.event ELSE first
  /\ present' = [present EXCEPT ![o.event] = {i \in Instances : session[i] \in R}]
  /\ UNCHANGED <<procVars, chan, nodeVars, session, heard, missed, release, calls, trackVars>>

\* wrong: drops what finds the channel full, as MemoryBus does
ForwardDropping(n) ==
  /\ wire[n] # <<>>
  /\ wire' = [wire EXCEPT ![n] = Tail(@)]
  /\ chan' = [chan EXCEPT ![n] = IF Len(@) < ChanCap THEN Append(@, Head(wire[n])) ELSE @]
  /\ UNCHANGED <<procVars, first, nodeVars, sessVars, relVars, trackVars>>

\* The goroutine of Subscribe waits while the channel is full.
Forward(n) ==
  /\ wire[n] # <<>> /\ Len(chan[n]) < ChanCap
  /\ wire' = [wire EXCEPT ![n] = Tail(@)]
  /\ chan' = [chan EXCEPT ![n] = Append(@, Head(wire[n]))]
  /\ UNCHANGED <<procVars, first, nodeVars, sessVars, relVars, trackVars>>

-----------------------------------------------------------------------------
\* wrong: recalls a session only if the gray change was pushed to it itself
DeliveredToSession(i, answered) == answered /\ i \in marked /\ GrayChange \in heard[i]

\* RedisTracker.DeliveredTo: whichever node marked the instance; an SISMEMBER
\* that is not answered says no.
DeliveredTo(i, answered) == answered /\ i \in marked

\* wrong: the gray selection is left to the pull path
AcceptsEveryone(e, i, answered) == e = Recall => DeliveredTo(i, answered)

\* Gate.ShouldDeliver; a GetRelease that is not answered says no.
Accepts(e, i, answered) ==
  /\ e = Recall     => DeliveredTo(i, answered)
  /\ e = GrayChange => answered /\ i \in release.selected

\* The sessions of node n that the gate lets the event through to when its
\* requests about those of "unread" fail.
Let(n, e, unread) == {i \in Instances : session[i] = n /\ Accepts(e, i, i \notin unread)}

\* Dispatch, under the node's mutex: the sessions the next event goes to.
TakeEvent(n, unread) ==
  /\ n \in consuming /\ event[n] = None /\ chan[n] # <<>>
  /\ LET e == Head(chan[n])
         T == Let(n, e, unread)
     IN  /\ targets' = [targets EXCEPT ![n] = {[inst |-> i, live |-> TRUE] : i \in T}]
         /\ event' = [event EXCEPT ![n] = IF T = {} THEN None ELSE e]
         /\ missed' = [i \in Instances |->
              IF i \in Let(n, e, {}) \ T THEN missed[i] \cup {e} ELSE missed[i]]
  /\ chan' = [chan EXCEPT ![n] = Tail(@)]
  /\ UNCHANGED <<procVars, wire, first, session, heard, present, relVars, trackVars>>

\* The frame is pushed to a session that is still there.
Enqueue(i, e) ==
  /\ heard' = [heard EXCEPT ![i] = @ \cup {e}]
  /\ got'   = IF e = GrayChange THEN got \cup {i} ELSE got
  /\ twice' = (twice \/ e \in heard[i])
  /\ UNCHANGED missed

\* Its queue, which holds the frames of other items as well, is full.
Refuse(i, e) ==
  /\ missed' = [missed EXCEPT ![i] = @ \cup {e}]
  /\ UNCHANGED <<heard, got, twice>>

Push(t, e) ==
  \/ t.live /\ (Enqueue(t.inst, e) \/ Refuse(t.inst, e))
  \/ ~t.live /\ UNCHANGED <<heard, missed, got, twice>>

\* RedisTracker.Mark; a failing SADD goes unnoticed.
Mark(i, e) ==
  \/ e = Recall /\ UNCHANGED <<marked, faulty>>
  \/ e # Recall /\ marked' = marked \cup {i} /\ faulty' = faulty
  \/ e # Recall /\ i \notin marked /\ marked' = marked /\ faulty' = TRUE

\* Dispatch, without the mutex: mark one target, then push to it.
Deliver(n, t) ==
  /\ Mark(t.inst, event[n])
  /\ Push(t, event[n])
  /\ targets' = [targets EXCEPT ![n] = @ \ {t}]
  /\ event'   = [event EXCEPT ![n] = IF targets[n] = {t} THEN None ELSE @]
  /\ UNCHANGED <<procVars, busVars, session, present, relVars>>

\* The release's set expires a day after the last mark.
Expire ==
  /\ marked # {}
  /\ marked' = {} /\ faulty' = TRUE
  /\ UNCHANGED <<procVars, busVars, nodeVars, sessVars, relVars, got, twice>>

-----------------------------------------------------------------------------
ProcessStep(n) == Boot(n) \/ Subscribe(n) \/ Listen(n) \/ Stop(n) \/ EndConsume(n) \/ Die(n)
OperatorStep(n) ==
  \/ \E S \in SUBSET Instances : OpenGray(n, S)
  \/ \E o \in Operators, to \in {"promote", "rollback"} : Ask(o, n, to)
CallStep(c) == Promote(c) \/ Withdraw(c) \/ GrayRollback(c) \/ GiveUp(c)
HubStep(n) ==
  \/ Forward(n)
  \/ \E unread \in SUBSET Instances : TakeEvent(n, unread)
  \/ \E t \in targets[n] : Deliver(n, t)

Next ==
  \/ \E n \in Nodes : ProcessStep(n) \/ OperatorStep(n) \/ HubStep(n)
  \/ \E c \in calls : CallStep(c)
  \/ \E i \in Instances, n \in Nodes : Connect(i, n)
  \/ \E i \in Instances : Disconnect(i)
  \/ \E o \in outbox, R \in SUBSET consuming : Publish(o, R)
  \/ Expire

Spec == Init /\ [][Next]_vars

-----------------------------------------------------------------------------
\* Event e is done on node n: it is in none of its queues and not in dispatch.
Done(n, e) == e \notin Range(wire[n]) \cup Range(chan[n]) /\ event[n] # e

\* The session of i was there when e was published, e is done on its node, and
\* the node has not been told to stop.
ShouldHaveHeard(i, e) ==
  i \in present[e] /\ proc[session[i]] = "up" /\ Done(session[i], e)

\* "A change committed on any node wakes connections held by any node"
\* (bus.go:66-67): an event that Redis passed to a node reaches every session
\* that node held and the gate lets through, however slow its consumer is,
\* unless the gate's own request about that session fails (effective.go:284-287)
\* or the session's frame queue is full (hub.go:57-62).
EveryNodeHears ==
  \A i \in Instances :
    /\ \A o \in Operators :
         ShouldHaveHeard(i, PromoteBy(o)) => PromoteBy(o) \in heard[i] \cup missed[i]
    /\ ShouldHaveHeard(i, GrayChange) /\ i \in release.selected
         => GrayChange \in heard[i] \cup missed[i]

\* "Only instances that had received the gray value are woken" (service.go:493)
\* and all of those: an instance that was pushed the gray change, through
\* whatever node and session, hears the recall on the one it has now, unless
\* the recall itself meets a failing request or a full queue.
RecallCrossesNodes ==
  \A i \in got :
    ShouldHaveHeard(i, Recall) /\ ~faulty /\ first = GrayChange
    => Recall \in heard[i] \cup missed[i]

\* No session is pushed one event twice: an event reaches the publisher's own
\* node by the same way as the others.
HeardOnce == ~twice

\* "So delivery counts stay correct across multiple backend nodes"
\* (tracker.go:49-50): ReleaseStats counts every instance that was pushed the
\* gray change, by any node, and none that is not selected until a Promote is
\* recorded, even one that a GrayRollback then overwrites.
CountCoversPushed ==
  /\ ~faulty => got \subseteq marked
  /\ ~release.promoted => marked \subseteq release.selected
=============================================================================
