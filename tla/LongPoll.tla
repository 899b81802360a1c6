------------------------------ MODULE LongPoll ------------------------------
(***************************************************************************)
(* Long polling end to end: clients that keep asking for something newer   *)
(* than what they hold (api/handlers.go, poll), the push hub that wakes     *)
(* them, and the service whose writes it announces.                        *)
(***************************************************************************)
EXTENDS ServiceEvents

VARIABLES
  ppc,         \* ppc[p]: where the poll of client p stands
  conn,        \* conn[p]: its connection, None outside of a suspended poll
  have         \* have[p]: the snapshot client p was last given

pollVars == <<ppc, conn, have>>
vars     == <<hubVars, serviceVars, pollVars>>

Nothing == [version |-> 0, texts |-> {}]

Init ==
  /\ HubInit
  /\ ServiceInit
  /\ ppc  = [p \in Clients |-> "idle"]
  /\ conn = [p \in Clients |-> None]
  /\ have = [p \in Clients |-> Nothing]

-----------------------------------------------------------------------------
\* Definitions marked "wrong" are mistakes the code could have made instead of
\* the definition they precede; no specification uses them.

\* wrong: one version behind counts as up to date
NewerByTwo(p) == ~Fails(p) /\ Snapshot(p).version > have[p].version + 1

Newer(p) == ~Fails(p) /\ Snapshot(p).version > have[p].version

\* A poll arrives and is answered at once with an error or when the snapshot is
\* newer.
Poll(p) ==
  /\ ppc[p] = "idle"
  /\ have' = [have EXCEPT ![p] = IF Newer(p) THEN Snapshot(p) ELSE @]
  /\ ppc'  = [ppc EXCEPT ![p] = IF Newer(p) \/ Fails(p) THEN @ ELSE "register"]
  /\ UNCHANGED <<hubVars, serviceVars, conn>>

RegisterConn(p) ==
  /\ ppc[p] = "register"
  /\ Register(FreshConn(p))
  /\ conn' = [conn EXCEPT ![p] = FreshConn(p)]
  /\ ppc'  = [ppc EXCEPT ![p] = "recheck"]
  /\ UNCHANGED <<serviceVars, have>>

\* wrong: no second look after registering
RecheckSkipped(p) ==
  /\ ppc[p] = "recheck"
  /\ ppc' = [ppc EXCEPT ![p] = "wait"]
  /\ UNCHANGED <<hubVars, serviceVars, conn, have>>

\* Effective again, now that no wake-up can be missed.
Recheck(p) ==
  /\ ppc[p] = "recheck"
  /\ have' = [have EXCEPT ![p] = IF Newer(p) THEN Snapshot(p) ELSE @]
  /\ ppc'  = [ppc EXCEPT ![p] = IF Newer(p) \/ Fails(p) THEN "leave" ELSE "wait"]
  /\ UNCHANGED <<hubVars, serviceVars, conn>>

\* hub.Wait returns because the connection was woken: the answer holds a fresh
\* snapshot if it can be had, newer (changed=true) or not.
Wake(p) ==
  /\ ppc[p] = "wait" /\ conn[p] \in woken
  /\ have' = [have EXCEPT ![p] = IF Fails(p) THEN @ ELSE Snapshot(p)]
  /\ ppc'  = [ppc EXCEPT ![p] = "leave"]
  /\ UNCHANGED <<hubVars, serviceVars, conn>>

\* ... or because the timer fired: changed=false, without another look.
Timeout(p) ==
  /\ ppc[p] = "wait"
  /\ ppc' = [ppc EXCEPT ![p] = "leave"]
  /\ UNCHANGED <<hubVars, serviceVars, conn, have>>

\* The deferred Unregister; the response is complete and the client polls again.
Leave(p) ==
  /\ ppc[p] = "leave"
  /\ Unregister(conn[p])
  /\ conn' = [conn EXCEPT ![p] = None]
  /\ ppc'  = [ppc EXCEPT ![p] = "idle"]
  /\ UNCHANGED <<serviceVars, have>>

\* The next event is dispatched; one that a poll misses because the gate cannot
\* read the release counts as lost.
Take ==
  /\ \E unread \in SUBSET Registered :
       /\ TakeEvent(gray.selected, unread)
       /\ lost' = (lost \/ Overlooked(Head(bus), gray.selected, unread) # {})
  /\ UNCHANGED <<serviceVars, pollVars>>

DeliverTo(c) ==
  /\ Deliver(c)
  /\ UNCHANGED <<serviceVars, pollVars>>

-----------------------------------------------------------------------------
HubStep == Take \/ \E c \in Conns : DeliverTo(c)

PollStep(p) ==
  \/ Poll(p) \/ RegisterConn(p) \/ Recheck(p) \/ Wake(p) \/ Timeout(p) \/ Leave(p)

Next ==
  \/ (ServiceStep \/ EventLost) /\ UNCHANGED pollVars
  \/ HubStep
  \/ \E p \in Clients : PollStep(p)

\* The server's goroutines run, its timers fire, and a client told to reconnect
\* does.  Nothing is assumed of the operators or of the delivery of events.
Fairness ==
  /\ WF_vars(HubStep)
  /\ \A p \in Clients : WF_vars(PollStep(p))

Spec == Init /\ [][Next]_vars /\ Fairness

-----------------------------------------------------------------------------
\* No lost wake-up: a poll that is suspended under its own registration while
\* the service has something newer for it is already woken, is a target of
\* the event in dispatch, or an event that the gate will let through to it is
\* on its way.  The push filter (namespace, group, environment, gray set) and
\* the pull path (layers, gray gate) must agree for this to hold.  "lost" also
\* covers an event the gate held back because it could not read its release
\* (effective.go:285): nothing repeats it.  The item of a withdrawn release is
\* excluded: recalls go by the tracker, and wake only those it has recorded.
NoLostWakeup ==
  \A p \in Clients :
    /\ ppc[p] = "wait"
    /\ registry[Client[p].key] = conn[p]
    /\ Newer(p)
    /\ ~lost
    => \/ (gray.status = "opening" \/ gray.withdrawn) /\ gray.slot \in Contributes(p)
       \/ conn[p] \in woken
       \/ conn[p] \in targets
       \/ \E e \in outbox \cup {bus[i] : i \in 1 .. Len(bus)} :
            Accepts(e, p, gray.selected, TRUE)

\* Whatever events are lost, dropped by a full channel or sent to a replaced
\* connection, a client that keeps polling catches up with the version it is
\* entitled to once the writes stop, unless what it is entitled to was pruned.
\* (It may be ahead of it: one that looked between CommitValue and CreateRelease
\* has seen the gray version.)
EventuallyCaughtUp ==
  <>[](\A p \in Clients : Fails(p) \/ have[p].version >= Snapshot(p).version)

\* "The consumer will reconcile by fetching a fresh snapshot" (push/bus.go),
\* "the service has an update: answer at once with the latest merged snapshot"
\* (README 3.4): the client ends up with the latest texts, not only with the
\* latest version number, when nothing was ever released gray.  It need not: what is
\* written under a smaller version than the snapshot's, by an event that is
\* lost or that comes between two polls, no later poll is answered with.
EventuallySameContent ==
  <>[](gray.status = "none" =>
         \A p \in Clients : have[p].texts = Snapshot(p).texts)
=============================================================================
