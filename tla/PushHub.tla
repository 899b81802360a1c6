------------------------------ MODULE PushHub -------------------------------
(***************************************************************************)
(* The push side of one backend node: the event bus (push/bus.go), the     *)
(* registry of live connections and the dispatcher (push/hub.go) and the   *)
(* delivery tracker (push/tracker.go).                                     *)
(*                                                                         *)
(* consumeEvents (cmd/server/main.go) is the only dispatcher.  Dispatch     *)
(* picks the targets of an event under the hub's mutex and then, without   *)
(* it, marks and wakes them one by one, while connections come and go.      *)
(***************************************************************************)
EXTENDS Integers, Sequences, FiniteSets

CONSTANTS
  Clients,     \* clients; Client[p] is what client p identifies itself with
  Client,      \* [key: instance id or IP, ns, group, env]
  Namespaces,  \* the tenant's business namespaces
  Public,      \* domain.PublicNamespaceID: the namespace and its group
  Defaults,    \* domain.DefaultGroupID
  All,         \* "" in a subscription: every group, every environment
  BusCap,      \* capacity of the subscriber channel (256 in the code)
  None

\* Clients poll namespaces the tenant has: nothing looks a namespace up when a
\* client comes, and an event of the public layer goes to those that exist.
ASSUME HubAssumption ==
  /\ BusCap \in Nat \ {0}
  /\ \A p \in Clients : Client[p].ns \in Namespaces
  /\ Public \notin Namespaces
  /\ None \notin Clients \X {1, 2}

VARIABLES
  bus,         \* the subscriber channel
  lost,        \* history variable: some event was dropped, or not let through
               \* to a poll because the gate could not read its release
  registry,    \* Hub.conns: instance key -> connection, None when absent
  woken,       \* connections whose wait channel is closed
  event,       \* the event in dispatch, None between events
  targets,     \* connections it still has to be delivered to
  delivered    \* Tracker: <<release, key>> pairs marked

hubVars == <<bus, lost, registry, woken, event, targets, delivered>>

Keys == {Client[p].key : p \in Clients}

\* Connection objects.  A client needs at most two: the one of its present
\* request, and one of an earlier request that is still to be delivered to.
Conns == Clients \X {1, 2}

HubInit ==
  /\ bus       = <<>>
  /\ lost      = FALSE
  /\ registry  = [k \in Keys |-> None]
  /\ woken     = {}
  /\ event     = None
  /\ targets   = {}
  /\ delivered = {}

Registered == {c \in Conns : registry[Client[c[1]].key] = c}

-----------------------------------------------------------------------------
\* Service.fanout: an event of the public layer becomes one event for every
\* namespace, under the public group.
FanOut(e) ==
  IF e.ns # Public THEN {e}
  ELSE {[e EXCEPT !.ns = n, !.group = Public] : n \in Namespaces}

\* MemoryBus.Publish never blocks: an event that finds the channel full is
\* dropped for that subscriber.
Publish(e) ==
  /\ IF Len(bus) < BusCap
       THEN bus' = Append(bus, e) /\ UNCHANGED lost
       ELSE lost' = TRUE /\ UNCHANGED bus
  /\ UNCHANGED <<registry, woken, event, targets, delivered>>

\* Definitions marked "wrong" are mistakes the code could have made instead of
\* the definition they precede; no specification uses them.

\* A new connection is registered under its client's key; an older one under
\* the same key is forgotten.
FreshConn(p) == CHOOSE c \in {<<p, 1>>, <<p, 2>>} : c \notin targets

Register(c) ==
  /\ registry' = [registry EXCEPT ![Client[c[1]].key] = c]
  /\ woken'    = woken \ {c}
  /\ UNCHANGED <<bus, lost, event, targets, delivered>>

\* wrong: whatever connection is registered under the key is removed
UnregisterByKey(c) ==
  /\ registry' = [registry EXCEPT ![Client[c[1]].key] = None]
  /\ woken'    = woken \ {c}
  /\ UNCHANGED <<bus, lost, event, targets, delivered>>

\* Only the connection that is still registered under the key is removed; the
\* request that waited on it is over.
Unregister(c) ==
  /\ registry' = [k \in Keys |-> IF registry[k] = c THEN None ELSE registry[k]]
  /\ woken'    = woken \ {c}
  /\ UNCHANGED <<bus, lost, event, targets, delivered>>

\* The tracker of one node, a set of keys for each release.
Mark(rel, key)        == delivered' = delivered \cup {<<rel, key>>}
DeliveredTo(rel, key) == <<rel, key>> \in delivered

\* Dispatch matches tenant and namespace, Gate the environment and the group.
Matches(e, m) ==
  /\ e.ns = m.ns
  /\ m.env = All \/ e.env = m.env
  /\ m.group = All \/ e.group \in {m.group, Defaults, Public}

\* gray.ShouldDeliver: the instances of an IP list, or those whose hash with the
\* release falls below the percentage; a set fixed with the release either way.
ShouldDeliver(key, selected) == key \in selected

\* Gate.ShouldDeliver for a connection of client p: a gray change goes to the
\* selected instances, and to none when GetRelease fails; a recall to those
\* marked, the rest to everyone.
Accepts(e, p, selected, readable) ==
  /\ Matches(e, Client[p])
  /\ CASE e.type = "gray_rollback" -> DeliveredTo(e.rel, Client[p].key)
       [] e.type = "promote"       -> TRUE
       [] OTHER -> e.rel # 0 => readable /\ ShouldDeliver(Client[p].key, selected)

\* The connections an event would have gone to had the gate read its release.
Overlooked(e, selected, unread) ==
  {c \in Registered \cap unread :
     Accepts(e, c[1], selected, TRUE) /\ ~Accepts(e, c[1], selected, FALSE)}

\* Dispatch, under the mutex: the targets of the next event.  The gate reads the
\* release again for each connection, in vain for those of "unread".
TakeEvent(selected, unread) ==
  /\ event = None /\ bus # <<>>
  /\ LET e == Head(bus)
         T == {c \in Registered : Accepts(e, c[1], selected, c \notin unread)}
     IN  /\ targets' = T
         /\ event' = IF T = {} THEN None ELSE e
  /\ bus' = Tail(bus)
  /\ UNCHANGED <<registry, woken, delivered>>

\* Dispatch, without the mutex: mark the delivery, then wake the connection,
\* whether or not anyone still waits on it.
Deliver(c) ==
  /\ event # None /\ c \in targets
  /\ IF event.rel # 0 /\ event.type # "gray_rollback"
       THEN Mark(event.rel, Client[c[1]].key) ELSE UNCHANGED delivered
  /\ woken'   = woken \cup {c}
  /\ targets' = targets \ {c}
  /\ event'   = IF targets = {c} THEN None ELSE event
  /\ UNCHANGED <<bus, lost, registry>>

-----------------------------------------------------------------------------
HubTypeOK ==
  /\ Len(bus) <= BusCap
  /\ lost \in BOOLEAN
  /\ registry \in [Keys -> Conns \cup {None}]
  /\ woken \subseteq Conns
  /\ targets \subseteq Conns
  /\ (event = None) = (targets = {})
  /\ \A d \in delivered : d[2] \in Keys
=============================================================================
