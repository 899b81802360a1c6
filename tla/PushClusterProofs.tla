--------------------------- MODULE PushClusterProofs ---------------------------
(***************************************************************************)
(* Proofs about PushCluster: what the tracker counts, and which sessions    *)
(* hear an event, for any number of nodes, instances and channel slots.     *)
(***************************************************************************)
EXTENDS PushCluster, SequenceTheorems, TLAPS

-----------------------------------------------------------------------------
\* The types of the elements of targets[n], of the release and of the calls.
Target  == [inst : Instances, live : BOOLEAN]
Release == [status : {"none", "gray", "promoted", "rolled_back"}, selected : SUBSET Instances,
            withdrawn : BOOLEAN, promoted : BOOLEAN]
Call    == [by : Operators, node : Nodes, at : {"promote", "rollback", "withdrawn"}]

\* Instance i is a target whose session is still there.
LiveTarget(n, i) == [inst |-> i, live |-> TRUE] \in targets[n]

TypeOK ==
  /\ proc \in [Nodes -> {"down", "up", "stopping"}]
  /\ listening \in SUBSET Nodes /\ consuming \in SUBSET Nodes
  /\ wire \in [Nodes -> Seq(Events)] /\ chan \in [Nodes -> Seq(Events)]
  /\ event \in [Nodes -> Events \cup {None}]
  /\ targets \in [Nodes -> SUBSET Target]
  /\ session \in [Instances -> Nodes \cup {None}]
  /\ heard \in [Instances -> SUBSET Events] /\ missed \in [Instances -> SUBSET Events]
  /\ release \in Release /\ calls \in SUBSET Call
  /\ outbox \in SUBSET [event : Events, node : Nodes]
  /\ marked \in SUBSET Instances /\ got \in SUBSET Instances
  /\ present \in [Events -> SUBSET Instances]
  /\ first \in {None, GrayChange, Recall}
  /\ twice \in BOOLEAN /\ faulty \in BOOLEAN

\* A queue holds no event twice, and no gray change behind a recall.
NoRepeat(q)  == \A j, k \in DOMAIN q : q[j] = q[k] => j = k
GrayAhead(q) == \A j, k \in DOMAIN q : q[j] = Recall /\ q[k] = GrayChange => k < j

\* The gray change was published before the recall.
GrayFirst == first = GrayChange

\* No trace of event e on the bus, in a node or in a session.
Nowhere(e) ==
  /\ \A n \in Nodes : Done(n, e)
  /\ \A i \in Instances : e \notin heard[i]
  /\ present[e] = {} /\ first # e

\* A handler has changed the release in the way event e announces, and no call
\* is about to announce e.
Announced(e) ==
  \/ e = GrayChange /\ release.status # "none"
  \/ e = Recall /\ release.withdrawn /\ \A c \in calls : c.at # "withdrawn"
  \/ \E o \in Operators :
       /\ e = PromoteBy(o) /\ release.promoted
       /\ \A c \in calls : c.by = o => c.at # "promote"

\* An operator has one call at a time, and the value before the gray one was
\* committed again by one call at most.
CallsOK ==
  /\ \A c, d \in calls : c.by = d.by => c = d
  /\ \A c, d \in calls : c.at = "withdrawn" /\ d.at = "withdrawn" => c = d
  /\ \A c \in calls : c.at = "withdrawn" => release.withdrawn
  /\ release.status \in {"none", "gray"} => ~release.promoted
  /\ release.status = "none" => release.selected = {} /\ calls = {} /\ ~release.withdrawn

\* Every event is published at most once, after it was announced.
OutboxOK ==
  /\ \A e \in Events : ~Announced(e) => Nowhere(e) /\ \A o \in outbox : o.event # e
  /\ \A o \in outbox : Nowhere(o.event)
  /\ \A o, q \in outbox : o.event = q.event => o = q
  /\ first = None => Nowhere(GrayChange) /\ Nowhere(Recall)

\* Node n has each event in one place, its live targets are connected to it,
\* and the targets of the gray change are selected.
NodeOK(n) ==
  /\ NoRepeat(wire[n]) /\ NoRepeat(chan[n])
  /\ Range(wire[n]) \cap Range(chan[n]) = {}
  /\ event[n] \notin Range(wire[n]) \cup Range(chan[n])
  /\ event[n] = None => targets[n] = {}
  /\ \A t \in targets[n] : t.live => session[t.inst] = n
  /\ event[n] = GrayChange => \A t \in targets[n] : t.inst \in release.selected

\* When the gray change was published first, it is ahead of the recall.
OrderOK(n) ==
  GrayFirst =>
    /\ GrayAhead(wire[n]) /\ GrayAhead(chan[n])
    /\ Recall \in Range(chan[n]) => GrayChange \notin Range(wire[n])
    /\ event[n] = Recall => GrayChange \notin Range(wire[n]) \cup Range(chan[n])

\* An event heard in a session is behind that session.
HeardOK(i) ==
  \A e \in heard[i] :
    /\ session[i] \in Nodes
    /\ e \notin Range(wire[session[i]]) \cup Range(chan[session[i]])
    /\ event[session[i]] = e => ~LiveTarget(session[i], i)

\* The gate has kept event e from instance i, and was right to.
Refused(i, e) ==
  \/ e = GrayChange /\ i \notin release.selected
  \/ /\ e = Recall
     /\ GrayFirst => Done(session[i], GrayChange) /\ (i \in got => faulty)

\* A session that was there when e was published has heard e or missed it, or
\* is about to hear it.
PresentOK(i) ==
  \A e \in Events : i \in present[e] =>
    /\ session[i] \in Nodes
    /\ \/ e \in heard[i] \cup missed[i] \/ Refused(i, e)
       \/ e \in Range(wire[session[i]]) \cup Range(chan[session[i]])
       \/ event[session[i]] = e /\ LiveTarget(session[i], i)

\* The inductive invariant.
ClusterInv ==
  /\ TypeOK /\ CallsOK /\ OutboxOK
  /\ \A n \in Nodes : NodeOK(n) /\ OrderOK(n)
  /\ \A i \in Instances : HeardOK(i) /\ PresentOK(i)
  /\ HeardOnce /\ CountCoversPushed

-----------------------------------------------------------------------------
\* The events differ from each other and from None.
LEMMA EventsDiffer ==
  /\ GrayChange \in Events /\ Recall \in Events /\ GrayChange # Recall /\ None \notin Events
  /\ \A o \in Operators :
       PromoteBy(o) \in Events /\ PromoteBy(o) # GrayChange /\ PromoteBy(o) # Recall
  /\ \A o, q \in Operators : PromoteBy(o) = PromoteBy(q) => o = q
  /\ \A e \in Events : e \in {GrayChange, Recall} \/ \E o \in Operators : e = PromoteBy(o)
BY ClusterAssumption DEF Events, GrayChange, Recall, PromoteBy

\* Appending a new event to a queue.
LEMMA QueueAppend ==
  ASSUME NEW q \in Seq(Events), NEW e \in Events
  PROVE  /\ Append(q, e) \in Seq(Events)
         /\ Range(Append(q, e)) = Range(q) \cup {e}
         /\ NoRepeat(q) /\ e \notin Range(q) => NoRepeat(Append(q, e))
         /\ GrayAhead(q) /\ (e = GrayChange => Recall \notin Range(q)) => GrayAhead(Append(q, e))
<1> DEFINE r == Append(q, e)
<1>1. /\ r \in Seq(Events) /\ DOMAIN r = 1 .. Len(q) + 1 /\ DOMAIN q = 1 .. Len(q)
      /\ Len(q) \in Nat /\ r[Len(q) + 1] = e /\ \A k \in 1 .. Len(q) : r[k] = q[k]
  OBVIOUS
<1>2. Range(r) = Range(q) \cup {e}
  BY <1>1 DEF Range
<1>3. NoRepeat(q) /\ e \notin Range(q) => NoRepeat(r)
  BY <1>1 DEF Range, NoRepeat
<1>4. GrayAhead(q) /\ (e = GrayChange => Recall \notin Range(q)) => GrayAhead(r)
  BY <1>1, EventsDiffer DEF Range, GrayAhead
<1> QED
  BY <1>1, <1>2, <1>3, <1>4

\* Taking the first event of a queue.
LEMMA QueueTail ==
  ASSUME NEW q \in Seq(Events), q # <<>>
  PROVE  /\ Tail(q) \in Seq(Events)
         /\ Head(q) \in Events /\ Head(q) \in Range(q)
         /\ Range(q) = Range(Tail(q)) \cup {Head(q)}
         /\ NoRepeat(q) => NoRepeat(Tail(q)) /\ Head(q) \notin Range(Tail(q))
         /\ GrayAhead(q) => /\ GrayAhead(Tail(q))
                            /\ Head(q) = Recall => GrayChange \notin Range(q)
<1> DEFINE r == Tail(q)
<1>1. /\ r \in Seq(Events) /\ DOMAIN r = 1 .. Len(q) - 1 /\ DOMAIN q = 1 .. Len(q)
      /\ Len(q) \in Nat \ {0} /\ Head(q) = q[1] /\ \A k \in 1 .. Len(q) - 1 : r[k] = q[k + 1]
  OBVIOUS
<1>2. Head(q) \in Events /\ Head(q) \in Range(q)
  BY <1>1 DEF Range
<1>3. Range(q) = Range(r) \cup {Head(q)}
  <2>1. ASSUME NEW k \in 1 .. Len(q) PROVE q[k] \in Range(r) \cup {Head(q)}
    <3>1. k # 1 => k - 1 \in 1 .. Len(q) - 1 /\ r[k - 1] = q[k]
      BY <1>1
    <3> HIDE DEF r
    <3> QED
      BY <1>1, <3>1 DEF Range
  <2>2. ASSUME NEW k \in 1 .. Len(q) - 1 PROVE r[k] \in Range(q)
    <3>1. k + 1 \in DOMAIN q /\ r[k] = q[k + 1]
      BY <1>1
    <3> HIDE DEF r
    <3> QED
      BY <3>1 DEF Range
  <2> HIDE DEF r
  <2>3. Range(q) \subseteq Range(r) \cup {Head(q)}
    <3>1. Range(q) = {q[k] : k \in 1 .. Len(q)}
      BY <1>1 DEF Range
    <3> QED
      BY <2>1, <3>1
  <2>4. Range(r) \subseteq Range(q)
    <3>1. Range(r) = {r[k] : k \in 1 .. Len(q) - 1}
      BY <1>1 DEF Range
    <3> QED
      BY <2>2, <3>1
  <2> QED
    BY <1>2, <2>3, <2>4
<1>4. NoRepeat(q) => NoRepeat(r) /\ Head(q) \notin Range(r)
  BY <1>1 DEF Range, NoRepeat
<1>5. GrayAhead(q) => GrayAhead(r) /\ (Head(q) = Recall => GrayChange \notin Range(q))
  BY <1>1, EventsDiffer DEF Range, GrayAhead
<1> QED
  BY <1>1, <1>2, <1>3, <1>4, <1>5

\* The elements of a queue are events.
LEMMA QueueTypes == \A q \in Seq(Events) : Range(q) \subseteq Events
BY DEF Range

\* The empty queue.
LEMMA QueueEmpty ==
  <<>> \in Seq(Events) /\ Range(<<>>) = {} /\ NoRepeat(<<>>) /\ GrayAhead(<<>>)
BY DEF Range, NoRepeat, GrayAhead

-----------------------------------------------------------------------------
\* The invariant holds when nothing has started.
LEMMA InitCluster == Init => ClusterInv
<1> SUFFICES ASSUME Init PROVE ClusterInv
  OBVIOUS
<1>1. TypeOK /\ CallsOK
  BY QueueEmpty DEF Init, NoRelease, TypeOK, Release, Call, CallsOK
<1>2. \A e \in Events : Nowhere(e) /\ ~Announced(e)
  BY EventsDiffer, QueueEmpty DEF Init, NoRelease, Nowhere, Done, Announced
<1>3. OutboxOK
  BY <1>2, EventsDiffer DEF Init, OutboxOK
<1>4. \A n \in Nodes : NodeOK(n) /\ OrderOK(n)
  BY EventsDiffer, QueueEmpty DEF Init, NodeOK, OrderOK, GrayFirst
<1>5. \A i \in Instances : HeardOK(i) /\ PresentOK(i)
  BY DEF Init, HeardOK, PresentOK
<1>6. HeardOnce /\ CountCoversPushed
  BY DEF Init, NoRelease, HeardOnce, CountCoversPushed
<1> QED
  BY <1>1, <1>3, <1>4, <1>5, <1>6 DEF ClusterInv

\* A step of processes alone keeps the invariant.
LEMMA ProcessKeepsInv ==
  ASSUME ClusterInv, UNCHANGED <<busVars, nodeVars, sessVars, relVars, trackVars>>,
         proc' \in [Nodes -> {"down", "up", "stopping"}],
         listening' \in SUBSET Nodes, consuming' \in SUBSET Nodes
  PROVE  ClusterInv'
<1> USE DEF busVars, nodeVars, sessVars, relVars, trackVars
<1>1. (TypeOK /\ CallsOK)'
  BY DEF ClusterInv, TypeOK, CallsOK
<1>2. OutboxOK'
  BY DEF ClusterInv, OutboxOK, Announced, Nowhere, Done
<1>3. \A n \in Nodes : NodeOK(n)' /\ OrderOK(n)'
  BY DEF ClusterInv, NodeOK, OrderOK, GrayFirst, Done
<1>4. \A i \in Instances : HeardOK(i)' /\ PresentOK(i)'
  BY DEF ClusterInv, HeardOK, PresentOK, LiveTarget, Refused, Done, GrayFirst
<1>5. (HeardOnce /\ CountCoversPushed)'
  BY DEF ClusterInv, HeardOnce, CountCoversPushed
<1> QED
  BY <1>1, <1>2, <1>3, <1>4, <1>5 DEF ClusterInv

\* A new session keeps the invariant.
LEMMA ConnectKeepsInv ==
  ASSUME NEW i \in Instances, NEW n \in Nodes, ClusterInv, Connect(i, n)
  PROVE  ClusterInv'
<1> USE DEF ClusterInv, Connect, procVars, busVars, nodeVars, relVars, trackVars
<1>1. (TypeOK /\ CallsOK)'
  BY DEF TypeOK, CallsOK
<1>2. OutboxOK'
  BY DEF OutboxOK, Announced, Nowhere, Done
<1>3. \A m \in Nodes, j \in Instances : LiveTarget(m, j) => session[j] = m
  BY DEF NodeOK, LiveTarget
<1>4. \A m \in Nodes : NodeOK(m)'
  BY EventsDiffer, ClusterAssumption DEF NodeOK, TypeOK, Target, Done
<1>5. \A m \in Nodes : OrderOK(m)'
  BY DEF OrderOK, GrayFirst
<1>6. \A j \in Instances : HeardOK(j)'
  BY EventsDiffer, ClusterAssumption DEF HeardOK, TypeOK, LiveTarget
<1>7. \A j \in Instances : PresentOK(j)'
  <2>1. \A e \in Events : i \notin present[e]
    BY EventsDiffer, ClusterAssumption DEF PresentOK
  <2>2. \A j \in Instances : j # i => session'[j] = session[j]
    BY DEF TypeOK
  <2> QED
    BY <2>1, <2>2 DEF PresentOK, LiveTarget, Refused, Done, GrayFirst
<1>8. (HeardOnce /\ CountCoversPushed)'
  BY DEF HeardOnce, CountCoversPushed
<1> QED
  BY <1>1, <1>2, <1>4, <1>5, <1>6, <1>7, <1>8

\* What is left of the targets T when the sessions of I end.
LEMMA WithoutEffect ==
  ASSUME NEW T \in SUBSET Target, NEW I
  PROVE  /\ Without(T, I) \in SUBSET Target
         /\ T = {} => Without(T, I) = {}
         /\ \A t \in Without(T, I) : \E u \in T :
              u.inst = t.inst /\ (t.live => u.live /\ t.inst \notin I)
         /\ \A j \in Instances : [inst |-> j, live |-> TRUE] \in Without(T, I)
              <=> [inst |-> j, live |-> TRUE] \in T /\ j \notin I
<1>1. \A t \in T : [inst |-> t.inst, live |-> t.live /\ t.inst \notin I] \in Target
  BY DEF Target
<1>2. ASSUME NEW j \in Instances,
             [inst |-> j, live |-> TRUE] \in Without(T, I)
      PROVE  [inst |-> j, live |-> TRUE] \in T /\ j \notin I
  <2>1. PICK t \in T : [inst |-> j, live |-> TRUE]
                         = [inst |-> t.inst, live |-> t.live /\ t.inst \notin I]
    BY <1>2 DEF Without
  <2>2. t.inst = j /\ t.live = TRUE /\ t.inst \notin I
    BY <2>1 DEF Target
  <2> QED
    BY <2>2 DEF Target
<1>3. ASSUME NEW j \in Instances,
             [inst |-> j, live |-> TRUE] \in T, j \notin I
      PROVE  [inst |-> j, live |-> TRUE] \in Without(T, I)
  <2> DEFINE t == [inst |-> j, live |-> TRUE]
  <2>1. [inst |-> t.inst, live |-> t.live /\ t.inst \notin I] \in Without(T, I)
    BY <1>3 DEF Without
  <2>2. t.inst = j /\ (t.live /\ t.inst \notin I) = TRUE
    BY <1>3
  <2> QED
    BY <2>1, <2>2
<1>4. ASSUME NEW t \in Without(T, I)
      PROVE  /\ t \in Target
             /\ \E u \in T : u.inst = t.inst /\ (t.live => u.live /\ t.inst \notin I)
  <2>1. PICK u \in T : t = [inst |-> u.inst, live |-> u.live /\ u.inst \notin I]
    BY DEF Without
  <2>2. t \in Target
    BY <1>1, <2>1
  <2>3. u.inst = t.inst /\ (t.live => u.live /\ t.inst \notin I)
    BY <2>1
  <2> QED
    BY <2>2, <2>3
<1>5. T = {} => Without(T, I) = {}
  BY DEF Without
<1> QED
  BY <1>2, <1>3, <1>4, <1>5

\* The end of a session keeps the invariant.
LEMMA DisconnectKeepsInv ==
  ASSUME NEW i \in Instances, ClusterInv, Disconnect(i)
  PROVE  ClusterInv'
<1> USE DEF ClusterInv, Disconnect, EndSessions, procVars, busVars, relVars, trackVars
<1>0. \A m \in Nodes :
        /\ targets'[m] = Without(targets[m], {i}) /\ targets'[m] \in SUBSET Target
        /\ targets[m] = {} => targets'[m] = {}
        /\ \A t \in targets'[m] : \E u \in targets[m] :
             u.inst = t.inst /\ (t.live => u.live /\ t.inst # i)
        /\ \A j \in Instances : LiveTarget(m, j)' <=> LiveTarget(m, j) /\ j # i
  <2> TAKE m \in Nodes
  <2>1. targets'[m] = Without(targets[m], {i}) /\ targets[m] \in SUBSET Target
    BY DEF TypeOK
  <2> QED
    BY <2>1, WithoutEffect DEF LiveTarget
<1>1. (TypeOK /\ CallsOK)'
  <2>1. /\ session' \in [Instances -> Nodes \cup {None}] /\ present' \in [Events -> SUBSET Instances]
        /\ heard' \in [Instances -> SUBSET Events] /\ missed' \in [Instances -> SUBSET Events]
    BY DEF TypeOK
  <2>2. targets' \in [Nodes -> SUBSET Target]
    BY <1>0
  <2> QED
    BY <2>1, <2>2 DEF TypeOK, CallsOK
<1>2. OutboxOK'
  <2>1. \A e \in Events : Nowhere(e) => Nowhere(e)'
    BY DEF TypeOK, Nowhere, Done
  <2> QED
    BY <2>1, EventsDiffer DEF TypeOK, OutboxOK, Announced
<1>4. \A m \in Nodes : NodeOK(m)'
  <2> TAKE m \in Nodes
  <2>0. NodeOK(m)
    OBVIOUS
  <2>1. ASSUME NEW t \in targets'[m]
        PROVE  /\ t.live => session'[t.inst] = m
               /\ event[m] = GrayChange => t.inst \in release.selected
    <3>1. PICK u \in targets[m] : u.inst = t.inst /\ (t.live => u.live /\ t.inst # i)
      BY <1>0
    <3>2. t.inst \in Instances
      BY <1>0 DEF Target
    <3> QED
      BY <2>0, <3>1, <3>2 DEF NodeOK
  <2> QED
    BY <1>0, <2>0, <2>1 DEF NodeOK, Done
<1>5. \A m \in Nodes : OrderOK(m)'
  BY DEF OrderOK, GrayFirst
<1>6. \A j \in Instances : HeardOK(j)'
  BY <1>0 DEF HeardOK, TypeOK
<1>7. \A j \in Instances : PresentOK(j)'
  <2> TAKE j \in Instances
  <2>1. CASE j = i
    BY <2>1 DEF PresentOK
  <2>2. CASE j # i
    <3>1. session'[j] = session[j] /\ heard'[j] = heard[j] /\ missed'[j] = missed[j]
      BY <2>2 DEF TypeOK
    <3>2. \A e \in Events : j \in present'[e] <=> j \in present[e]
      BY <2>2
    <3>3. \A e \in Events : j \in present[e] => session[j] \in Nodes
      BY DEF PresentOK
    <3> QED
      BY <1>0, <2>2, <3>1, <3>2, <3>3 DEF PresentOK, Refused, Done, GrayFirst
  <2> QED
    BY <2>1, <2>2
<1>8. (HeardOnce /\ CountCoversPushed)'
  BY DEF HeardOnce, CountCoversPushed
<1> QED
  BY <1>1, <1>2, <1>4, <1>5, <1>6, <1>7, <1>8

\* The end of a process keeps the invariant.
LEMMA DieKeepsInv ==
  ASSUME NEW n \in Nodes, ClusterInv, Die(n)
  PROVE  ClusterInv'
<1> USE DEF ClusterInv, Die, EndSessions, trackVars
<1>1. (TypeOK /\ CallsOK)'
  BY QueueEmpty DEF TypeOK, CallsOK
<1>2. \A m \in Nodes, e \in Events : Done(m, e) => Done(m, e)'
  BY QueueEmpty, EventsDiffer DEF Done, TypeOK
<1>3. OutboxOK'
  <2>1. \A e \in Events : Nowhere(e) => Nowhere(e)'
    BY <1>2 DEF TypeOK, Nowhere
  <2>2. \A e \in Events : Announced(e) => Announced(e)'
    BY DEF Announced
  <2>3. outbox' \subseteq outbox /\ first' = first /\ \A o \in outbox : o.event \in Events
    BY DEF TypeOK
  <2> QED
    BY <2>1, <2>2, <2>3, EventsDiffer DEF OutboxOK
<1>4. \A m \in Nodes, j \in Instances : LiveTarget(m, j)' <=> LiveTarget(m, j) /\ m # n
  BY DEF TypeOK, LiveTarget
<1>5. \A m \in Nodes : NodeOK(m)'
  <2> TAKE m \in Nodes
  <2>1. CASE m = n
    BY <1>2, <2>1, QueueEmpty, EventsDiffer, ClusterAssumption DEF NodeOK, TypeOK
  <2>2. CASE m # n
    BY <1>2, <2>2 DEF NodeOK, TypeOK, Target
  <2> QED
    BY <2>1, <2>2
<1>6. \A m \in Nodes : OrderOK(m)'
  BY QueueEmpty, EventsDiffer, ClusterAssumption DEF OrderOK, GrayFirst, TypeOK
<1>7. \A j \in Instances : HeardOK(j)'
  BY <1>4 DEF HeardOK, TypeOK
<1>8. \A j \in Instances : PresentOK(j)'
  BY <1>4 DEF PresentOK, TypeOK, Refused, Done, GrayFirst
<1>9. (HeardOnce /\ CountCoversPushed)'
  BY DEF HeardOnce, CountCoversPushed
<1> QED
  BY <1>1, <1>3, <1>5, <1>6, <1>7, <1>8, <1>9

-----------------------------------------------------------------------------
\* The release and the calls about it change, and an event may join the outbox:
\* what was announced stays announced, and the new event was nowhere.
LEMMA ServiceKeepsInv ==
  ASSUME ClusterInv, UNCHANGED <<procVars, busVars, nodeVars, sessVars, trackVars>>,
         release' \in Release, calls' \in SUBSET Call, CallsOK',
         \A f \in Events : Announced(f) => Announced(f)',
         release.promoted => release'.promoted,
         release.status # "none" => release'.selected = release.selected,
         \/ outbox' = outbox
         \/ \E n \in Nodes, e \in Events : Announce(n, e) /\ ~Announced(e) /\ Announced(e)'
  PROVE  ClusterInv'
<1> USE DEF ClusterInv, procVars, busVars, nodeVars, sessVars, trackVars
<1>1. (TypeOK /\ CallsOK)'
  BY DEF TypeOK, Announce
<1>2. \A f \in Events : Nowhere(f)' <=> Nowhere(f)
  BY DEF Nowhere, Done
<1>5. OutboxOK'
  <2>1. CASE outbox' = outbox
    BY <1>2, <2>1, EventsDiffer DEF OutboxOK, TypeOK
  <2>2. ASSUME NEW n \in Nodes, NEW e \in Events, Announce(n, e), ~Announced(e), Announced(e)'
        PROVE  OutboxOK'
    <3>1. outbox' = outbox \cup {[event |-> e, node |-> n]}
      BY <2>2 DEF Announce
    <3>2. Nowhere(e) /\ \A o \in outbox : o.event # e /\ o.event \in Events
      BY <2>2 DEF OutboxOK, TypeOK
    <3>3. \A f \in Events : ~Announced(f)' => Nowhere(f)' /\ \A o \in outbox' : o.event # f
      BY <1>2, <2>2, <3>1 DEF OutboxOK
    <3>4. \A o \in outbox' : Nowhere(o.event)'
      BY <1>2, <3>1, <3>2 DEF OutboxOK
    <3>5. \A o, q \in outbox' : o.event = q.event => o = q
      BY <3>1, <3>2 DEF OutboxOK
    <3> QED
      BY <1>2, <3>3, <3>4, <3>5, EventsDiffer DEF OutboxOK
  <2> QED
    BY <2>1, <2>2
<1>6. release'.selected = release.selected
        \/ (Nowhere(GrayChange) /\ marked \subseteq release'.selected)
  <2>1. release.status = "none" => Nowhere(GrayChange) /\ marked = {}
    BY EventsDiffer DEF OutboxOK, CallsOK, Announced, CountCoversPushed
  <2> QED
    BY <2>1
<1>7. \A m \in Nodes : NodeOK(m)'
  BY <1>6 DEF NodeOK, Done, Nowhere
<1>8. \A m \in Nodes : OrderOK(m)'
  BY DEF OrderOK, GrayFirst
<1>9. \A j \in Instances : HeardOK(j)'
  BY DEF HeardOK, LiveTarget
<1>10. \A j \in Instances : PresentOK(j)'
  BY <1>6, EventsDiffer DEF PresentOK, LiveTarget, Refused, Done, GrayFirst, Nowhere
<1>11. (HeardOnce /\ CountCoversPushed)'
  BY <1>6 DEF HeardOnce, CountCoversPushed
<1> QED
  BY <1>1, <1>5, <1>7, <1>8, <1>9, <1>10, <1>11

\* The operator's steps keep the invariant.
LEMMA OperatorKeepsInv ==
  ASSUME NEW n \in Nodes, ClusterInv, OperatorStep(n)
  PROVE  ClusterInv'
<1> USE DEF ClusterInv
<1>1. ASSUME NEW S \in SUBSET Instances, OpenGray(n, S) PROVE ClusterInv'
  <2>1. /\ release' = [release EXCEPT !.status = "gray", !.selected = S] /\ calls' = calls
        /\ release.status = "none" /\ Announce(n, GrayChange)
        /\ UNCHANGED <<procVars, busVars, nodeVars, sessVars, trackVars>>
    BY <1>1 DEF OpenGray
  <2>2. /\ release' \in Release /\ release'.status = "gray"
        /\ release'.promoted = release.promoted /\ release'.withdrawn = release.withdrawn
    BY <2>1 DEF TypeOK, Release
  <2>3. CallsOK'
    BY <2>1, <2>2 DEF CallsOK
  <2>4. ~Announced(GrayChange) /\ Announced(GrayChange)'
    BY <2>1, <2>2, EventsDiffer DEF Announced
  <2>5. \A f \in Events : Announced(f) => Announced(f)'
    BY <2>1, <2>2 DEF Announced
  <2> QED
    BY <2>1, <2>2, <2>3, <2>4, <2>5, EventsDiffer, ServiceKeepsInv DEF TypeOK
<1>2. ASSUME NEW o \in Operators, NEW to \in {"promote", "rollback"}, Ask(o, n, to)
      PROVE  ClusterInv'
  <2> DEFINE k == [by |-> o, node |-> n, at |-> to]
  <2>1. /\ calls' = calls \cup {k} /\ \A c \in calls : c.by # o
        /\ release.status = "gray" /\ release' = release /\ outbox' = outbox
        /\ UNCHANGED <<procVars, busVars, nodeVars, sessVars, trackVars>>
    BY <1>2 DEF Ask
  <2>2. k \in Call /\ k.by = o /\ k.at # "withdrawn"
    BY DEF Call
  <2> HIDE DEF k
  <2>3. CallsOK'
    BY <2>1, <2>2 DEF CallsOK
  <2>4. \A f \in Events : Announced(f) => Announced(f)'
    BY <2>1, <2>2 DEF Announced, CallsOK
  <2>5. calls' \in SUBSET Call /\ release' \in Release
    BY <2>1, <2>2 DEF TypeOK
  <2> QED
    BY <2>1, <2>3, <2>4, <2>5, ServiceKeepsInv
<1> QED
  BY <1>1, <1>2 DEF OperatorStep

\* The steps of an operator's call keep the invariant.
LEMMA CallKeepsInv ==
  ASSUME NEW c \in calls, ClusterInv, CallStep(c)
  PROVE  ClusterInv'
<1> USE DEF ClusterInv
<1>0. c \in Call /\ c.by \in Operators /\ c.node \in Nodes /\ release \in Release
  BY DEF TypeOK, Call
<1>1. CASE Promote(c)
  <2>1. /\ c.at = "promote" /\ calls' = calls \ {c}
        /\ release' = [release EXCEPT !.status = "promoted", !.promoted = TRUE]
        /\ Announce(c.node, PromoteBy(c.by))
        /\ UNCHANGED <<procVars, busVars, nodeVars, sessVars, trackVars>>
    BY <1>1 DEF Promote
  <2>2. /\ release' \in Release /\ release'.status = "promoted" /\ release'.promoted = TRUE
        /\ release'.withdrawn = release.withdrawn /\ release'.selected = release.selected
    BY <1>0, <2>1 DEF Release
  <2>3. CallsOK'
    BY <2>1, <2>2 DEF CallsOK
  <2>4. ~Announced(PromoteBy(c.by)) /\ Announced(PromoteBy(c.by))'
    BY <1>0, <2>1, <2>2, EventsDiffer DEF Announced, CallsOK
  <2>5. \A f \in Events : Announced(f) => Announced(f)'
    BY <2>1, <2>2 DEF Announced, CallsOK
  <2> QED
    BY <1>0, <2>1, <2>2, <2>3, <2>4, <2>5, EventsDiffer, ServiceKeepsInv DEF TypeOK
<1>2. CASE Withdraw(c)
  <2> DEFINE k == [c EXCEPT !.at = "withdrawn"]
  <2>1. /\ c.at = "rollback" /\ ~release.withdrawn /\ calls' = (calls \ {c}) \cup {k}
        /\ release' = [release EXCEPT !.withdrawn = TRUE] /\ outbox' = outbox
        /\ UNCHANGED <<procVars, busVars, nodeVars, sessVars, trackVars>>
    BY <1>2 DEF Withdraw
  <2>2. /\ release' \in Release /\ release'.status = release.status
        /\ release'.promoted = release.promoted /\ release'.withdrawn = TRUE
        /\ release'.selected = release.selected
    BY <1>0, <2>1 DEF Release
  <2>3. k \in Call /\ k.by = c.by /\ k.at = "withdrawn"
    BY <1>0 DEF Call
  <2> HIDE DEF k
  <2>4. CallsOK'
    <3>1. release.status # "none" /\ \A d \in calls : d.at # "withdrawn"
      BY <2>1 DEF CallsOK
    <3> QED
      BY <2>1, <2>2, <2>3, <3>1 DEF CallsOK
  <2>5. \A f \in Events : Announced(f) => Announced(f)'
    BY <2>1, <2>2, <2>3, EventsDiffer DEF Announced
  <2>6. calls' \in SUBSET Call
    BY <2>1, <2>3 DEF TypeOK
  <2> QED
    BY <2>1, <2>2, <2>4, <2>5, <2>6, ServiceKeepsInv
<1>3. CASE GrayRollback(c)
  <2>1. /\ c.at = "withdrawn" /\ calls' = calls \ {c}
        /\ release' = [release EXCEPT !.status = "rolled_back"]
        /\ Announce(c.node, Recall)
        /\ UNCHANGED <<procVars, busVars, nodeVars, sessVars, trackVars>>
    BY <1>3 DEF GrayRollback
  <2>2. /\ release' \in Release /\ release'.status = "rolled_back"
        /\ release'.promoted = release.promoted
        /\ release'.withdrawn = release.withdrawn /\ release'.selected = release.selected
    BY <1>0, <2>1 DEF Release
  <2>3. CallsOK'
    BY <2>1, <2>2 DEF CallsOK
  <2>4. ~Announced(Recall) /\ Announced(Recall)'
    BY <1>0, <2>1, <2>2, EventsDiffer DEF Announced, CallsOK
  <2>5. \A f \in Events : Announced(f) => Announced(f)'
    BY <2>1, <2>2 DEF Announced, CallsOK
  <2> QED
    BY <1>0, <2>1, <2>2, <2>3, <2>4, <2>5, EventsDiffer, ServiceKeepsInv DEF TypeOK
<1>4. CASE GiveUp(c)
  <2>1. /\ calls' = calls \ {c} /\ release' = release /\ outbox' = outbox
        /\ UNCHANGED <<procVars, busVars, nodeVars, sessVars, trackVars>>
    BY <1>4 DEF GiveUp
  <2>2. CallsOK'
    BY <2>1 DEF CallsOK
  <2>3. \A f \in Events : Announced(f) => Announced(f)'
    BY <2>1 DEF Announced
  <2> QED
    BY <1>0, <2>1, <2>2, <2>3, ServiceKeepsInv DEF TypeOK
<1> QED
  BY <1>1, <1>2, <1>3, <1>4 DEF CallStep

\* The tracker's loss of the release's set keeps the invariant.
LEMMA ExpireKeepsInv ==
  ASSUME ClusterInv, Expire
  PROVE  ClusterInv'
<1> USE DEF ClusterInv, Expire, procVars, busVars, nodeVars, sessVars, relVars
<1>1. (TypeOK /\ CallsOK)'
  BY DEF TypeOK, CallsOK
<1>2. OutboxOK'
  BY DEF OutboxOK, Announced, Nowhere, Done
<1>3. \A n \in Nodes : NodeOK(n)' /\ OrderOK(n)'
  BY DEF NodeOK, OrderOK, GrayFirst, Done
<1>4. \A i \in Instances : HeardOK(i)' /\ PresentOK(i)'
  BY DEF HeardOK, PresentOK, LiveTarget, Refused, Done, GrayFirst
<1>5. (HeardOnce /\ CountCoversPushed)'
  BY DEF HeardOnce, CountCoversPushed
<1> QED
  BY <1>1, <1>2, <1>3, <1>4, <1>5

-----------------------------------------------------------------------------
\* The publication of an event keeps the invariant: it was nowhere, and every
\* session present on a node it is sent to finds it in that node's queue.
LEMMA PublishKeepsInv ==
  ASSUME NEW o \in outbox, NEW R \in SUBSET consuming, ClusterInv, Publish(o, R)
  PROVE  ClusterInv'
<1> DEFINE e == o.event
<1> USE DEF ClusterInv, Publish, procVars, nodeVars, trackVars
<1>1. e \in Events /\ Nowhere(e) /\ R \in SUBSET Nodes /\ Announced(e)
  BY DEF TypeOK, OutboxOK
<1>2. \A n \in Nodes :
        /\ wire'[n] \in Seq(Events) /\ NoRepeat(wire'[n])
        /\ Range(wire'[n]) = IF n \in R THEN Range(wire[n]) \cup {e} ELSE Range(wire[n])
        /\ GrayAhead(wire[n]) /\ (e = GrayChange => Recall \notin Range(wire[n]))
             => GrayAhead(wire'[n])
  <2> TAKE n \in Nodes
  <2>1. wire'[n] = IF n \in R THEN Append(wire[n], e) ELSE wire[n]
    BY DEF Send
  <2>2. wire[n] \in Seq(Events) /\ NoRepeat(wire[n]) /\ e \notin Range(wire[n])
    BY <1>1 DEF TypeOK, NodeOK, Nowhere, Done
  <2> HIDE DEF e
  <2> QED
    BY <1>1, <2>1, <2>2, QueueAppend
<1>3. first' = IF first = None /\ e \in {GrayChange, Recall} THEN e ELSE first
  OBVIOUS
<1>4. /\ present' = [present EXCEPT ![e] = {i \in Instances : session[i] \in R}]
      /\ outbox' = outbox \ {o}
      /\ UNCHANGED <<chan, event, targets, session, heard, missed, release, calls, marked, got, twice, faulty>>
  OBVIOUS
<1>5. (TypeOK /\ CallsOK)'
  BY <1>1, <1>2, <1>3, <1>4 DEF TypeOK, Send, CallsOK
<1>0. ClusterInv /\ o \in outbox /\ e = o.event
  OBVIOUS
<1> HIDE DEF e, Publish, procVars, nodeVars, trackVars
<1>6. \A f \in Events : f # e /\ Nowhere(f) => Nowhere(f)'
  <2> TAKE f \in Events
  <2> SUFFICES ASSUME f # e, Nowhere(f) PROVE Nowhere(f)'
    OBVIOUS
  <2>1. \A n \in Nodes : Done(n, f)'
    <3>1. \A n \in Nodes : Range(wire'[n]) \subseteq Range(wire[n]) \cup {e}
      BY <1>2
    <3> QED
      BY <1>4, <3>1 DEF Nowhere, Done
  <2>2. present'[f] = {} /\ first' # f
    BY <1>1, <1>3, <1>4 DEF Nowhere, TypeOK
  <2> QED
    BY <1>4, <2>1, <2>2 DEF Nowhere
<1>7. OutboxOK'
  <2>1. \A q \in outbox' : q.event \in Events /\ q.event # e /\ Nowhere(q.event)
    BY <1>0, <1>4 DEF OutboxOK, TypeOK
  <2>2. \A f \in Events : Announced(f)' <=> Announced(f)
    BY <1>4 DEF Announced
  <2>3. first' = None => Nowhere(GrayChange)' /\ Nowhere(Recall)'
    <3>1. first' = None => first = None /\ e # GrayChange /\ e # Recall
      BY <1>1, <1>3, EventsDiffer
    <3> QED
      BY <1>6, <3>1, EventsDiffer DEF OutboxOK
  <2> QED
    BY <1>1, <1>4, <1>6, <2>1, <2>2, <2>3 DEF OutboxOK
<1>8. \A n \in Nodes : NodeOK(n)'
  <2> TAKE n \in Nodes
  <2>1. NodeOK(n) /\ Done(n, e)
    BY <1>1 DEF Nowhere
  <2>3. Range(wire'[n]) \subseteq Range(wire[n]) \cup {e}
    BY <1>2
  <2> QED
    BY <1>2, <1>4, <2>1, <2>3 DEF NodeOK, Done
<1>9. GrayFirst' => GrayFirst \/ (e = GrayChange /\ first = None)
  BY <1>3, EventsDiffer DEF GrayFirst
<1>10. \A n \in Nodes : OrderOK(n)'
  <2> TAKE n \in Nodes
  <2>1. CASE e = GrayChange /\ first = None
    <3>1. Done(n, GrayChange) /\ Done(n, Recall)
      BY <2>1 DEF OutboxOK, Nowhere
    <3>2. Recall \notin Range(wire'[n]) \cup Range(chan'[n]) /\ event'[n] # Recall
      BY <1>2, <1>4, <2>1, <3>1, EventsDiffer DEF Done
    <3> QED
      BY <1>4, <3>2 DEF OrderOK, GrayAhead, Range
  <2>2. CASE GrayFirst
    <3>1. e # GrayChange
      BY <1>1, <2>2 DEF GrayFirst, Nowhere
    <3> QED
      <4>1. OrderOK(n) /\ (Range(wire'[n]) \subseteq Range(wire[n]) \cup {e})
        BY <1>2
      <4> QED
        BY <1>2, <1>4, <2>2, <3>1, <4>1 DEF OrderOK
  <2>3. CASE ~GrayFirst'
    BY <2>3 DEF OrderOK
  <2> QED
    BY <1>9, <2>1, <2>2, <2>3
<1>11. \A i \in Instances : HeardOK(i)'
  BY <1>1, <1>2, <1>4 DEF HeardOK, LiveTarget, Nowhere
<1>12. \A i \in Instances : PresentOK(i)'
  <2> TAKE i \in Instances
  <2> SUFFICES ASSUME NEW f \in Events, i \in present'[f]
               PROVE  /\ session'[i] \in Nodes
                      /\ \/ f \in heard'[i] \cup missed'[i] \/ Refused(i, f)'
                         \/ f \in Range(wire'[session'[i]]) \cup Range(chan'[session'[i]])
                         \/ event'[session'[i]] = f /\ LiveTarget(session[i], i)'
    BY DEF PresentOK
  <2>1. CASE f = e
    BY <1>1, <1>2, <1>3, <1>4, <2>1 DEF TypeOK
  <2>2. CASE f # e
    <3>1. i \in present[f] /\ session[i] \in Nodes
      BY <1>1, <1>4, <2>2 DEF PresentOK, TypeOK
    <3>3. f = Recall /\ GrayFirst' => GrayFirst /\ e # GrayChange
      <4>1. first = None => f # Recall
        BY <3>1 DEF OutboxOK, Nowhere
      <4> QED
        BY <1>1, <1>9, <4>1 DEF Nowhere, GrayFirst
    <3>4. Refused(i, f) => Refused(i, f)'
      <4>1. f = Recall /\ GrayFirst' => (Done(session[i], GrayChange) => Done(session[i], GrayChange)')
        <5>1. session'[i] = session[i] /\ event' = event /\ chan' = chan
          BY <1>4
        <5>2. f = Recall /\ GrayFirst' => (Range(wire'[session[i]]) \subseteq Range(wire[session[i]]) \cup {e})
          BY <1>2, <3>1
        <5> QED
          BY <3>3, <5>1, <5>2, EventsDiffer DEF Done
      <4> QED
        BY <1>4, <3>3, <4>1 DEF Refused
    <3>5. Range(wire[session[i]]) \subseteq Range(wire'[session[i]])
      BY <1>2, <3>1
    <3>6. \/ f \in heard[i] \cup missed[i] \/ Refused(i, f)
          \/ f \in Range(wire[session[i]]) \cup Range(chan[session[i]])
          \/ event[session[i]] = f /\ LiveTarget(session[i], i)
      BY <3>1 DEF PresentOK
    <3> QED
      BY <1>3, <1>4, <3>1, <3>4, <3>5, <3>6 DEF LiveTarget
  <2> QED
    BY <2>1, <2>2
<1>13. (HeardOnce /\ CountCoversPushed)'
  BY <1>4 DEF HeardOnce, CountCoversPushed
<1> QED
  BY <1>5, <1>7, <1>8, <1>10, <1>11, <1>12, <1>13

-----------------------------------------------------------------------------
\* An event that goes from the wire to the channel stays in the node's queues.
LEMMA ForwardKeepsInv ==
  ASSUME NEW n \in Nodes, ClusterInv, Forward(n)
  PROVE  ClusterInv'
<1> DEFINE e == Head(wire[n])
<1> USE DEF ClusterInv
<1>1. /\ wire' = [wire EXCEPT ![n] = Tail(wire[n])]
      /\ chan' = [chan EXCEPT ![n] = Append(chan[n], e)]
      /\ UNCHANGED <<procVars, first, nodeVars, sessVars, relVars, trackVars>>
      /\ wire[n] \in Seq(Events) /\ wire[n] # <<>> /\ chan[n] \in Seq(Events)
  BY DEF Forward, TypeOK
<1>2. /\ wire'[n] \in Seq(Events) /\ e \in Events /\ e \in Range(wire[n])
      /\ Range(wire[n]) = Range(wire'[n]) \cup {e} /\ e \notin Range(wire'[n])
      /\ NoRepeat(wire'[n])
      /\ GrayAhead(wire[n]) => GrayAhead(wire'[n])
                               /\ (e = Recall => GrayChange \notin Range(wire[n]))
  <2>1. wire'[n] = Tail(wire[n]) /\ NoRepeat(wire[n])
    BY <1>1 DEF TypeOK, NodeOK
  <2> QED
    BY <1>1, <2>1, QueueTail
<1> HIDE DEF e
<1>3. /\ chan'[n] \in Seq(Events) /\ Range(chan'[n]) = Range(chan[n]) \cup {e}
      /\ NoRepeat(chan'[n])
      /\ GrayAhead(chan[n]) /\ (e = GrayChange => Recall \notin Range(chan[n]))
           => GrayAhead(chan'[n])
  <2>1. chan'[n] = Append(chan[n], e)
    BY <1>1 DEF TypeOK
  <2>2. NoRepeat(chan[n]) /\ e \notin Range(chan[n])
    BY <1>2 DEF NodeOK
  <2> QED
    BY <1>1, <1>2, <2>1, <2>2, QueueAppend
<1>4. /\ \A m \in Nodes : m # n => wire'[m] = wire[m] /\ chan'[m] = chan[m]
      /\ UNCHANGED <<first, event, targets, session, heard, missed, present, release,
                     calls, outbox, marked, got, twice, faulty>>
  BY <1>1 DEF TypeOK, procVars, nodeVars, sessVars, relVars, trackVars
<1>5. \A m \in Nodes :
        Range(wire'[m]) \cup Range(chan'[m]) = Range(wire[m]) \cup Range(chan[m])
  BY <1>2, <1>3, <1>4
<1>6. \A m \in Nodes : \A f : Done(m, f)' <=> Done(m, f)
  BY <1>4, <1>5 DEF Done
<1>7. (TypeOK /\ CallsOK)'
  <2>1. wire' \in [Nodes -> Seq(Events)] /\ chan' \in [Nodes -> Seq(Events)]
    BY <1>1, <1>2, <1>3 DEF TypeOK
  <2> QED
    BY <1>1, <2>1 DEF TypeOK, CallsOK, procVars, nodeVars, sessVars, relVars, trackVars
<1>8. OutboxOK'
  BY <1>4, <1>6 DEF OutboxOK, Announced, Nowhere
<1>9. \A m \in Nodes : NodeOK(m)'
  <2> TAKE m \in Nodes
  <2>1. NodeOK(m)
    OBVIOUS
  <2>2. NoRepeat(wire'[m]) /\ NoRepeat(chan'[m])
    BY <1>2, <1>3, <1>4, <2>1 DEF NodeOK
  <2>3. Range(wire'[m]) \cap Range(chan'[m]) = {}
    BY <1>2, <1>3, <1>4, <2>1 DEF NodeOK
  <2> QED
    BY <1>4, <1>5, <1>6, <2>1, <2>2, <2>3 DEF NodeOK
<1>10. \A m \in Nodes : OrderOK(m)'
  <2> TAKE m \in Nodes
  <2>1. OrderOK(m)
    OBVIOUS
  <2>2. CASE m = n
    BY <1>2, <1>3, <1>4, <2>1, <2>2 DEF OrderOK, GrayFirst
  <2>3. CASE m # n
    BY <1>4, <2>1, <2>3 DEF OrderOK, GrayFirst
  <2> QED
    BY <2>2, <2>3
<1>11. \A i \in Instances : HeardOK(i)'
  BY <1>4, <1>5 DEF HeardOK, LiveTarget
<1>12. \A i \in Instances : PresentOK(i)'
  <2> TAKE i \in Instances
  <2>1. \A f \in Events : session[i] \in Nodes /\ Refused(i, f) => Refused(i, f)'
    <3>1. session[i] \in Nodes => (Done(session[i], GrayChange) => Done(session[i], GrayChange)')
      BY <1>4, <1>5 DEF Done
    <3> QED
      BY <1>4, <3>1 DEF Refused, GrayFirst
  <2> QED
    BY <1>4, <1>5, <2>1 DEF PresentOK, LiveTarget
<1>13. (HeardOnce /\ CountCoversPushed)'
  BY <1>4 DEF HeardOnce, CountCoversPushed
<1> QED
  BY <1>7, <1>8, <1>9, <1>10, <1>11, <1>12, <1>13

\* Picking the targets of an event keeps the invariant: whoever is not picked
\* was refused by the gate.
LEMMA TakeEventKeepsInv ==
  ASSUME NEW n \in Nodes, NEW unread \in SUBSET Instances, ClusterInv, TakeEvent(n, unread)
  PROVE  ClusterInv'
<1> DEFINE e == Head(chan[n])
           T == Let(n, e, unread)
           M == Let(n, e, {}) \ T
<1> USE DEF ClusterInv
<1>1. /\ event[n] = None /\ chan[n] \in Seq(Events) /\ chan[n] # <<>>
      /\ targets' = [targets EXCEPT ![n] = {[inst |-> i, live |-> TRUE] : i \in T}]
      /\ event' = [event EXCEPT ![n] = IF T = {} THEN None ELSE e]
      /\ chan' = [chan EXCEPT ![n] = Tail(chan[n])]
      /\ missed' = [i \in Instances |-> IF i \in M THEN missed[i] \cup {e} ELSE missed[i]]
      /\ UNCHANGED <<procVars, wire, first, session, heard, present, relVars, trackVars>>
  BY DEF TakeEvent, TypeOK
<1>2. /\ chan'[n] \in Seq(Events) /\ e \in Events /\ e \in Range(chan[n])
      /\ Range(chan[n]) = Range(chan'[n]) \cup {e} /\ e \notin Range(chan'[n])
      /\ NoRepeat(chan'[n])
      /\ GrayAhead(chan[n]) => GrayAhead(chan'[n])
                               /\ (e = Recall => GrayChange \notin Range(chan[n]))
  <2>1. chan'[n] = Tail(chan[n]) /\ NoRepeat(chan[n])
    BY <1>1 DEF TypeOK, NodeOK
  <2> QED
    BY <1>1, <2>1, QueueTail
<1>3. /\ event'[n] = IF T = {} THEN None ELSE e
      /\ targets'[n] = {[inst |-> i, live |-> TRUE] : i \in T}
      /\ \A i \in T : session[i] = n /\ Accepts(e, i, i \notin unread)
      /\ \A i \in Instances : session[i] = n /\ Accepts(e, i, TRUE) => i \in T \cup M
      /\ T \subseteq Instances /\ M \subseteq Instances
      /\ \A i \in Instances : missed'[i] = IF i \in M THEN missed[i] \cup {e} ELSE missed[i]
  BY <1>1 DEF TypeOK, Let
<1>4. e # None /\ targets[n] = {} /\ Range(wire[n]) \cap Range(chan[n]) = {}
  BY <1>1, <1>2, EventsDiffer, ClusterAssumption DEF NodeOK
<1> HIDE DEF e, T, M
<1>5. /\ \A m \in Nodes : m # n => /\ chan'[m] = chan[m] /\ event'[m] = event[m]
                                   /\ targets'[m] = targets[m]
      /\ UNCHANGED <<wire, first, session, heard, present, release,
                     calls, outbox, marked, got, twice, faulty>>
  BY <1>1 DEF TypeOK, procVars, relVars, trackVars
<1>6. /\ \A i \in Instances : LiveTarget(n, i)' <=> i \in T
      /\ \A t \in targets'[n] : t.inst \in T /\ t \in Target
      /\ T = {} => targets'[n] = {}
  <2>1. ASSUME NEW i \in Instances PROVE LiveTarget(n, i)' <=> i \in T
    <3>1. ASSUME NEW j \in T, [inst |-> i, live |-> TRUE] = [inst |-> j, live |-> TRUE]
          PROVE  i = j
      BY <3>1
    <3> QED
      BY <1>3, <3>1 DEF LiveTarget
  <2>2. ASSUME NEW t \in targets'[n] PROVE t.inst \in T /\ t \in Target
    <3>1. PICK i \in T : t = [inst |-> i, live |-> TRUE]
      BY <1>3
    <3>2. t.inst = i /\ i \in Instances
      BY <1>3, <3>1
    <3> QED
      BY <3>1, <3>2 DEF Target
  <2>3. T = {} => targets'[n] = {}
    BY <1>3
  <2> QED
    BY <2>1, <2>2, <2>3
<1>7. \A m \in Nodes, f \in Events : Done(m, f) => Done(m, f)'
  BY <1>2, <1>3, <1>5, EventsDiffer, ClusterAssumption DEF Done
<1>8. (TypeOK /\ CallsOK)'
  <2>1. chan' \in [Nodes -> Seq(Events)] /\ event' \in [Nodes -> Events \cup {None}]
        /\ targets' \in [Nodes -> SUBSET Target]
        /\ missed' \in [Instances -> SUBSET Events]
    BY <1>1, <1>2, <1>3, <1>6 DEF TypeOK
  <2> QED
    BY <1>1, <2>1 DEF TypeOK, CallsOK, procVars, relVars, trackVars
<1>9. OutboxOK'
  <2>1. \A f \in Events : Nowhere(f) => Nowhere(f)'
    BY <1>5, <1>7 DEF Nowhere
  <2> QED
    BY <1>5, <2>1, EventsDiffer DEF TypeOK, OutboxOK, Announced
<1>10. \A m \in Nodes : NodeOK(m)'
  <2> TAKE m \in Nodes
  <2>1. NodeOK(m)
    OBVIOUS
  <2>2. CASE m = n
    <3>2. \A t \in targets'[n] : session[t.inst] = n /\ (e = GrayChange => t.inst \in release.selected)
      BY <1>3, <1>6 DEF Accepts
    <3>3. NoRepeat(wire[n]) /\ None \notin Range(wire[n]) \cup Range(chan'[n])
      BY <1>1, <1>2, <2>1, <2>2 DEF NodeOK
    <3> QED
      BY <1>2, <1>3, <1>4, <1>5, <1>6, <2>1, <2>2, <3>2, <3>3, EventsDiffer DEF NodeOK
  <2>3. CASE m # n
    BY <1>5, <2>1, <2>3 DEF NodeOK
  <2> QED
    BY <2>2, <2>3
<1>11. \A m \in Nodes : OrderOK(m)'
  <2> TAKE m \in Nodes
  <2>1. OrderOK(m)
    OBVIOUS
  <2>2. CASE m = n
    BY <1>2, <1>3, <1>4, <1>5, <2>1, <2>2, EventsDiffer, ClusterAssumption DEF OrderOK, GrayFirst
  <2>3. CASE m # n
    BY <1>5, <2>1, <2>3 DEF OrderOK, GrayFirst
  <2> QED
    BY <2>2, <2>3
<1>12. \A i \in Instances : HeardOK(i)'
  <2> TAKE i \in Instances
  <2> SUFFICES ASSUME NEW f \in heard[i]
               PROVE  /\ session[i] \in Nodes
                      /\ f \notin Range(wire[session[i]]) \cup Range(chan'[session[i]])
                      /\ event'[session[i]] = f => ~LiveTarget(session[i], i)'
    BY <1>5 DEF HeardOK
  <2>1. /\ session[i] \in Nodes
        /\ f \notin Range(wire[session[i]]) \cup Range(chan[session[i]])
        /\ event[session[i]] = f => ~LiveTarget(session[i], i)
    BY DEF HeardOK
  <2>2. CASE session[i] = n
    BY <1>2, <1>3, <1>5, <1>6, <2>1, <2>2 DEF LiveTarget
  <2>3. CASE session[i] # n
    BY <1>5, <2>1, <2>3 DEF LiveTarget
  <2> QED
    BY <2>2, <2>3
<1>13. \A i \in Instances : PresentOK(i)'
  <2> TAKE i \in Instances
  <2> SUFFICES ASSUME NEW f \in Events, i \in present[f]
               PROVE  /\ session[i] \in Nodes
                      /\ \/ f \in heard[i] \cup missed'[i] \/ Refused(i, f)'
                         \/ f \in Range(wire[session[i]]) \cup Range(chan'[session[i]])
                         \/ event'[session[i]] = f /\ LiveTarget(session[i], i)'
    BY <1>5 DEF PresentOK
  <2>1. /\ session[i] \in Nodes
        /\ \/ f \in heard[i] \cup missed[i] \/ Refused(i, f)
           \/ f \in Range(wire[session[i]]) \cup Range(chan[session[i]])
           \/ event[session[i]] = f /\ LiveTarget(session[i], i)
    BY DEF PresentOK
  <2>0. missed[i] \subseteq missed'[i]
    BY <1>3
  <2>2. Refused(i, f) => Refused(i, f)'
    <3>1. Done(session[i], GrayChange) => Done(session[i], GrayChange)'
      BY <1>2, <1>3, <1>5, <2>1, EventsDiffer, ClusterAssumption DEF Done
    <3> QED
      BY <1>5, <3>1 DEF Refused, GrayFirst
  <2>3. CASE session[i] # n
    BY <1>5, <2>0, <2>1, <2>2, <2>3 DEF LiveTarget
  <2>4. CASE session[i] = n /\ f # e
    BY <1>1, <1>2, <1>5, <2>0, <2>1, <2>2, <2>4, EventsDiffer
  <2>5. CASE session[i] = n /\ f = e
    <3>1. CASE i \in T
      BY <1>3, <1>5, <1>6, <2>1, <2>5, <3>1 DEF LiveTarget
    <3>3. CASE i \in M
      BY <1>3, <2>1, <2>5, <3>3
    <3>2. CASE i \notin T \cup M
      <4>1. \/ e = Recall /\ i \notin marked
            \/ e = GrayChange /\ i \notin release.selected
        BY <1>3, <2>5, <3>2 DEF Accepts, DeliveredTo
      <4>2. CASE e = GrayChange /\ i \notin release.selected
        BY <1>5, <2>1, <2>5, <4>2 DEF Refused
      <4>3. CASE e = Recall /\ i \notin marked
        <5>1. i \in got => faulty
          BY <4>3 DEF CountCoversPushed
        <5>2. GrayFirst => Done(n, GrayChange)'
          <6>1. OrderOK(n)
            OBVIOUS
          <6> QED
            BY <1>2, <1>3, <1>5, <4>3, <6>1, EventsDiffer, ClusterAssumption DEF Done, OrderOK
        <5>3. Refused(i, f)'
          BY <1>5, <2>5, <4>3, <5>1, <5>2 DEF Refused, GrayFirst
        <5> QED
          BY <2>1, <5>3
      <4> QED
        BY <4>1, <4>2, <4>3
    <3> QED
      BY <3>1, <3>2, <3>3
  <2> QED
    BY <2>3, <2>4, <2>5
<1>14. (HeardOnce /\ CountCoversPushed)'
  BY <1>5 DEF HeardOnce, CountCoversPushed
<1> QED
  BY <1>8, <1>9, <1>10, <1>11, <1>12, <1>13, <1>14

-----------------------------------------------------------------------------
\* A delivery keeps the invariant: the session has not heard the event before,
\* and whoever is pushed the gray change is marked or the tracker is faulty.
LEMMA DeliverKeepsInv ==
  ASSUME NEW n \in Nodes, NEW t \in targets[n], ClusterInv, Deliver(n, t)
  PROVE  ClusterInv'
<1> DEFINE e == event[n]
           d == t.inst
<1> USE DEF ClusterInv
<1>1. /\ NodeOK(n) /\ t \in Target /\ d \in Instances /\ t.live \in BOOLEAN
      /\ e \in Events /\ ~Done(n, e)
  <2>1. t \in Target /\ e \in Events \cup {None} /\ NodeOK(n)
    BY DEF TypeOK
  <2> QED
    BY <2>1 DEF Target, NodeOK, Done
<1>2. t.live => t = [inst |-> d, live |-> TRUE]
  BY <1>1 DEF Target
<1>3. t.live => session[d] = n /\ LiveTarget(n, d) /\ e \notin heard[d]
  <2>1. t.live => session[d] = n /\ LiveTarget(n, d)
    BY <1>1, <1>2 DEF NodeOK, LiveTarget
  <2> QED
    BY <1>1, <2>1 DEF HeardOK
<1>4. /\ heard' \in [Instances -> SUBSET Events] /\ missed' \in [Instances -> SUBSET Events]
      /\ \A i \in Instances : /\ heard'[i] \in {heard[i], heard[i] \cup {e}}
                              /\ missed[i] \subseteq missed'[i]
                              /\ heard'[i] # heard[i] => i = d /\ t.live
      /\ t.live => e \in heard'[d] \cup missed'[d]
      /\ got' \in {got, got \cup {d}} /\ (got' # got => t.live /\ e = GrayChange)
      /\ twice' = twice
  <2>1. Push(t, e)
    BY DEF Deliver
  <2>2. CASE ~t.live /\ UNCHANGED <<heard, missed, got, twice>>
    BY <2>2 DEF TypeOK
  <2>3. CASE t.live /\ Enqueue(d, e)
    <3>1. /\ heard' = [heard EXCEPT ![d] = heard[d] \cup {e}] /\ missed' = missed
          /\ got' = IF e = GrayChange THEN got \cup {d} ELSE got
          /\ twice' = (twice \/ e \in heard[d])
      BY <2>3 DEF Enqueue
    <3>2. twice' = twice
      BY <1>3, <2>3, <3>1 DEF TypeOK
    <3> HIDE DEF e, d
    <3> QED
      BY <1>1, <2>3, <3>1, <3>2 DEF TypeOK
  <2>4. CASE t.live /\ Refuse(d, e)
    <3>1. missed' = [missed EXCEPT ![d] = missed[d] \cup {e}] /\ UNCHANGED <<heard, got, twice>>
      BY <2>4 DEF Refuse
    <3> HIDE DEF e, d
    <3> QED
      BY <1>1, <2>4, <3>1 DEF TypeOK
  <2> QED
    BY <2>1, <2>2, <2>3, <2>4 DEF Push
<1>5. /\ targets' = [targets EXCEPT ![n] = targets[n] \ {t}]
      /\ event' = [event EXCEPT ![n] = IF targets[n] = {t} THEN None ELSE e]
      /\ UNCHANGED <<procVars, busVars, session, present, relVars>>
  BY DEF Deliver
<1>6. /\ marked' \in {marked, marked \cup {d}} /\ (e = Recall => marked' = marked)
      /\ faulty' \in BOOLEAN /\ (faulty => faulty') /\ (e # Recall => d \in marked' \/ faulty')
  <2>1. faulty \in BOOLEAN /\ Mark(d, e)
    BY DEF Deliver, TypeOK
  <2>2. CASE e = Recall /\ UNCHANGED <<marked, faulty>>
    BY <2>1, <2>2
  <2>3. CASE e # Recall /\ marked' = marked \cup {d} /\ faulty' = faulty
    BY <2>1, <2>3
  <2>4. CASE e # Recall /\ marked' = marked /\ faulty' = TRUE
    BY <2>4
  <2> QED
    BY <2>1, <2>2, <2>3, <2>4 DEF Mark
<1> HIDE DEF e, d
<1>7. /\ \A m \in Nodes : m # n => event'[m] = event[m] /\ targets'[m] = targets[m]
      /\ event'[n] = (IF targets[n] = {t} THEN None ELSE e)
      /\ targets'[n] = targets[n] \ {t}
      /\ UNCHANGED <<wire, chan, first, session, present, release, calls, outbox>>
  BY <1>5 DEF TypeOK, procVars, busVars, relVars
<1>0. event[n] = e /\ t.inst = d
  BY DEF e, d
<1>8. \A m \in Nodes, f \in Events : Done(m, f) => Done(m, f)'
  BY <1>0, <1>7, EventsDiffer, ClusterAssumption DEF Done
<1>9. (TypeOK /\ CallsOK)'
  <2>2. targets' \in [Nodes -> SUBSET Target] /\ event' \in [Nodes -> Events \cup {None}]
    BY <1>1, <1>5 DEF TypeOK
  <2>3. marked' \in SUBSET Instances /\ got' \in SUBSET Instances /\ twice' \in BOOLEAN
    BY <1>1, <1>4, <1>6 DEF TypeOK
  <2> QED
    BY <1>4, <1>5, <1>6, <2>2, <2>3 DEF TypeOK, CallsOK, procVars, busVars, relVars
<1>10. OutboxOK'
  <2>1. \A f \in Events : Nowhere(f) => f # e
    BY <1>1 DEF Nowhere
  <2>2. \A f \in Events : Nowhere(f) => Nowhere(f)'
    BY <1>4, <1>7, <1>8, <2>1 DEF Nowhere, TypeOK
  <2> QED
    BY <1>7, <2>2, EventsDiffer DEF TypeOK, OutboxOK, Announced
<1>11. \A m \in Nodes : NodeOK(m)'
  <2> TAKE m \in Nodes
  <2>1. NodeOK(m)
    OBVIOUS
  <2>3. CASE m = n
    <3>1. None \notin Range(wire[n]) \cup Range(chan[n])
      BY QueueTypes, EventsDiffer, ClusterAssumption DEF TypeOK
    <3>2. targets'[n] \subseteq targets[n] /\ (targets[n] = {t} => targets'[n] = {})
      BY <1>7
    <3>3. e # None
      BY <1>1, EventsDiffer, ClusterAssumption
    <3>4. event'[n] \in {None, e} /\ (event'[n] = None => targets'[n] = {})
      BY <1>7, <3>2, <3>3
    <3> QED
      BY <1>0, <1>7, <2>1, <2>3, <3>1, <3>2, <3>4, EventsDiffer, ClusterAssumption DEF NodeOK
  <2>4. CASE m # n
    BY <1>7, <2>1, <2>4 DEF NodeOK
  <2> QED
    BY <2>3, <2>4
<1>12. \A m \in Nodes : OrderOK(m)'
  <2> TAKE m \in Nodes
  <2>1. OrderOK(m)
    OBVIOUS
  <2>2. event'[m] = Recall => event[m] = Recall
    BY <1>0, <1>7, EventsDiffer, ClusterAssumption
  <2> QED
    BY <1>7, <2>1, <2>2 DEF OrderOK, GrayFirst
<1>13. \A i \in Instances : LiveTarget(n, i)' <=> LiveTarget(n, i) /\ ~(t.live /\ i = d)
  <2> TAKE i \in Instances
  <2>1. [inst |-> i, live |-> TRUE] = t <=> t.live /\ i = d
    BY <1>0, <1>1, <1>2
  <2> QED
    BY <1>7, <2>1 DEF LiveTarget
<1>14. \A i \in Instances : HeardOK(i)'
  <2> TAKE i \in Instances
  <2> SUFFICES ASSUME NEW f \in heard'[i]
               PROVE  /\ session[i] \in Nodes
                      /\ f \notin Range(wire[session[i]]) \cup Range(chan[session[i]])
                      /\ event'[session[i]] = f => ~LiveTarget(session[i], i)'
    BY <1>7 DEF HeardOK
  <2>1. CASE f \in heard[i]
    <3>1. /\ session[i] \in Nodes
          /\ f \notin Range(wire[session[i]]) \cup Range(chan[session[i]])
          /\ event[session[i]] = f => ~LiveTarget(session[i], i)
      BY <2>1 DEF HeardOK
    <3>2. CASE session[i] = n
      <4>1. f \in Events
        BY <2>1 DEF TypeOK
      <4>2. event'[n] = f => event[n] = f
        BY <1>0, <1>7, <4>1, EventsDiffer, ClusterAssumption
      <4>3. LiveTarget(session[i], i)' => LiveTarget(session[i], i)
        BY <1>7, <3>2 DEF LiveTarget
      <4> QED
        BY <3>1, <3>2, <4>2, <4>3
    <3>3. CASE session[i] # n
      BY <1>7, <3>1, <3>3 DEF LiveTarget
    <3> QED
      BY <3>2, <3>3
  <2>2. CASE f \notin heard[i]
    <3>1. i = d /\ t.live /\ f = e
      BY <1>1, <1>4, <2>2 DEF TypeOK
    <3>2. session[i] = n /\ ~LiveTarget(n, i)'
      BY <1>1, <1>3, <1>13, <3>1
    <3>3. e \notin Range(wire[n]) \cup Range(chan[n])
      BY <1>0, <1>1 DEF NodeOK
    <3> QED
      BY <1>7, <3>1, <3>2, <3>3 DEF LiveTarget
  <2> QED
    BY <2>1, <2>2
<1>15. \A i \in Instances : PresentOK(i)'
  <2> TAKE i \in Instances
  <2> SUFFICES ASSUME NEW f \in Events, i \in present[f]
               PROVE  /\ session[i] \in Nodes
                      /\ \/ f \in heard'[i] \cup missed'[i] \/ Refused(i, f)'
                         \/ f \in Range(wire[session[i]]) \cup Range(chan[session[i]])
                         \/ event'[session[i]] = f /\ LiveTarget(session[i], i)'
    BY <1>7 DEF PresentOK
  <2>1. /\ session[i] \in Nodes
        /\ \/ f \in heard[i] \cup missed[i] \/ Refused(i, f)
           \/ f \in Range(wire[session[i]]) \cup Range(chan[session[i]])
           \/ event[session[i]] = f /\ LiveTarget(session[i], i)
    BY DEF PresentOK
  <2>2. f \in heard[i] \cup missed[i] => f \in heard'[i] \cup missed'[i]
    BY <1>4 DEF TypeOK
  <2>3. Refused(i, f) => Refused(i, f)'
    <3>1. Done(session[i], GrayChange) => Done(session[i], GrayChange)'
      BY <1>0, <1>7, <2>1, EventsDiffer, ClusterAssumption DEF Done
    <3>2. Done(session[i], GrayChange) /\ i \in got' => i \in got
      BY <1>0, <1>3, <1>4 DEF Done
    <3> QED
      BY <1>6, <1>7, <3>1, <3>2 DEF Refused, GrayFirst
  <2>4. event[session[i]] = f /\ LiveTarget(session[i], i) =>
          \/ f \in heard'[i] \cup missed'[i]
          \/ event'[session[i]] = f /\ LiveTarget(session[i], i)'
    <3>1. CASE session[i] # n
      BY <1>7, <2>1, <3>1 DEF LiveTarget
    <3>2. CASE session[i] = n /\ t.live /\ i = d
      BY <1>0, <1>1, <1>4, <3>2 DEF TypeOK
    <3>3. CASE session[i] = n /\ ~(t.live /\ i = d)
      <4>1. LiveTarget(n, i) => LiveTarget(n, i)' /\ targets[n] # {t}
        <5>1. LiveTarget(n, i)' => targets'[n] # {}
          BY DEF LiveTarget
        <5> QED
          BY <1>7, <1>13, <3>3, <5>1
      <4> QED
        BY <1>0, <1>7, <3>3, <4>1 DEF LiveTarget
    <3> QED
      BY <3>1, <3>2, <3>3
  <2> QED
    BY <2>1, <2>2, <2>3, <2>4
<1>16. (HeardOnce /\ CountCoversPushed)'
  <2>1. ~faulty' => got' \subseteq marked'
    <3>1. got' # got => e # Recall
      BY <1>4, EventsDiffer
    <3> QED
      BY <1>4, <1>6, <3>1 DEF CountCoversPushed
  <2>2. ~release.promoted => marked' \subseteq release.selected
    <3>1. ~release.promoted => \A o \in Operators : e # PromoteBy(o)
      <4>1. Announced(e)
        BY <1>1 DEF OutboxOK, Nowhere
      <4> QED
        BY <4>1, EventsDiffer DEF Announced
    <3>2. e = GrayChange => d \in release.selected
      BY <1>0, <1>1 DEF NodeOK
    <3> QED
      BY <1>1, <1>6, <3>1, <3>2, EventsDiffer DEF CountCoversPushed
  <2>3. HeardOnce'
    BY <1>4 DEF HeardOnce
  <2> QED
    BY <1>7, <2>1, <2>2, <2>3 DEF CountCoversPushed
<1> QED
  BY <1>9, <1>10, <1>11, <1>12, <1>14, <1>15, <1>16

-----------------------------------------------------------------------------
\* Every step keeps the invariant.
LEMMA StepCluster == ClusterInv /\ [Next]_vars => ClusterInv'
<1> SUFFICES ASSUME ClusterInv, [Next]_vars PROVE ClusterInv'
  OBVIOUS
<1>1. ASSUME NEW n \in Nodes, ProcessStep(n) PROVE ClusterInv'
  <2>1. CASE Die(n)
    BY <2>1, DieKeepsInv
  <2>2. CASE Boot(n) \/ Subscribe(n) \/ Listen(n) \/ Stop(n) \/ EndConsume(n)
    <3>1. /\ proc' \in [Nodes -> {"down", "up", "stopping"}]
          /\ listening' \in SUBSET Nodes /\ consuming' \in SUBSET Nodes
      BY <2>2 DEF ClusterInv, TypeOK, Boot, Subscribe, Listen, Stop, EndConsume
    <3>2. UNCHANGED <<busVars, nodeVars, sessVars, relVars, trackVars>>
      BY <2>2 DEF Boot, Subscribe, Listen, Stop, EndConsume
    <3> QED
      BY <3>1, <3>2, ProcessKeepsInv
  <2> QED
    BY <1>1, <2>1, <2>2 DEF ProcessStep
<1>2. ASSUME NEW n \in Nodes, OperatorStep(n) PROVE ClusterInv'
  BY <1>2, OperatorKeepsInv
<1>9. ASSUME NEW c \in calls, CallStep(c) PROVE ClusterInv'
  BY <1>9, CallKeepsInv
<1>3. ASSUME NEW n \in Nodes, HubStep(n) PROVE ClusterInv'
  BY <1>3, ForwardKeepsInv, TakeEventKeepsInv, DeliverKeepsInv DEF HubStep
<1>4. ASSUME NEW i \in Instances, NEW n \in Nodes, Connect(i, n) PROVE ClusterInv'
  BY <1>4, ConnectKeepsInv
<1>5. ASSUME NEW i \in Instances, Disconnect(i) PROVE ClusterInv'
  BY <1>5, DisconnectKeepsInv
<1>6. ASSUME NEW o \in outbox, NEW R \in SUBSET consuming, Publish(o, R) PROVE ClusterInv'
  BY <1>6, PublishKeepsInv
<1>7. CASE Expire
  BY <1>7, ExpireKeepsInv
<1>8. CASE UNCHANGED vars
  <2>1. /\ proc' \in [Nodes -> {"down", "up", "stopping"}]
        /\ listening' \in SUBSET Nodes /\ consuming' \in SUBSET Nodes
    BY <1>8 DEF ClusterInv, TypeOK, vars, procVars
  <2>2. UNCHANGED <<busVars, nodeVars, sessVars, relVars, trackVars>>
    BY <1>8 DEF vars
  <2> QED
    BY <2>1, <2>2, ProcessKeepsInv
<1> QED
  BY <1>1, <1>2, <1>3, <1>4, <1>5, <1>6, <1>7, <1>8, <1>9 DEF Next

\* The inductive invariant holds in every reachable state.
THEOREM ClusterInvariant == Spec => []ClusterInv
BY InitCluster, StepCluster, PTL DEF Spec

\* ReleaseStats counts every instance that was pushed the gray change, by any
\* node, and no instance that is not selected until a Promote is recorded, however
\* many calls of Promote and GrayRollback race (push/tracker.go).
THEOREM StatsCoverPushed == Spec => []CountCoversPushed
<1>1. ClusterInv => CountCoversPushed
  BY DEF ClusterInv
<1> QED
  BY <1>1, ClusterInvariant, PTL

\* No session is pushed one event twice, whichever node published it and
\* however often processes restart and instances reconnect (push/hub.go).
THEOREM SessionHearsOnce == Spec => []HeardOnce
<1>1. ClusterInv => HeardOnce
  BY DEF ClusterInv
<1> QED
  BY <1>1, ClusterInvariant, PTL

\* An event that Redis passed to a node reaches every session the node held
\* and the gate lets through, but for those about which the gate's request
\* fails and those whose frame queue is full (push/bus.go, push/hub.go,
\* service/effective.go).
THEOREM SessionsOfEveryNodeHear == Spec => []EveryNodeHears
<1>1. ClusterInv => EveryNodeHears
  <2> SUFFICES ASSUME ClusterInv, NEW i \in Instances, NEW e \in Events, e # Recall,
                      ShouldHaveHeard(i, e), e = GrayChange => i \in release.selected
               PROVE  e \in heard[i] \cup missed[i]
    BY EventsDiffer DEF EveryNodeHears
  <2> QED
    BY DEF ClusterInv, PresentOK, Refused, ShouldHaveHeard, Done
<1> QED
  BY <1>1, ClusterInvariant, PTL

\* An instance that was pushed the gray change hears the recall on the node it
\* is connected to now, if the gray change was published first, the tracker
\* lost nothing, and the recall meets neither a failing SISMEMBER nor a full
\* frame queue (push/tracker.go, push/hub.go, service/service.go).
THEOREM RecallReachesEveryNode == Spec => []RecallCrossesNodes
<1>1. ClusterInv => RecallCrossesNodes
  <2> SUFFICES ASSUME ClusterInv, NEW i \in got, ShouldHaveHeard(i, Recall), ~faulty, GrayFirst
               PROVE  Recall \in heard[i] \cup missed[i]
    BY DEF RecallCrossesNodes, GrayFirst
  <2>1. i \in Instances
    BY DEF ClusterInv, TypeOK
  <2> QED
    BY <2>1, EventsDiffer DEF ClusterInv, PresentOK, Refused, ShouldHaveHeard, Done
<1> QED
  BY <1>1, ClusterInvariant, PTL
=============================================================================
