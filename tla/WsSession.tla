----------------------------- MODULE WsSession ------------------------------
(***************************************************************************)
(* WebSocket sessions (api/handlers.go, ws; push/socket.go; Enqueue and the *)
(* socket branch of Dispatch in push/hub.go) over the events of the service. *)
(*                                                                         *)
(* A session is a registered connection with a bounded queue of frames and  *)
(* three goroutines: the handler that queues the first snapshot, writePump   *)
(* and readPump.  A frame only tells the peer versions: the snapshot those   *)
(* of every item, an event that of the item written.                        *)
(***************************************************************************)
EXTENDS ServiceEvents

CONSTANT QueueCap    \* capacity of Conn.notify (32 in the code)

ASSUME SessionAssumption == QueueCap \in Nat \ {0}

VARIABLES
  handler,     \* handler[c]: where the request that opened c stands
  first,       \* first[c]: the snapshot frame it has computed
  frames,      \* frames[c]: Conn.notify
  socket,      \* socket[c]: "open", or "closed" by either side
  reader,      \* reader[c]: readPump, "run" or "ended" (Conn.done is closed)
  writer,      \* writer[c]: writePump, "run" or "ended"
  marking,     \* the target Dispatch has marked and not yet queued to
  dropped,     \* history: open sessions that were refused a frame, or passed
               \* over because the gate could not read the release
  replaced,    \* history: open sessions another was registered in place of
  holders,     \* history: connections that were queued a gray version by a push
  told         \* history: told[c][s], the highest version of s c's peer was sent

sessionVars ==
  <<handler, first, frames, socket, reader, writer, marking, dropped, replaced, holders, told>>
wsVars      == <<hubVars, serviceVars, sessionVars>>

NoFrame == {}

SessionInit ==
  /\ HubInit
  /\ ServiceInit
  /\ handler = [c \in Conns |-> "none"]
  /\ first   = [c \in Conns |-> NoFrame]
  /\ frames  = [c \in Conns |-> <<>>]
  /\ socket  = [c \in Conns |-> "closed"]
  /\ reader  = [c \in Conns |-> "ended"]
  /\ writer  = [c \in Conns |-> "ended"]
  /\ marking = None
  /\ dropped = {}
  /\ replaced = {}
  /\ holders = {}
  /\ told    = [c \in Conns |-> [s \in Slots |-> 0]]

-----------------------------------------------------------------------------
\* Frames: the versions they tell, <<slot, version>>.
SnapshotFrame(p) == {<<s, ServedVersion(p, s)>> : s \in Contributes(p)}

EventFrame(e) == {<<e.slot, e.version>>}

\* Definitions marked "wrong" are mistakes the code could have made instead of
\* the definition they precede; no specification uses them.

\* wrong: one frame more than the queue holds
AcceptingOneMore(c) == socket[c] = "open" /\ Len(frames[c]) <= QueueCap

\* Conn.Enqueue never blocks: a full queue refuses the frame.  Frames for a
\* closed socket reach nobody and are not kept.
Accepting(c) == socket[c] = "open" /\ Len(frames[c]) < QueueCap

Enqueue(c, f) ==
  IF Accepting(c)
    THEN frames' = [frames EXCEPT ![c] = Append(@, f)] /\ UNCHANGED dropped
    ELSE UNCHANGED frames /\
         dropped' = IF socket[c] = "open" THEN dropped \cup {c} ELSE dropped

\* A connection object that nothing refers to any more.
Unused(c) ==
  handler[c] = "none" /\ c \notin targets /\ reader[c] = "ended" /\ writer[c] = "ended"

\* ws: upgrade and Register, which starts the pumps.  A client opens a session
\* when it has none open; one that shares the key of another (or reconnects
\* before its old socket is closed, which makes it two) takes that one's place
\* in the registry.
Open(p, c) ==
  /\ \A d \in Conns : d[1] = p => socket[d] = "closed"
  /\ Unused(c)
  /\ c[2] = 2 => ~Unused(<<p, 1>>)
  /\ Register(c)
  /\ handler' = [handler EXCEPT ![c] = "registered"]
  /\ socket'  = [socket EXCEPT ![c] = "open"]
  /\ reader'  = [reader EXCEPT ![c] = "run"]
  /\ writer'  = [writer EXCEPT ![c] = "run"]
  /\ replaced' = replaced \cup {d \in Registered :
                     Client[d[1]].key = Client[p].key /\ socket[d] = "open"}
  /\ UNCHANGED <<serviceVars, first, frames, marking, dropped, holders, told>>

\* ws: Effective, now that no event can be missed.  A failure, of the store or
\* because a version is pruned, ends the handler without a snapshot; the
\* session stays open.
TakeSnapshot(c) ==
  /\ handler[c] = "registered"
  /\ \/ /\ handler' = [handler EXCEPT ![c] = "none"]
        /\ dropped' = IF socket[c] = "open" THEN dropped \cup {c} ELSE dropped
        /\ UNCHANGED first
     \/ /\ ~Fails(c[1])
        /\ handler' = [handler EXCEPT ![c] = "snapshot"]
        /\ first'   = [first EXCEPT ![c] =
                         IF socket[c] = "open" THEN SnapshotFrame(c[1]) ELSE @]
        /\ UNCHANGED dropped
  /\ UNCHANGED <<hubVars, serviceVars>>
  /\ UNCHANGED <<frames, socket, reader, writer, marking, replaced, holders, told>>

\* ws: the snapshot goes through the queue of the events.
QueueSnapshot(c) ==
  /\ handler[c] = "snapshot"
  /\ Enqueue(c, first[c])
  /\ handler' = [handler EXCEPT ![c] = "none"]
  /\ first'   = [first EXCEPT ![c] = NoFrame]
  /\ UNCHANGED <<hubVars, serviceVars, socket, reader, writer, marking, replaced, holders, told>>

-----------------------------------------------------------------------------
TakeTargets ==
  /\ \E unread \in SUBSET Registered :
       /\ TakeEvent(gray.selected, unread)
       /\ dropped' = dropped \cup {c \in Overlooked(Head(bus), gray.selected, unread) :
                                    socket[c] = "open"}
  /\ UNCHANGED <<lost, serviceVars>>
  /\ UNCHANGED <<handler, first, frames, socket, reader, writer, marking, replaced, holders, told>>

Marks(e) == e.rel # 0 /\ e.type # "gray_rollback"

\* wrong: the delivery is not recorded
MarkTargetForgotten(c) ==
  /\ event # None /\ Marks(event) /\ marking = None /\ c \in targets
  /\ marking' = c
  /\ UNCHANGED <<hubVars, serviceVars>>
  /\ UNCHANGED <<handler, first, frames, socket, reader, writer, dropped, replaced, holders, told>>

\* Dispatch, for each target: mark the delivery of a gray version ...
MarkTarget(c) ==
  /\ event # None /\ Marks(event) /\ marking = None /\ c \in targets
  /\ Mark(event.rel, Client[c[1]].key)
  /\ marking' = c
  /\ UNCHANGED <<bus, lost, registry, woken, event, targets, serviceVars>>
  /\ UNCHANGED <<handler, first, frames, socket, reader, writer, dropped, replaced, holders, told>>

\* ... then queue the frame, whatever became of the session meanwhile.
QueueEvent(c) ==
  /\ event # None /\ c \in targets
  /\ Marks(event) => marking = c
  /\ Enqueue(c, EventFrame(event))
  /\ holders' = IF Marks(event) /\ Accepting(c) THEN holders \cup {c} ELSE holders
  /\ targets' = targets \ {c}
  /\ event'   = IF targets = {c} THEN None ELSE event
  /\ marking' = None
  /\ UNCHANGED <<bus, lost, registry, woken, delivered, serviceVars>>
  /\ UNCHANGED <<handler, first, socket, reader, writer, replaced, told>>

-----------------------------------------------------------------------------
\* The socket is closed: what was sent or queued on it is of no interest now.
CloseSocket(c) ==
  /\ socket'  = [socket EXCEPT ![c] = "closed"]
  /\ frames'  = [frames EXCEPT ![c] = <<>>]
  /\ first'   = [first EXCEPT ![c] = NoFrame]
  /\ dropped' = dropped \ {c}
  /\ replaced' = replaced \ {c}
  /\ holders' = holders \ {c}
  /\ told'    = [told EXCEPT ![c] = [s \in Slots |-> 0]]
  /\ UNCHANGED <<hubVars, serviceVars, handler, reader, marking>>

\* writePump sends the next frame.
WriteFrame(c) ==
  /\ socket[c] = "open" /\ frames[c] # <<>>
  /\ frames' = [frames EXCEPT ![c] = Tail(@)]
  /\ told'   = [told EXCEPT ![c] = [s \in Slots |->
                 Largest({@[s]} \cup {t[2] : t \in {u \in Head(frames[c]) : u[1] = s}})]]
  /\ UNCHANGED <<hubVars, serviceVars, handler, first, socket, reader, writer>>
  /\ UNCHANGED <<marking, dropped, replaced, holders>>

\* writePump returns, and closes the socket, because a write fails or takes
\* longer than its deadline, a ping fails, or readPump has closed Conn.done.
WriterEnds(c) ==
  /\ writer[c] = "run"
  /\ frames[c] # <<>> \/ reader[c] # "run" \/ socket[c] = "closed"
  /\ writer' = [writer EXCEPT ![c] = "ended"]
  /\ CloseSocket(c)

\* wrong: the connection is left in the registry
ReaderEndsRegistered(c) ==
  /\ reader[c] = "run"
  /\ reader' = [reader EXCEPT ![c] = "ended"]
  /\ UNCHANGED <<hubVars, serviceVars, handler, first, frames, socket, writer>>
  /\ UNCHANGED <<marking, dropped, replaced, holders, told>>

\* readPump: ReadMessage fails because the socket is closed, or the peer was
\* silent for longer than the read deadline; Conn.done is closed and the
\* connection unregistered.
ReaderEnds(c) ==
  /\ reader[c] = "run"
  /\ Unregister(c)
  /\ reader' = [reader EXCEPT ![c] = "ended"]
  /\ UNCHANGED <<serviceVars, handler, first, frames, socket, writer>>
  /\ UNCHANGED <<marking, dropped, replaced, holders, told>>

PeerCloses(c) ==
  /\ socket[c] = "open"
  /\ CloseSocket(c)
  /\ UNCHANGED writer

-----------------------------------------------------------------------------
HandlerStep(c) == TakeSnapshot(c) \/ QueueSnapshot(c)

DispatcherStep == TakeTargets \/ \E c \in Conns : MarkTarget(c) \/ QueueEvent(c)

WriterStep(c) == WriteFrame(c) \/ WriterEnds(c)

ReaderStep(c) == socket[c] = "closed" /\ ReaderEnds(c)

PeerStep(c) == Open(c[1], c) \/ PeerCloses(c)

\* Events lost on the bus are LongPoll's subject; here the bus is not full when
\* one is published.
SessionNext ==
  \/ ServiceStep /\ UNCHANGED <<lost, sessionVars>>
  \/ DispatcherStep
  \/ \E c \in Conns : \/ HandlerStep(c) \/ WriterStep(c)
                      \/ PeerStep(c) \/ ReaderEnds(c)

\* The pumps of a session run and a read of a closed socket fails.  Nothing is
\* assumed of peers, operators, the handler or the dispatcher.
SessionFairness == \A c \in Conns : WF_wsVars(WriterStep(c)) /\ WF_wsVars(ReaderStep(c))

SessionSpec == SessionInit /\ [][SessionNext]_wsVars /\ SessionFairness

-----------------------------------------------------------------------------
\* Types; the dispatcher marks only a target of the event in dispatch.
TypeOK ==
  /\ HubTypeOK /\ ServiceTypeOK
  /\ handler \in [Conns -> {"none", "registered", "snapshot"}]
  /\ \A c \in Conns : handler[c] = "snapshot" \/ first[c] = NoFrame
  /\ socket \in [Conns -> {"open", "closed"}]
  /\ reader \in [Conns -> {"run", "ended"}]
  /\ writer \in [Conns -> {"run", "ended"}]
  /\ \A c \in Conns : Len(frames[c]) <= QueueCap
  /\ \A c \in Conns : socket[c] = "open" => writer[c] = "run"
  /\ marking \in targets \cup {None}

Queued(c)  == {frames[c][i] : i \in 1 .. Len(frames[c])}
Serving(c) == socket[c] = "open" /\ reader[c] = "run" /\ writer[c] = "run"

\* The version of item s a session of client p is due: the one it is served,
\* except that an instance outside a promoted release is only due that release's
\* version, the one Promote announces, although a newer one may be live by then.
Due(p, s) ==
  IF gray.status = "promoted" /\ gray.slot = s /\ Client[p].key \notin gray.selected
    THEN gray.prev + 1 ELSE ServedVersion(p, s)

\* Nothing falls between the first snapshot and the pushed events (handlers.go:
\* "so a freshly connected client is immediately in sync"): a session that was
\* refused no frame, and that no other was registered in place of, has been
\* sent the version it is due of every item, or has it in its queue, or an
\* event the gate lets through to it is on its way.  A gray change is held
\* back like a refused frame when the gate cannot read the release
\* (effective.go:285).  The item of a withdrawn release is excluded: recalls go
\* by the tracker.
NothingFallsBetween ==
  \A c \in Conns :
    /\ Serving(c) /\ handler[c] = "none" /\ c \notin dropped \cup replaced
    => \A s \in Contributes(c[1]) :
         LET IsDue(t) == t[1] = s /\ t[2] >= Due(c[1], s) IN
         \/ (gray.status = "opening" \/ gray.withdrawn) /\ gray.slot = s
         \/ told[c][s] >= Due(c[1], s)
         \/ \E f \in Queued(c) : \E t \in f : IsDue(t)
         \/ c \in targets /\ IsDue(<<event.slot, event.version>>)
         \/ \E e \in outbox \cup {bus[i] : i \in 1 .. Len(bus)} :
              IsDue(<<e.slot, e.version>>) /\ Accepts(e, c[1], gray.selected, TRUE)

\* A recall reaches every session of its namespace that was pushed the gray
\* version and is still there and in no other's shadow, whatever sessions came
\* and went under the same key before (hub.go, Dispatch marks a delivery before
\* it queues the frame; Unregister spares a newer session).
RecallReachesPushed ==
  [][\A c \in holders \ replaced :
       /\ TakeTargets /\ Head(bus).type = "gray_rollback"
       /\ Head(bus).ns = Client[c[1]].ns /\ Serving(c)
       => c \in targets']_wsVars

\* No session outlives its socket: whichever side closed it, both pumps end and
\* the connection leaves the registry, with frames still queued or not.
SessionsEnd ==
  \A c \in Conns : socket[c] = "closed" ~>
    reader[c] = "ended" /\ writer[c] = "ended" /\ c \notin Registered
=============================================================================
