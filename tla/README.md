# Verification of the configuration center

TLA+ models, TLC runs and TLAPS proofs for the multi-tenant configuration
center in `src/` (a Go backend with a React console). The models are written
from the Go and SQL code; a README or a comment of the code is used only where
a property quotes what it promises. `PROJECT.json` lists, for every definition,
the lines it stands for.

Contents: [the system](#the-system) - [modules](#modules) -
[runs](#runs-and-what-they-show) - [disagreements](#where-the-code-and-its-documentation-disagree) -
[fairness](#fairness) - [proofs](#proofs) -
[limits](#only-model-checked-and-not-modelled) - [plan](#plan) - [conventions](#conventions)

## The system

A tenant has namespaces, a namespace has groups, a group has items; an item has
a key, a format and a versioned value per environment. Three layers can hold the
same key: the tenant's public namespace, a namespace's `_defaults` group, a
group. A client pulls the merged ("effective") configuration of a group and is
told of changes by long polling or WebSocket. A value can be released *gray*:
only to selected instances, until the release is promoted or rolled back.

| component | state | operations | what makes it hard |
|---|---|---|---|
| value store, memory (`store/memory.go`) | items, values, version counters, histories, releases, one mutex | CreateItem, CommitValue, GetVersion, release methods | numbers must survive pruning; retention is a parameter of every commit |
| value store, PostgreSQL (`store/postgres.go`, `001_init.sql`) | the same as tables | the same as transactions | READ COMMITTED, `FOR UPDATE` on a row that may not exist, lost acknowledgements |
| service (`service/service.go`) | none, holds no lock | Commit, Rollback, Promote, GrayRollback, fanout; CreateTenant ... CreateItem, UpdateSchema, quotas | each operation is a sequence of store calls that interleaves with others and can stop after any |
| effective configuration and gray gate (`service/effective.go`, `gray/gray.go`) | none | Effective, Gate.ShouldDeliver | reads releases, items and old versions in separate calls |
| push hub, bus, tracker (`push/`) | registry of connections, bounded channels, delivered pairs; several nodes share bus and tracker through Redis | Register, Unregister, Dispatch, Wait, Publish, Subscribe, Mark | dispatch works on after it released the mutex; events are dropped; keys are shared; instances go from node to node |
| long polling (`api/handlers.go`, poll) | one request | compare, register, compare again, wait | wake-ups against writes, timer against wake-ups |
| WebSocket sessions (`api/handlers.go`, ws; `push/socket.go`) | a queue of 32 frames, two pumps | first snapshot, enqueue, write, read | snapshot against events, an old session's end against the new one's start |
| merge kernel (`merge/merge.go`) | one call | Merge | the map of sources is filled beside the document, by three functions |
| line diff (`version/diff.go`) | one call | Diff | index arithmetic, ties in the walk |
| validator (`validator/validator.go`) | none | Validate, parseProperties | its properties grammar is not the merge kernel's |
| start-up and shutdown (`cmd/server/main.go`) | the process, one database, one Redis | connect, apply schema, seed, serve, stop | nodes seed one tenant at the same time; subscription and listening are not ordered |
| HTTP API, console | none worth a model | | see [limits](#only-model-checked-and-not-modelled) |

Interactions. The service calls the store, one call at a time; after a write it
hands an event to the bus (`fanout`; a change of the public layer becomes one
event per namespace). `consumeEvents` takes events off the bus one by one and
calls `Hub.Dispatch`, which asks the gate for each connection, marks gray
deliveries in the tracker, and wakes long polls or queues frames. With several
nodes Redis carries the bus and the tracker, and every node consumes every
event. The poll and
ws handlers call `Effective`, which reads the store through the gray gate.

What makes each component correct: the store never reuses a number, never has a
gap in what it retains and always has the live value in its history; the SQL
transaction behaves like the atomic store; a rollback restores exactly what was
there before and is done once; an instance is never given the content of one
version under the number of another; no client sleeps through a change that
nothing will announce again; a session neither misses an event between its
first snapshot and the pushes nor outlives its socket; the merge is the overlay
by path and attributes every leaf to its owner; the diff is an account of both
texts with as many equal lines as possible; what was validated is what is
stored, merged and served; a change made on one node reaches the sessions of
all; a start ends, and seeding overwrites nothing; containers are complete and quotas
are exceeded by no more than the concurrency there is.

The `hazards` list of `PROJECT.json` names the lines where this can go wrong,
with the properties that watch them.

## Modules

```
VersionStore                      the atomic store; abstract specification of
  |                               PgCommit and of ItemSchemas
  +-- ItemSchemas (EXTENDS)       schemas, validation before the write
  +-- PgCommit (INSTANCE)         Postgres.CommitValue, statement by statement
  +-- GrayRelease (EXTENDS)       write handlers and Effective by store call

PushHub                           bus, registry, dispatcher, tracker of one node
  +-- ServiceEvents (EXTENDS)     writes, one release, events, snapshots
        +-- LongPoll (EXTENDS)    poll handlers and their clients
        +-- WsSession (EXTENDS)   ws handlers, frame queues, pumps
PushCluster                       several nodes over one Redis

PropertiesFormat                  readers and writer of properties texts
  +-- MergeKernel (EXTENDS)       the merge of layers

ServerStart   Provisioning   LineDiff      each on its own

Proofs (TLAPS)                    about
  ServiceProofs                   VersionStore; over it ItemSchemas and GrayRelease
  PgCommitProofs                  PgCommit as an implementation of VersionStore
  PushProofs                      LongPoll, WsSession
  PushClusterProofs, ServerStartProofs, ProvisioningProofs, LineDiffProofs,
  MergeKernelProofs               one module each
```

**VersionStore.** `owner`, `values`, `versionSeq`, `versions` are the fields of
`Memory` for items, `item.Values[env]`, the counters and the histories. A *slot*
is an item in an environment. `CommitValue(p)` is one step because `Memory` does
it under its mutex; `p.retention` is free, as the quota may change between
calls. `CommitOutcome` keeps the order of the checks. Texts are opaque.

**ItemSchemas.** The same store under the handlers that put texts into it.
`ValidateCommit` reads the item and validates; `Write` is the later CommitValue.
`ReadOldVersion` and `ReadCurrent` are Rollback's two reads, which validate
nothing. `UpdateSchema` may fall anywhere between. `AcceptedBy` stands for
`validator.Validate`: which texts a schema lets pass. `everSchema` is a history
variable.

**PgCommit.** One action per statement of `Postgres.CommitValue`: begin,
SELECT FOR UPDATE, tenant check, INSERT or UPDATE of `item_values`, INSERT into
`versions`, prune, COMMIT. A transaction's writes are private (`newRow`,
`added`, `removed`) until COMMIT; `lock` is the row or key lock; a SELECT that
finds no row locks nothing. `Abort` may strike anywhere, and a COMMIT may be
applied without the caller being told (`unacked`). `VS` reads the committed
tables as the store, the rows of `versions` in the order of their numbers, and
`Refines == VS!StoreSpec`.

**GrayRelease.** Each operator executes one request after the other; `pc` names
the store call it makes next and `job` what its handler has read. `Commit` is
commitValue, then createRelease if gray, then publish; `Rollback` getItem,
commitValue, publish; `Promote` updateRelease, publish; `GrayRollback` getPrev,
commitValue, updateRelease, publish. `Stop` ends a handler after any call.
Instances execute `Effective`: releases first, then the item, then, outside an
active release, the old version. `commits` is a history variable.

**PushHub.** `bus` is the subscriber's channel, a full one drops (`lost`);
`registry` maps a key (instance id or IP) to one connection, a newer one
replaces the older; `TakeEvent` is the part of `Dispatch` under the mutex,
the rest is a step per target in the modules that extend it. `Accepts` is
`Gate.ShouldDeliver`. What hash or IP list select is a set fixed with the
release (`ShouldDeliver`), which is all the models need of it. The gate reads the
release again for each connection, and an error there answers "do not deliver"
(`effective.go:284-287`): `TakeEvent(selected, unread)` overlooks a gray change for
any set `unread` of connections, and `Overlooked` are those that lose it by this.

**ServiceEvents.** What the push side sees of the service: a write; a gray write
and, in a later step, its release; events that wait in `outbox` and are published
in any order or never. Several operators may end the release at once: a call
reads it and finds it gray (`AskToPromote`, `AskToRollBack`), commits the old text
again if it is a rollback (`Withdraw`), and writes its copy of the release back
whole (`Promote`, `GrayRollback`), each a step of its own, or stops in between
(`GiveUp`). Two calls may both succeed, the release then bears the status of the
later one. `Snapshot(p)` is `Effective`
for client p in one step (its interleavings are GrayRelease's subject), with
the version `groupSnapshot` computes: the largest of the entries'.

**LongPoll.** `Poll`, `RegisterConn`, `Recheck`, `Wake` or `Timeout`, `Leave` are
the statements of the poll handler; the client asks again with what it holds. A
poll that was woken is answered with the fresh snapshot whatever its version
(`handlers.go:404`), one whose timer fired without any. An event that the gate
overlooks for a poll counts as `lost`: nothing repeats it.

**WsSession.** `handler` is the request that opens the session and queues its
first snapshot, `frames` the queue, `reader` and `writer` the pumps. Two
connection objects per client allow an old session to be still ending, or still
a target of the dispatcher, while the new one is open. `ReaderEnds` takes the
deferred close of `done` and the Unregister together. Histories of a closed
socket are forgotten, to keep the model small. `dropped` (sessions refused a frame
or overlooked by the gate), `replaced` (sessions another was registered in place
of), `holders` and `told` are history variables. Losing events on the bus is left
to LongPoll.

**PushCluster.** What several nodes add to the push side. `wire` is what Redis
has sent to a node's subscription, `chan` the channel `RedisBus.Subscribe` fills
(it waits where `MemoryBus` drops), `TakeEvent` and `Deliver` are `Dispatch` as
in PushHub, `marked` is the Redis set of the release, which an SADD may miss and
which expires. Every request a node makes may fail: GetRelease at the gate and
SISMEMBER in the tracker (`tracker.go:82-84`) both answer "do not deliver"
(`TakeEvent`), and a frame queue that is full, with frames of other items too,
refuses (`Refuse`, `hub.go:57-62`). Promote and GrayRollback are calls on a node
that check, commit and write in steps of their own as in ServiceEvents; they race,
and die with their node. Two Promotes that both succeed publish two events
(`PromoteBy`). Processes boot, subscribe and listen in either order, are told to
stop, end their consumer, or die with their handlers and unpublished events.
Every instance watches the released item; filters by namespace and group are
PushHub's subject. `missed` (what a failing request or a full queue kept from a
session), `present`, `first`, `got`, `twice`, `faulty` and the release's `promoted`
are history variables.

**ServerStart.** `at[n]` walks through `Order`: connect (with `Attempts`), schema,
Redis, GetTenant, then the rows and values of the demo tenant, then serving.
Every row is a store call that inserts, finds a duplicate, fails, or takes effect
with its answer lost; `AfterDuplicate` and `AfterError` are what seed and the
service operations it calls make of it (`CreateTenant` and `CreateNamespace` go
on over a group that exists; a tenant or a namespace that does ends seed; a
failing group or item is passed over). A refusal by a quota or by an item's format
(`service.go:192-198`) is such a failing call. Operators insert rows and commit values
through any node that serves. `cut`, a history variable, says that a seed was
interrupted or met a failing call.

**Provisioning.** One tenant, as every table is keyed by it. `CreateTenant`,
`CreateNamespace` and `CreateItem` are sequences of store calls, the rest single
ones; `Stop` ends a handler after any call. Existence look-ups are taken with the
call that follows them (nothing is deleted). `peak`, `abandoned` and an item's
`over` are history variables.

**LineDiff.** One step per row of the walk and per hunk of the collapse. A row
holds positions instead of text, so the properties can say *which* line stands
where. The LCS table is a recursive function over pairs of positions; `Cell` is
the body of the two loops that fill it.

**MergeKernel.** Documents are functions from keys, which are texts, to values; a leaf
is the layer that wrote it. The three layers are merged weakest first, one step each;
the map of sources is filled by `deepMerge`, `keyOverride` and `markLeaves` as in the code. The
reference (`Surviving`) is by path, without merging. Layers may also hold
properties texts that the validator accepted: they are decoded as the kernel
does, merged by key and rendered. Sources are recorded under the texts that
`joinPath` makes of a path (`JoinPath`, `FlatPath`), which different paths can share
when a key holds a dot. `At` reads a value at a path, as `markLeaves` and `deepMerge`
walk documents; `leafAt`, which splits such a text again, fills a field of the
answer that nothing in the program reads and is left out. The recursion of
`deepMerge` is a function of the prefix it is called with, over the prefixes at which
both documents have an object.
`Documents[l][n]` are layer l's documents that nest at most n deep, `Depth` the
bound on n; the recursion of the definitions does not depend on how many there are.
`Chars` are the characters of texts; which texts there are is a constant too.

**PropertiesFormat.** Texts are sequences of the characters `a`, `b`, `=`, `:`, `#`,
blank, newline and backslash in the instance, and of any `Chars` in the proofs. A
line is known by the place in the text where it begins (`Starts`), so that an entry
can be compared with the line it was read from. `ParseProperties` is the validator's
reader - continuation lines, the first unescaped separator, escapes, keys that repeat -
and `DecodeProperties` the merge kernel's, which has none of these;
`EncodeProperties` is the kernel's writer. Carriage returns and the escapes that
stand for other characters (`\n`, `\u0041`) are left out.

## Runs and what they show

Every run finishes within three minutes on two cores; the numbers are distinct states.

| run | instance | states | shows |
|---|---|---|---|
| `version_store` | 2 tenants, 1 item, 2 environments, 2 texts, 2 schemas, 2 requests under way, retention 0, 1, 2 from call to call, 4 versions | 895,942 | numbering, history, pruning, validation |
| `pg_commit` | 3 transactions on one slot, 2 texts, retention 0, 1, 3 versions | 570,850 | the SQL transaction implements the store; one winner; no deadlock |
| `gray_release` | 2 operators, 1 instance, 3 versions, 2 releases, retention 2 | 4.93 M | handlers and Effective by store call |
| `long_poll` | 2 clients under one key, a public item, 3 versions, bus of 1, 1 operator ending the release | 740,322 | wake-ups, tracker, catching up |
| `ws_session` | 1 client with 2 connection objects, a public item, 3 versions, bus and queue of 1, 1 operator ending the release | 972,948 | snapshot and pushes, recall, end of sessions |
| `line_diff` | all pairs of texts up to 5 lines over 3 different lines | 854,030 | the diff against the definition of an LCS |
| `merge_kernel` | keys `a`, `b` and `a.b`, nesting once, each layer present or not, both targets; all texts of up to 6 characters alone, up to 2 under up to 3 | 1.09 M | the merge against the definition by path; the readers of properties |
| `push_cluster` | 2 nodes, 1 instance, selected or not, 2 operators ending the release, channel of 1 | 4.94 M | events, recall and counts across nodes |
| `server_start` | 2 nodes, 2 attempts, 1 operator's write per item | 990,368 | seeding, restarts, the end of a start |
| `provisioning` | 2 operators, 3 namespaces, quotas 0 and 1, 2 keys, 2 formats, 2 items | 2.76 M | quotas, containers, formats |

Why these bounds are enough to be interesting. Three versions are what a gray
release needs: the old value, the gray one, the one that withdraws it; a
retention of 2 makes the old one disappear with one write more. Two operators
meet in every pair of handlers; three transactions allow one to hold the lock,
one to wait and one to arrive. Queues of one frame or event are full after one.
Two clients under one key replace and outlive each other. Five lines are the
first length at which a hunk of two deletions and two additions has common lines
on both sides. Nesting once is enough for a leaf to replace an object and the
reverse at both levels. Six characters hold two entries and one escape or
continuation between them. With two nodes an event is published by one and heard
on the other, an instance is marked on one and recalled on the other, and two
seeds meet in the same tenant. `a.b` and `b` in `a` are the shortest keys whose
paths read alike.

Two operators who end one release meet in `push_cluster` and, with the store's and
`Effective`'s steps, in `gray_release`. In `long_poll` and `ws_session` there is
one, whose call still interleaves step by step with everything else: a second one
multiplies these instances beyond five minutes. Their theorems hold for any
number. `push_cluster` has one instance for the same reason; two of them met one
operator without a violation in 8.17 million states, and the theorems hold for any
number of both.

Properties, by run:

- `version_store`. `HistoryContiguous`: what is retained is a gapless run of
  numbers that ends at the counter, under any sequence of retentions.
  `LiveIsNewest`: the live value is the newest record. `VersionsNeverReassigned`:
  a number never names two contents. `SupersededStaysReachable`: a commit does
  not evict what it supersedes, except with retention 1 - which is also why a
  gray release of a tenant that keeps one version can never be served to
  outsiders nor rolled back. `EveryVersionWasAccepted`: no text is ever stored
  that no schema of its item, past or present, accepts, although the schema may
  change between validation and write and a rollback is not validated.
- `pg_commit`. `Refines`: every COMMIT is one CommitValue of the store, and
  nothing else is visible. `OneWinnerPerVersion`: of the calls that expected one
  version, at most one took effect, acknowledged or not. `EveryCallReturns`.
- `gray_release`. `GrayRollbackRestores`: a gray rollback writes exactly the
  value before the release, right after it, at most once. `RolledBackIsWithdrawn`:
  no release is recorded as rolled back unless that happened.
  `ServedPairCommitted`: an instance is never given one version's value under
  another's number. `EventAfterEffect`: what an event announces can be read when
  the event is published. `SelectedNeverGoesBack`: for an instance that all the
  releases select, versions only grow.
- `long_poll`. `NoLostWakeup`: a suspended poll that has something to get is woken,
  a target, or an event that the gate lets through is on its way; push filter
  and pull path must agree on namespaces, groups, environments and the gray set.
  An event is lost when the bus or its handler drops it, or when the gate cannot read
  the release. `EventuallyCaughtUp`: with events lost and polls evicted, a client that keeps
  asking reaches the version it is entitled to.
- `push_cluster`. `EveryNodeHears`: an event that Redis passed to a node reaches
  every session the node held then and the gate lets through, however full its
  channel is, unless the gate's request about that very session fails or its frame
  queue is full. `RecallCrossesNodes`: an instance that was pushed the gray change
  hears the recall on whatever node and session it has by then, with the same two
  exceptions and if the tracker lost no mark. `HeardOnce`: no session is pushed an
  event twice, the publisher's own node included. `CountCoversPushed`: the count of
  deliveries covers every push of any node and, until a Promote is recorded, holds
  only instances that are selected - also when a GrayRollback then overwrites the
  promotion.
- `server_start`. `SeedNeverOverwrites`: nodes that seed at the same time, die and
  come back write only into a tenant seed created, and give a value only to an
  item they created that has none. `DemoIsWhole`: unless a seed was interrupted, one
  of its calls failed or was refused, or an operator took its namespace, the demo
  tenant ends up complete. `StartEnds`:
  a start ends in serving or in exit.
- `ws_session`. `NothingFallsBetween`: a session that was refused no frame, was not
  overlooked by the gate and was not replaced in the registry has been sent, or is
  about to be, the version it is due of every item, in whatever order snapshot and
  events arrive. `RecallReachesPushed`: a recall targets every session of its
  namespace that was pushed the gray version and is still there and registered
  under its key, whatever happened to its predecessors. `SessionsEnd`: both pumps
  end and the registry entry goes when the socket is closed by either side.
- `line_diff`. `NothingLost`: the left column is the old text, the right one the
  new. `EqualRowsAreLongest`: no diff keeps more lines. `HunksAreCollapsed`: no
  deletion next to an addition is left over. `ChangesAreChanges`: no change joins
  equal lines, and there are changes exactly when the texts differ.
- `merge_kernel`. `RootIsOverlay`: the merged leaves are those no stronger layer
  hides. `LeavesKeepTheirSource`: each is attributed to its owner, exactly unless a
  stronger layer has a leaf whose path reads the same with dots between the keys.
  `EntrySourceSurvives`: the source shown for the key owns a surviving leaf, and
  is the strongest that does, unless a layer holds an empty object.
  `ReadersAgree`: without backslashes, validator and kernel read the same entries
  from an accepted text exactly if no line is separated by a blank.
  `RenderReadsBack`: what the kernel writes it reads back as it was, backslashes
  included, and the validator accepts and reads it alike if it did so with the
  layers.
- `provisioning`. `QuotaOvershootBounded`: quotas are exceeded by at most the
  number of other handlers, namespaces by one more while the tenant has no
  public namespace yet (both bounds are tight: with one less TLC finds a
  violation). `ContainersComplete`: a namespace without its system group was left
  so by a handler that stopped. `LaterLayersFollowFormat`: no item is created in
  a format that a weaker layer contradicted when the check began.

Every one of these properties is refuted by at least one mistaken definition
(marked `wrong` in the modules, listed under `mutants`): numbering by the length
of the history, pruning one too many, a SELECT that is not compared, an event
published before its effect, no second look after registering, and so on.

Deadlock is checked for `line_diff`, `merge_kernel`, `provisioning`,
`server_start` and `push_cluster`. The other instances come to rest when the
version counters reach their bound.

## Where the code and its documentation disagree

Two runs expect a violation; each checks one promise of a comment or the README.

- `promoted_is_not_withdrawn`: Promote and GrayRollback both write back the copy
  of the release they read (481, 527). When they race, a release ends up
  promoted whose value was withdrawn.
- `eventually_same_content`: a snapshot's version is the largest of its entries'
  (`effective.go:236`), and a poll looks for nothing but a larger one before it
  suspends (`handlers.go:372`, 392). A poll that is woken is answered with the fresh
  snapshot even if its version did not grow (404). But a write to another entry
  under a smaller version, whose event is lost or is dispatched between two polls,
  wakes nobody, and no later poll is answered with it. "The server answers at once
  with the latest merged snapshot when there is an update" (`src/README.md:114`) and
  "the consumer will reconcile by fetching a fresh snapshot" (`bus.go:42`) do not
  hold of it.

Observed while modelling, without a run of their own:

- Commit makes the gray version live (`service.go:343`) and creates the release
  that scopes it later (363). An instance outside the gray that pulls in between
  is given the gray version, and if the handler stops there everyone keeps it;
  "Instances outside the gray never left the old value" (494) does not hold.
- When GetRelease fails at the gate, the gray change is not delivered to that
  connection (`effective.go:284-287`) and nothing repeats it: a suspended poll sleeps
  until its timer, a WebSocket misses the version. A failing SISMEMBER does the same
  to a recall (`tracker.go:82-84`). Neither error is logged.
- Promote and GrayRollback that race both publish. A promotion that is overwritten
  by a rollback may mark, and push the value to, instances outside the gray, which
  `ReleaseStats` then counts for a release recorded as rolled back.
- A key may hold a dot, and `joinPath` (`merge.go:174-179`) does not tell it from two
  keys: with `public {"a.b": 1}` and `group {"a": {"b": 2}}` both leaves survive and
  both are attributed to group, although "every surviving leaf key keeps a reference
  to the layer ... it came from" (11-12). `LeavesKeepTheirSource` says that this is
  the only exception.
- Deliveries are recorded by Dispatch only, so a selected instance that pulled the
  gray value by itself is not woken by the recall (README 3.5: "wakes those that
  really received the gray value"). A write, a timeout or a restart brings it
  back. Dispatch also marks a session whose full queue then refuses the frame
  (`hub.go:170-175`), although the count is said to be of successful pushes.
- The set of marks expires a day after the last one (`tracker.go:57`, 70): a
  release withdrawn later recalls nobody. `ReleaseStats` (`hub.go:255`) puts the
  cluster's delivered count beside the connections of one node.
- Events leave their handlers in any order: a recall published before the gray
  change it withdraws finds nobody marked, and the change is pushed after it.
- A node may accept connections before its subscription is in place
  (`main.go:78`), and on a signal stops consuming before its connections are
  gone (97); what is published then reaches no session of that node.
- A seed that is interrupted after CreateTenant leaves a partial demo tenant that
  every later start takes for complete ("idempotent", `main.go:80`, is true of
  overwriting, not of finishing).
- The validator accepts a blank as a separator, continuation lines and escapes
  (`validator.go:134-136`); the kernel reads `a b` as the key `a b` without a
  value, a continued line as two keys, and keeps backslashes
  (`merge.go:233-252`). What an instance is served then differs from what the
  schema was checked against.
- The version of a merged key is that of its winning layer alone
  (`effective.go:236-240`): a field that a weaker layer contributes may change
  without the snapshot's version growing, beside the case that
  `eventually_same_content` shows.
- A live value may be one the present schema refuses: UpdateSchema does not look
  at values, and Rollback (`service.go:421`) does not validate.
- `releaseByItem` (`effective.go:79-93`) ignores the environment of a release: a
  release in one environment is applied to readers of another.
- The loser of two first commits of one slot meets the primary key in
  `Postgres.CommitValue` and is answered a plain database error, not `ErrConflict`
  (400 instead of 409).
- `assertKeyFormat` (`service.go:241`) compares an item with weaker layers only.
  A default created after a group's item of the same key, or a public item after
  either, may have another format, one request after the other; Effective then
  merges across formats although "formats must match" (251).
- A Promote event carries the release's version (`service.go:483`). When a plain
  commit followed the gray one, an outsider's WebSocket is told the older of the
  two, hence `Due` in WsSession.
- A session that was refused a frame (`hub.go:61`) stays behind until its peer
  reconnects; nothing in the server makes it.
- Poll and ws look up no namespace. A client that names one the tenant does not
  have is given the public items but woken by none of their changes, as a public
  change goes to the namespaces that exist (`service.go:384-398`): the proof of
  `NoLostWakeup` needs clients to ask for existing ones (`HubAssumption`).
- A second connection under the same key silently replaces the first. A poll
  then times out and asks again; a WebSocket stays open and is sent nothing more
  (`replaced` in WsSession). Clients behind one address that send no instance id
  share a key.
- The map of merge sources keeps paths that stopped being leaves; with an empty
  object (`public {a: 1}`, `group {a: {}}`) the key's source is wrong.
- A namespace whose creator stopped before `_defaults` was made stays without it:
  a retry is answered with a duplicate. `CreateGroup(ns, "_defaults")` repairs it.

## Fairness

Only liveness needs it, and no specification assumes that operators act or that
events arrive.

- PgCommit: weak fairness of each transaction's next statement - the database goes
  on executing an open transaction that is not blocked.
- LongPoll: weak fairness of the dispatcher (`consumeEvents` is a loop of its own)
  and of each poll: its goroutine runs, its timer fires, and a client that is
  told to reconnect does (`"timeout, please reconnect"`).
- ServerStart: weak fairness of each running node's next step: a process that is up
  executes, and its store calls return, with a result or an error. Nobody is
  assumed to restart a node, nor the database to come back: attempts are counted.
- WsSession: weak fairness of both pumps: each is a goroutine, and a read or a
  write on a closed socket returns an error.

## Proofs

`ServiceProofs` proves in its first part, of VersionStore, for any tenants, items,
environments, texts, kinds, sets of integer retentions and bound on versions:

| theorem | statement |
|---|---|
| `StoreTypeCorrect` | `StoreSpec => []TypeOK` |
| `HistoryNeverHasGaps` | `StoreSpec => []HistoryContiguous` |
| `LiveValueIsNamed` | `StoreSpec => []LiveIsNewest` |
| `NumbersNameOneContent` | `StoreSpec => VersionsNeverReassigned` |
| `SupersededVersionSurvives` | `StoreSpec => SupersededStaysReachable` |

The only assumption is `StoreAssumption` (retentions are integers, the bound is
a natural number, `None` is no tenant and no text).

None of the invariants is inductive by itself: that a commit leaves the history
contiguous needs the counter to equal the live version, and that the live value
is the newest record needs the history to be non-empty once there is a version.
`StoreInv` is their conjunction with the types. `NewestIsTail` says what pruning
does to a non-empty sequence: the result is a non-empty tail that ends in the
same record. `CommitEffect` describes a commit in the terms of `StoreInv`;
`CommitPreservesInv` concludes from it, and `StoreInvariant` by induction over
steps. The two action properties follow from `StoreInv` and `CommitEffect`: a
record of the new history is the appended one, whose number is above the
counter, or a record of the old; and with a retention other than 1 at least two
records are kept, of which the last but one is the superseded one.

In its second part, of ItemSchemas, for any requests, schemas and relation of schemas
and texts besides:

| theorem | statement |
|---|---|
| `StoredTextsWereValidated` | `SchemaSpec => []EveryVersionWasAccepted` |
| `HandlersImplementStore` | `SchemaSpec => StoreSpec` |
| `HandlersKeepHistory` | `SchemaSpec => [](HistoryContiguous /\ LiveIsNewest)` |

with the assumption that `AcceptedBy` maps schemas to sets of texts.
`EveryVersionWasAccepted` is not inductive: a text is on its way in a handler
before it is stored. `SchemaInv` adds to `StoreInv` that every text a call holds
was acceptable to its item (`CallsHoldAccepted`) - for Commit because it was
validated, for Rollback because it was in the history - and that the present
schema is among those recorded (`PresentIsRecorded`). `CommitAddsItsText`
describes what a commit puts into the history after pruning, `SetSchemaKeeps` says
that a new schema takes nothing away from the old ones, and `StepKeepsSchemaInv`
has one case per action. The refinement is by the identity: `WriteIsCommit` and
`HandlersStepStore` show that each step is a commit, a creation or a stutter of
the store, so every theorem about the store holds of the handlers as well.

In its third part, of GrayRelease, for any number of operators, instances and
releases:

| theorem | statement |
|---|---|
| `GrayInvariant` | `Spec => []GrayInv` |
| `ServiceTypeCorrect` | `Spec => [](TypeOK /\ ServiceTypeOK)` |
| `ServiceStepsAreStoreSteps` | `Spec => [][StoreNext]_storeVars` |
| `ServiceKeepsHistory` | `Spec => [](HistoryContiguous /\ LiveIsNewest)` |
| `GrayRollbackAlwaysRestores` | `Spec => []GrayRollbackRestores` |
| `ReleaseWithdrawnOnce` | `Spec => []WithdrawnOnce` |
| `RolledBackOnlyWhenWithdrawn` | `Spec => []RolledBackIsWithdrawn` |
| `ServedAlwaysCommitted` | `Spec => []ServedPairCommitted` |
| `EventAlwaysAfterEffect` | `Spec => []EventAfterEffect` |
| `SelectedAlwaysAdvances` | `Spec => SelectedNeverGoesBack` |

None of these speaks of a handler between two store calls, which is where they
could go wrong. `GrayInv` adds `HandlerOK` (what a `job` holds at each `pc`: a
value that was read is one some commit wrote, the expected version of a gray
rollback is the release's), `ReaderOK` (the same for `Effective`: it asks for a
previous version only when it noted a release that leaves the instance out) and
`CommitsOK` (a number names one commit; everything retained is among the
commits). That a release is withdrawn at most once then follows from numbers:
two withdrawals of one release would both be the commit after its version. What
commits do to the store is `CommitEffect` of the first part.
`SelectedNeverGoesBack` compares two states, and needs only that what was served
does not exceed the live version, which never shrinks.

`PgCommitProofs`, for any number of transactions:

| theorem | statement |
|---|---|
| `PgInvariant` | `PgSpec => []PgInv` |
| `PgTypeCorrect` | `PgSpec => []TypeOK` |
| `VersionHasOneWinner` | `PgSpec => []OneWinnerPerVersion` |
| `PgImplementsStore` | `PgSpec => Refines` |

The core of `PgInv` is `TxOK`: a transaction that has read a row holds it, and one
that found none holds the key from its insert on; in both cases the row is then as
it was read (`Holds`). What it has added and removed is what a commit of the
store would add and remove. `HistoryOK` says that the version
rows are a run of numbers up to the live one, of which `NewestOfRun` derives that
the DELETE by rank prunes what the store prunes by length. The refinement is
complete: COMMIT maps to `CommitValue` (`CommitMapped`), every other statement
to a stutter, the initial tables to the initial store.

`PushClusterProofs`, for any number of nodes, instances, operators and channel slots:

| theorem | statement |
|---|---|
| `ClusterInvariant` | `Spec => []ClusterInv` |
| `StatsCoverPushed` | `Spec => []CountCoversPushed` |
| `SessionHearsOnce` | `Spec => []HeardOnce` |
| `SessionsOfEveryNodeHear` | `Spec => []EveryNodeHears` |
| `RecallReachesEveryNode` | `Spec => []RecallCrossesNodes` |

An event is at most once in a node's wire, channel and dispatcher together, and a
session that has heard it is behind it in that order (`NodeOK`, `OrderOK`,
`HeardOK`); `PresentOK` says that an instance an event still owes is a target or
has the event ahead of it in one of the queues, unless a failing request or a full
queue kept it away (`missed`). `CallsOK` and `OutboxOK` are about the calls that race
to end the release: an operator has one call at a time, at most one call commits
the old value again, and so each event is announced once (`Announced`).
`EveryNodeHears` is about the end of that way, so it follows, but is not inductive.

`PushProofs` begins with what poll and ws have in common: how a write, a release and
their events change what a client is owed. Then, of LongPoll, for any clients,
subscriptions, layers and slots:

| theorem | statement |
|---|---|
| `LongPollInvariant` | `Spec => []PollInv` |
| `WakeUpNeverLost` | `Spec => []NoLostWakeup` |

`WakeUpOK` strengthens it in two ways: a suspended poll that nothing covers - no
wake-up, no target, no event that the gate lets through on its way - has nothing
to get in any *slot* that contributes to its snapshot, and that includes versions
that are written but whose release is not (`Settled`). The
lemma the proof turns on is `PushMatchesPull`: the namespaces, groups and
environments that `fanout` and `Dispatch` let an event through to are those whose
`layerContainers` have the item. `GateLets` is the same for the gray set, and
`SnapshotVersion` says what the number of a snapshot is made of. The other parts
say which connection object of a client may still be registered or a target
(`HubOK`), what the calls that end a release have found (`CallsOK`) and which events
it can have (`EventsOK`). A write that is withdrawn is excused, as recalls go by the
tracker; every other step of a racing call - also the later one that overwrites the
status - gives nobody anything to get that is not announced.

and of WsSession, for any clients, connections, slots, frames and events:

| theorem | statement |
|---|---|
| `SessionInvariant` | `SessionSpec => []SessionInv` |
| `SessionTypeCorrect` | `SessionSpec => []TypeOK` |
| `SessionsInStep` | `SessionSpec => []InStep` |
| `NothingIsMissed` | `SessionSpec => []NothingFallsBetween` |
| `RecallReaches` | `SessionSpec => RecallReachesPushed` |

Nothing is assumed of keys: clients may share one. A session is then in step as long
as no other has been registered in its place (`replaced`), which is when the code
stops serving it.

`SessionInv` has one part per actor: `BusOK` and `DispatchOK` (a target of an event
subscribes to it, and who is about to be queued a gray event is marked),
`SessionOK` (types, and which frames a session may hold at each step of its life)
and `HoldersOK` (who was pushed a gray version is marked, and the mark outlives
sessions). `NothingFallsBetween` says nothing of the slot of a release that is
being opened, nor of a session whose snapshot is not queued yet, so it is not
inductive: `SyncOK` says of every served session, from the moment its snapshot is
taken, that what its client is owed of each slot (`Owed`) has been told, is in its
snapshot or queue, is with the dispatcher, or is an event on its way (`Covers`),
and `RegisteredOK` that a session is in the registry as long as it is served and not
replaced. An
event that comes between registering and the snapshot then finds the session.

`ServerStartProofs`, for any number of nodes, attempts and operators' writes:

| theorem | statement |
|---|---|
| `StartInvariant` | `Spec => []StartInv` |
| `SeedIsSafe` | `Spec => []SeedNeverOverwrites` |
| `UninterruptedSeedIsWhole` | `Spec => []DemoIsWhole` |

`FillingOK`: at most one node ever fills the tenant, the one whose insert made it;
every row behind it exists, and at a value the item is its own and unwritten or
an operator's. `FilledOK` says what is there once nobody fills it.

`ProvisioningProofs`, for any number of concurrent requests and any quotas:

| theorem | statement |
|---|---|
| `ProvisioningInvariant` | `Spec => []ProvisioningInv` |
| `OvershootAlwaysBounded` | `Spec => []QuotaOvershootBounded` |
| `ContainersAlwaysComplete` | `Spec => []ContainersComplete` |
| `FormatAlwaysFollowed` | `Spec => []LaterLayersFollowFormat` |

By how much a quota is exceeded is not inductive: `QuotaOK` counts what exists
*and* the handlers that have counted and may still add to it; together they stay
within the largest quota so far (`PeakOK`) and the number of operators, as a
handler counts at most what is there. `FormatsOK` says of a handler that the formats it has
still to fear are those of layers it has still to look at.

`LineDiffProofs`, for texts of any length over any lines:

| theorem | statement |
|---|---|
| `DiffInvariant` | `Spec => []DiffInv` |
| `AnswerLosesNothing` | `Spec => []NothingLost` |
| `AnswerIsLongest` | `Spec => []EqualRowsAreLongest` |
| `AnswerIsCollapsed` | `Spec => []HunksAreCollapsed` |
| `AnswerShowsTheChanges` | `Spec => []ChangesAreChanges` |

That the table exists and obeys its equation everywhere (`TableCells`) is shown
without an induction principle over operators: by the least number (`LeastNumber`,
from well-foundedness of `<`) at which a partially filled table could not be
filled further. `TableSteps` and `TableFalls` say that neighbouring cells differ by
at most one and fall downwards and to the right. `Path(x, y)` is the walk as
positions before each row, each step dictated by the table (`WalkedPast`): an
equal row takes one off the cell, the others nothing (`WalkedPastKeeps`), and no
deletion follows an addition (`DeletesFirst`, where the tie matters).
`Account(a, b)` says of the rows answered so far that they hold every line before a
and b once and in order, and as many equal rows as the first cell of the table
exceeds cell a, b; `AccountGrows` adds a copied row or a collapsed hunk to it. A
change cannot join equal lines, because a hunk takes nothing off the cell
(`HunkGoesOn`). That no common subsequence is longer than the first cell
(`TableIsEnough`) goes up the subsequence from its end; `PlaceTaken` gives the
CHOOSE in the definition of a subsequence its element.

`MergeKernelProofs`, for documents of any depth over any field names:

| theorem | statement |
|---|---|
| `MergeIsOverlay` | `Spec => []RootIsOverlay` |
| `MergeKeepsSources` | `Spec => []LeavesKeepTheirSource` |
| `EntrySourceIsOwner` | `Spec => []EntrySourceSurvives` |
| `ReadersAgreeOnTexts` | `Spec => []ReadersAgree`, for texts of any length and characters |
| `RenderedIsReadBack` | `Spec => []RenderReadsBack`, likewise |

`MergeExists` shows that the recursion of `DeepMerge` has a value: by `LeastNumber`
over the lengths of prefixes, from the longest up, as `Bounded` says that a document
has no object below `Depth`. `MergeValues` follows it down a path, one field at a
time, and `MergeLeaves` is what the rest needs: the merged document has the leaves
of the stronger one, and those of the weaker one where the stronger is `Free` - has
neither a value there nor a leaf above. `KernelInv` says of the layers merged so far
that they are weaker than those to come and that the root has the leaves no layer
above hides (`DeepRoot`, or `OverriddenRoot` by key), which is `RootIsOverlay` once
none is left, and that every recorded text is that of a path its layer marked, under
the strongest layer that marked one that reads so (`SourcesOf`). A leaf's own path
and another that reads the same are told apart in `MergeKeepsSources` only. The paths of replaced values stay among
them, so that the source of the key owns a surviving leaf is an argument of its own
(`StrongestIsSource`): the strongest layer that marked anything has nothing above
it to hide its leaves, as long as no layer holds an empty object.

The two theorems about properties texts argue by places, as those about LineDiff do:
a recursive function over the places of a text is shown to have a value, and to be
what is said of it, from each place to the next (`Upward`, from `LeastNumber`).
`TrimText` and `LineAt` say where the part that a trim or a split takes begins and
ends. The invariant is `TextsInv`. Its first half, `WrittenMap(RootMap)`, says that
what was merged can be written: no separator or newline is in a key, no newline in a
value, no comment sign before a key, no blanks around either. `DecodeWritten` shows
this of whatever the kernel reads, from any text, and `MapsOver` that putting one map
over another keeps it. `EncodedLines` then says that the rendered text has one line
for each key and nothing else, adding one line at a time (`LineAppended`), and
`ReadsBack` that the kernel reads these lines as the map. An empty key is among those
it can read and write; the validator is what refuses it.

The other half, `AllAlike => PlainMap(RootMap)`, is about the validator. It needs more
than what the kernel writes: keys without blanks, which follow only if the layers
were read alike (`AlikeIsPlain`). In a text without backslashes no character is
escaped (`NoneEscaped`), decoding escapes changes nothing (`PlainEscapes`) and no lines
are joined (`PlainLogical`), so that both readers see the same lines.
`EntryIs` says of a line where the validator ends its key and begins its value, and
`DecodeParts` the same of the kernel. `SameEntry` compares the two: they agree
when the first separator after the key is "=" or ":" or nothing follows, and
`BlankApart` gives the converse, as the kernel's key then holds a character more. From
lines to texts (`AlikeIff`) the validator's refusal of repeated keys is what is
needed: the kernel lets the last of several lines stand.

Assumptions, all named, in the modules that declare the constants, and evaluated
by TLC on the instances: `StoreAssumption`, `SchemaAssumption`, `GrayAssumption`,
`PgAssumption`, `HubAssumption`, `EventsAssumption`, `ClusterAssumption`,
`StartAssumption`, `ProvisioningAssumption`, `SessionAssumption`, `DiffAssumption`,
`KernelAssumption`, `TextsAssumption`. They say that bounds are natural numbers, that `None` and the names the code reserves (`_public`, `_defaults`) are
none of the values they stand beside, that a queue holds at least one element,
that there are finitely many requests at a time, and, in `HubAssumption`, that
clients ask for namespaces of the tenant; `KernelAssumption` says that a layer's
document holds leaves of that layer and objects that nest less deep, and
`TextsAssumption` that texts are sequences of characters, among which are "=" and
the newline that the writer adds; which of them are accepted is a guard. Quotas may be any integer: the code
does not validate them.

Every inductive invariant was checked by TLC on the instances of the runs before
it was proved.

## Only model-checked, and not modelled

Only model-checked: liveness (`EveryCallReturns`, `EventuallyCaughtUp`,
`SessionsEnd`, `StartEnds`; temporal reasoning under fairness is out of the
prover's reach). All other properties of the passing runs are theorems.

Not modelled:

- Parsing and rendering of JSON, YAML and TOML and the JSON Schema validator:
  libraries. Two consequences are used: committed documents parse, to an object.
- Error positions and messages of the validator: wording.
- Routing, status codes, request binding (`api/router.go`, the other handlers) and
  the console: no state with a protocol.
- Dashboard data (`Stats`, `ListInstances`, `lastPush`) and listings: read-only
  views.
- The go-redis client's own buffer and reconnection, and Redis's limit on slow
  subscribers: `wire` loses nothing once Redis has sent it. A longer outage is a
  node that is not among those an event reaches (`Publish` takes any subset).
- Two environments in GrayRelease, hence what is said above of `releaseByItem`.
- The hash of `gray/gray.go`: a release selects an arbitrary fixed set. Keys held by
  several layers at once on the push side: the slots of ServiceEvents have
  different keys, and layers of one key meet in MergeKernel.
- A single node with the in-memory store or bus is covered by VersionStore and
  PushHub, not by ServerStart and PushCluster.

## Plan

Done, in this order, from the centre outwards: VersionStore and its proofs,
PgCommit as its refinement, GrayRelease, PushHub with LongPoll, LineDiff,
MergeKernel, Provisioning, WsSession; then ItemSchemas and its proofs,
PropertiesFormat under MergeKernel, ServerStart and PushCluster; then the proofs
about GrayRelease, PgCommit, PushCluster, ServerStart, Provisioning and LongPoll,
WsSession, LineDiff and MergeKernel.

Next, models:

1. GrayRelease with two environments: what a release of one does to readers of
   the other (`effective.go:79-93`).
2. The transactions of the other PostgreSQL methods against each other
   (CreateNamespace and CreateGroup under foreign keys).

## Conventions

Names are the source's where TLA+ allows it. A handler's position is a `pc` whose
labels name the call it makes next. Bounds are constants named `Max...` or
`...Cap`, or a guard's. A definition whose comment begins with `wrong:` is a
mistake the code could have made instead of the definition below it; no
specification uses it. A `MC` module gives the constants of a module values;
each `.cfg` is one run. To repeat a run: `tlc -config MCX.cfg MCX`; to repeat the
proofs: `tlapm XProofs.tla`.
