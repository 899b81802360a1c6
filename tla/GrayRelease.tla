---------------------------- MODULE GrayRelease -----------------------------
(***************************************************************************)
(* The write and read paths of the configuration service over the store:   *)
(* Commit, Rollback, Promote and GrayRollback (service/service.go) and the *)
(* serving-time gate of Effective (service/effective.go).                  *)
(*                                                                         *)
(* The service holds no lock.  A handler is a sequence of store calls, each *)
(* atomic (VersionStore), and the handlers of concurrent requests           *)
(* interleave between them.  Any handler can stop after any call: the       *)
(* request's context is cancelled, the store answers an error, the process  *)
(* dies.  The store keeps what was written.                                 *)
(***************************************************************************)
EXTENDS VersionStore, FiniteSets

CONSTANTS
  Operators,    \* workers that execute one write request after the other
  Instances,    \* client instances that pull Effective
  MaxReleases   \* bound on the number of gray releases

ASSUME GrayAssumption ==
  /\ MaxReleases \in Nat
  /\ Kinds = {"create", "update", "rollback", "gray_rollback"}

VARIABLES
  releases,     \* the releases table in StartedAt order; a release id is an index;
                \* selected is the set a release's strategy picks, fixed for its life
  pc,           \* pc[o]: the store call operator o makes next
  job,          \* job[o]: the request and the values its handler holds
  rpc,          \* rpc[n]: the store call instance n's Effective makes next
  read,         \* read[n]: what that Effective holds
  served,       \* served[n]: the entry instance n was given last
  commits       \* history variable: every version ever written, pruned or not

svcVars  == <<releases, pc, job>>
readVars == <<rpc, read, served>>
vars     == <<storeVars, svcVars, readVars, commits>>

NoJob == [op |-> "commit", slot |-> CHOOSE s \in Slots : TRUE, expected |-> 0,
          value |-> None, version |-> 0, rel |-> 0, selected |-> {}]

Init ==
  /\ owner \in [Items -> Tenants]
  /\ values     = [s \in Slots |-> NoEntry]
  /\ versionSeq = [s \in Slots |-> 0]
  /\ versions   = [s \in Slots |-> <<>>]
  /\ releases  = <<>>
  /\ pc        = [o \in Operators |-> "idle"]
  /\ job       = [o \in Operators |-> NoJob]
  /\ rpc       = [n \in Instances |-> "idle"]
  /\ read      = [n \in Instances |-> [slot |-> NoJob.slot, rel |-> 0]]
  /\ served    = [n \in Instances |-> [slot |-> NoJob.slot, version |-> 0, value |-> None]]
  /\ commits   = {}

-----------------------------------------------------------------------------
\* Operator o continues at label l holding j.  A value a handler does not use
\* again is dropped from j.
Continue(o, l, j) ==
  /\ pc'  = [pc EXCEPT ![o] = l]
  /\ job' = [job EXCEPT ![o] = j]

\* The handler of o returns, with an error or because it is finished.
Return(o) == Continue(o, "idle", NoJob)

\* Everything but the operator's own control state stays.
OnlyLocal == UNCHANGED <<storeVars, releases, readVars, commits>>

\* Commit: an operator edits the version it has loaded, plainly or as a gray
\* release for some instances.  Validation and GetItem read nothing that
\* changes.
StartCommit(o, s, v) ==
  /\ pc[o] = "idle"
  /\ \/ Continue(o, "commitValue", [NoJob EXCEPT !.op = "commit", !.slot = s,
                    !.expected = values[s].version, !.value = v])
     \/ \E sel \in SUBSET Instances :
          Continue(o, "commitValue", [NoJob EXCEPT !.op = "gray", !.slot = s,
                    !.expected = values[s].version, !.value = v, !.selected = sel])
  /\ OnlyLocal

\* Rollback begins with the value of the target version, if still retained.
StartRollback(o, s, target) ==
  /\ pc[o] = "idle"
  /\ Retained(s, target)
  /\ Continue(o, "getItem", [NoJob EXCEPT !.op = "rollback", !.slot = s,
                               !.value = GetVersion(s, target).value])
  /\ OnlyLocal

\* Promote and GrayRollback begin with GetRelease and go on only with a release
\* in gray status, of which they keep a copy.
StartPromote(o, r) ==
  /\ pc[o] = "idle"
  /\ releases[r].status = "gray"
  /\ Continue(o, "updateRelease", [NoJob EXCEPT !.op = "promote", !.rel = r,
                    !.slot = releases[r].slot, !.version = releases[r].version])
  /\ OnlyLocal

StartGrayRollback(o, r) ==
  /\ pc[o] = "idle"
  /\ releases[r].status = "gray"
  /\ Continue(o, "getPrev", [NoJob EXCEPT !.op = "gray_rollback", !.rel = r])
  /\ OnlyLocal

-----------------------------------------------------------------------------
\* Rollback: the version that is live now becomes the expected one.
GetItem(o) ==
  /\ pc[o] = "getItem"
  /\ Continue(o, "commitValue", [job[o] EXCEPT !.expected = values[job[o].slot].version])
  /\ OnlyLocal

ChangeType(j) ==
  CASE j.op = "rollback"      -> "rollback"
    [] j.op = "gray_rollback" -> "gray_rollback"
    [] OTHER                  -> IF j.expected = 0 THEN "create" ELSE "update"

\* The parameters of the handler's CommitValue.  n is the version_retention its
\* GetTenant returned: a quota update may come before or after any call, so
\* every setting is possible.
ParamsOf(j, n) ==
  [tenant |-> owner[j.slot[1]], slot |-> j.slot, expected |-> j.expected,
   value |-> j.value, kind |-> ChangeType(j), retention |-> n]

\* Definitions marked "wrong" are mistakes the code could have made instead of
\* the definition they precede; no specification uses them.

\* wrong: the event of a gray change goes out before its release exists
AfterCommitPublishesFirst(j) == IF j.op = "gray_rollback" THEN "updateRelease" ELSE "publish"

\* The step of the handler after its CommitValue succeeded.
AfterCommit(j) ==
  CASE j.op = "gray"          -> "createRelease"
    [] j.op = "gray_rollback" -> "updateRelease"
    [] OTHER                  -> "publish"

CommitStep(o) ==
  /\ pc[o] = "commitValue"
  /\ \E n \in Retentions : LET p == ParamsOf(job[o], n) IN
       \/ /\ CommitValue(p)
          /\ commits' = commits \cup
               {[slot |-> p.slot, version |-> NextVersion(p.slot), value |-> p.value,
                 kind |-> p.kind, rel |-> job[o].rel]}
          /\ Continue(o, AfterCommit(job[o]),
                      [job[o] EXCEPT !.version = NextVersion(p.slot), !.value = None,
                         !.expected = IF job[o].op = "gray" THEN @ ELSE 0])
       \/ /\ CommitOutcome(p) # "ok"
          /\ Return(o)
          /\ UNCHANGED <<storeVars, commits>>
  /\ UNCHANGED <<releases, readVars>>

\* The releases table: an id is never used again, and an update writes the
\* handler's copy, which differs from the row it read in its status.
AddRelease(r) == releases' = Append(releases, r)
SetStatus(r, status) == releases' = [releases EXCEPT ![r].status = status]

\* wrong: the previous version is looked up when the new one is already live
CreateReleaseLatePrev(o) ==
  /\ pc[o] = "createRelease"
  /\ Len(releases) < MaxReleases
  /\ AddRelease([slot |-> job[o].slot, version |-> job[o].version,
                 prev |-> values[job[o].slot].version,
                 selected |-> job[o].selected, status |-> "gray"])
  /\ Continue(o, "publish", [job[o] EXCEPT !.rel = Len(releases) + 1,
                                       !.expected = 0, !.selected = {}])
  /\ UNCHANGED <<storeVars, readVars, commits>>

\* Commit: the release that scopes the version written by the step before.
CreateRelease(o) ==
  /\ pc[o] = "createRelease"
  /\ Len(releases) < MaxReleases
  /\ AddRelease([slot |-> job[o].slot, version |-> job[o].version, prev |-> job[o].expected,
                 selected |-> job[o].selected, status |-> "gray"])
  /\ Continue(o, "publish", [job[o] EXCEPT !.rel = Len(releases) + 1,
                                       !.expected = 0, !.selected = {}])
  /\ UNCHANGED <<storeVars, readVars, commits>>

\* wrong: a previous version that is gone leaves nothing to write back
GetPrevTolerant(o) ==
  /\ pc[o] = "getPrev"
  /\ LET r == releases[job[o].rel] IN
       IF Retained(r.slot, r.prev)
         THEN Continue(o, "commitValue", [job[o] EXCEPT !.slot = r.slot,
                !.value = GetVersion(r.slot, r.prev).value, !.expected = r.version])
         ELSE Continue(o, "updateRelease", [job[o] EXCEPT !.slot = r.slot])
  /\ OnlyLocal

\* GrayRollback: the value from before the release, if it is still retained.
\* The release's own version is what the commit will expect.
GetPrev(o) ==
  /\ pc[o] = "getPrev"
  /\ LET r == releases[job[o].rel] IN
       IF Retained(r.slot, r.prev)
         THEN Continue(o, "commitValue", [job[o] EXCEPT !.slot = r.slot,
                !.value = GetVersion(r.slot, r.prev).value, !.expected = r.version])
         ELSE Return(o)
  /\ OnlyLocal

\* UpdateRelease stores the handler's copy, whatever the row says by now.
UpdateRelease(o) ==
  /\ pc[o] = "updateRelease"
  /\ SetStatus(job[o].rel, IF job[o].op = "promote" THEN "promoted" ELSE "rolled_back")
  /\ Continue(o, "publish", job[o])
  /\ UNCHANGED <<storeVars, readVars, commits>>

\* fanout hands the event for job[o] to the bus and the handler is finished.
\* The bus keeps nothing the handlers or Effective read.
Publish(o) == pc[o] = "publish" /\ Return(o) /\ OnlyLocal

\* The handler stops between two store calls.
Stop(o) == pc[o] # "idle" /\ Return(o) /\ OnlyLocal

\* The store's ActiveReleases, in the order they started.
ActiveReleases(i) ==
  {r \in DOMAIN releases : releases[r].status = "gray" /\ releases[r].slot[1] = i}

-----------------------------------------------------------------------------
\* releaseByItem keeps the release of an item that started last, whatever its
\* environment; 0 when none is in gray status.
ActiveRelease(i) ==
  LET active == ActiveReleases(i)
  IN  IF active = {} THEN 0 ELSE CHOOSE r \in active : \A q \in active : q <= r

\* Effective: first the active releases ...
StartRead(n, s) ==
  /\ rpc[n] = "idle"
  /\ rpc'  = [rpc EXCEPT ![n] = "items"]
  /\ read' = [read EXCEPT ![n] = [slot |-> s, rel |-> ActiveRelease(s[1])]]
  /\ UNCHANGED <<storeVars, svcVars, served, commits>>

\* Effective of n returns entry e, or fails and leaves what n holds.
Answer(n, e) ==
  /\ served' = [served EXCEPT ![n] = [slot |-> read[n].slot,
                  version |-> e.version, value |-> e.value]]
  /\ rpc'  = [rpc EXCEPT ![n] = "idle"]
  /\ read' = [read EXCEPT ![n].rel = 0]

FailRead(n) ==
  /\ rpc'  = [rpc EXCEPT ![n] = "idle"]
  /\ read' = [read EXCEPT ![n].rel = 0]
  /\ UNCHANGED served

\* wrong: every active release is served as if it selected nobody
EntitledToNone(n, r) == r = 0

Entitled(n, r) == r # 0 => n \in releases[r].selected

\* ... then the items: servedValue, up to its call of GetVersion.
ReadItems(n) ==
  /\ rpc[n] = "items"
  /\ LET s == read[n].slot
         r == read[n].rel
     IN  IF values[s].version # 0 => Entitled(n, r)
           THEN Answer(n, values[s])
           ELSE IF releases[r].prev = 0
             THEN Answer(n, NoEntry)
             ELSE /\ rpc' = [rpc EXCEPT ![n] = "prev"]
                  /\ UNCHANGED <<read, served>>
  /\ UNCHANGED <<storeVars, svcVars, commits>>

\* wrong: the old value under the number of the live version
ReadPrevUnderLiveVersion(n) ==
  /\ rpc[n] = "prev"
  /\ LET s == read[n].slot
         v == releases[read[n].rel].prev
     IN  IF Retained(s, v)
           THEN Answer(n, [version |-> values[s].version, value |-> GetVersion(s, v).value])
           ELSE FailRead(n)
  /\ UNCHANGED <<storeVars, svcVars, commits>>

\* An instance outside the gray is given the version before it; when that
\* version is gone the whole request fails.
ReadPrev(n) ==
  /\ rpc[n] = "prev"
  /\ LET s == read[n].slot
         v == releases[read[n].rel].prev
     IN  IF Retained(s, v) THEN Answer(n, GetVersion(s, v)) ELSE FailRead(n)
  /\ UNCHANGED <<storeVars, svcVars, commits>>

-----------------------------------------------------------------------------
OperatorStep(o) ==
  \/ \E s \in Slots, v \in Vals : StartCommit(o, s, v)
  \/ \E s \in Slots, n \in 1 .. MaxVersion : StartRollback(o, s, n)
  \/ \E r \in DOMAIN releases : StartPromote(o, r) \/ StartGrayRollback(o, r)
  \/ GetItem(o) \/ GetPrev(o) \/ CommitStep(o)
  \/ CreateRelease(o) \/ UpdateRelease(o) \/ Publish(o) \/ Stop(o)

ReaderStep(n) ==
  \/ \E s \in Slots : StartRead(n, s)
  \/ ReadItems(n) \/ ReadPrev(n)

Next ==
  \/ \E o \in Operators : OperatorStep(o)
  \/ \E n \in Instances : ReaderStep(n)

Spec == Init /\ [][Next]_vars

-----------------------------------------------------------------------------
\* A gray rollback puts back exactly the value from before its release, as the
\* version right after it, and at most once per release: no other write, no
\* second rollback of the release and no pruning gets in between, although
\* the handler reads the release, the old version and the tenant in separate
\* calls before it commits.
GrayRollbackRestores ==
  \A c \in commits : c.kind = "gray_rollback" =>
    LET r == releases[c.rel] IN
      /\ c.slot = r.slot
      /\ c.version = r.version + 1
      /\ \E b \in commits : /\ b.slot = r.slot /\ b.version = r.version - 1
                            /\ b.value = c.value

\* A release is marked rolled_back only when its value has been withdrawn.
RolledBackIsWithdrawn ==
  \A r \in DOMAIN releases : releases[r].status = "rolled_back" =>
    \E c \in commits : c.kind = "gray_rollback" /\ c.rel = r

\* Whatever handlers it raced with, an instance is given nothing or a pair of
\* version and value that one commit wrote: never the value of one version
\* under the number of another.
ServedPairCommitted ==
  \A n \in Instances : served[n].version # 0 =>
    \E c \in commits : /\ c.slot = served[n].slot
                       /\ c.version = served[n].version
                       /\ c.value = served[n].value

\* An instance that every release of the item selects never goes back: each
\* Effective gives it at least the version it was given before.
SelectedNeverGoesBack ==
  [][\A n \in Instances :
       /\ served'[n].slot = served[n].slot
       /\ \A r \in DOMAIN releases :
            releases[r].slot[1] = served[n].slot[1] => n \in releases[r].selected
       => served'[n].version >= served[n].version]_vars

\* An event is handed to the bus only after what it announces is in the store:
\* the version is written, the release a gray change names exists, and a
\* release announced as promoted or withdrawn is no longer served as gray.  An
\* instance the event wakes can therefore pull what the event is about.
EventAfterEffect ==
  \A o \in Operators : pc[o] = "publish" =>
    /\ \E c \in commits : c.slot = job[o].slot /\ c.version = job[o].version
    /\ job[o].op = "gray" => /\ job[o].rel \in DOMAIN releases
                             /\ releases[job[o].rel].slot = job[o].slot
                             /\ releases[job[o].rel].version = job[o].version
    /\ job[o].op \in {"promote", "gray_rollback"} =>
         releases[job[o].rel].status # "gray"

\* "Promote ends the observation window and pushes the gray value to everyone"
\* (service.go, Promote): a release recorded as promoted has not been withdrawn.
PromotedIsNotWithdrawn ==
  \A r \in DOMAIN releases : releases[r].status = "promoted" =>
    \A c \in commits : c.rel # r
=============================================================================
