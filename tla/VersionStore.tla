---------------------------- MODULE VersionStore ----------------------------
(***************************************************************************)
(* The versioned value store: the part of store.Store that CommitValue,    *)
(* GetVersion and GetItem share, as store.Memory implements it under one   *)
(* mutex (store/memory.go).  Every operation is therefore one atomic step. *)
(*                                                                         *)
(* A slot is one item in one environment.  It has a live value, a version  *)
(* counter that only grows, and the retained tail of its history.          *)
(***************************************************************************)
EXTENDS Integers, Sequences

CONSTANTS
  Tenants,      \* tenant ids
  Items,        \* item ids (uuid.NewString, never reused)
  Envs,         \* environments
  Vals,         \* configuration texts, opaque to the store
  Kinds,        \* change types recorded with a version
  Retentions,   \* tenants' version_retention settings; 0 or less keeps all
  MaxVersion,   \* bound on the version counters
  None          \* no owner, no value

ASSUME StoreAssumption ==
  /\ Retentions \subseteq Int
  /\ MaxVersion \in Nat
  /\ None \notin Tenants \cup Vals

VARIABLES
  owner,        \* owner[i]: tenant of item i, None before the item is created
  values,       \* values[s]: item.Values[env], version 0 when there is no entry
  versionSeq,   \* versionSeq[s]: last version number handed out
  versions      \* versions[s]: retained history, oldest first

storeVars == <<owner, values, versionSeq, versions>>

Slots      == Items \X Envs
NoEntry    == [version |-> 0, value |-> None]
EnvValue   == [version : Nat, value : Vals \cup {None}]
VersionRec == [version : Nat \ {0}, value : Vals, kind : Kinds]

\* store.CommitValueParams
CommitParams == [tenant : Tenants, slot : Slots, expected : 0 .. MaxVersion,
                 value : Vals, kind : Kinds, retention : Retentions]

-----------------------------------------------------------------------------
StoreInit ==
  /\ owner      = [i \in Items |-> None]
  /\ values     = [s \in Slots |-> NoEntry]
  /\ versionSeq = [s \in Slots |-> 0]
  /\ versions   = [s \in Slots |-> <<>>]

\* Definitions marked "wrong" are mistakes the code could have made instead of
\* the definition they precede; no specification uses them.

\* wrong: the counter is read before it is incremented
NextVersionNotAdvanced(s) == versionSeq[s]

\* wrong: numbering by the retained history, which pruning shortens
NextVersionFromLength(s) == Len(versions[s]) + 1

NextVersion(s) == versionSeq[s] + 1

\* wrong: keeps the oldest records
NewestKeepsOldest(h, n) == IF n > 0 /\ Len(h) > n THEN SubSeq(h, 1, n) ELSE h

\* wrong: drops one record too many
NewestOffByOne(h, n) ==
  IF n > 0 /\ Len(h) >= n THEN SubSeq(h, Len(h) - n + 2, Len(h)) ELSE h

\* The newest n records of a history; n <= 0 keeps everything.
Newest(h, n) ==
  IF n > 0 /\ Len(h) > n THEN SubSeq(h, Len(h) - n + 1, Len(h)) ELSE h

\* What CommitValue answers to p in the current state.
CommitOutcome(p) ==
  IF owner[p.slot[1]] # p.tenant THEN "notfound"
  ELSE IF p.expected # values[p.slot].version THEN "conflict"
  ELSE "ok"

\* The version record p becomes.
CommittedRec(p) ==
  [version |-> NextVersion(p.slot), value |-> p.value, kind |-> p.kind]

\* CommitValue: compare the expected version, number the new one, append it
\* to the history, prune, and make it the live value.  A call that answers
\* an error changes nothing.
CommitValue(p) ==
  /\ CommitOutcome(p) = "ok"
  /\ NextVersion(p.slot) <= MaxVersion
  /\ versionSeq' = [versionSeq EXCEPT ![p.slot] = NextVersion(p.slot)]
  /\ versions'   = [versions EXCEPT
                      ![p.slot] = Newest(Append(@, CommittedRec(p)), p.retention)]
  /\ values'     = [values EXCEPT
                      ![p.slot] = [version |-> NextVersion(p.slot), value |-> p.value]]
  /\ UNCHANGED owner

\* CreateItem: an id is taken once; the item starts without any value.
CreateItem(t, i) ==
  /\ owner[i] = None
  /\ owner' = [owner EXCEPT ![i] = t]
  /\ UNCHANGED <<values, versionSeq, versions>>

\* GetVersion finds version n of a slot only while it is retained.
Retained(s, n)  == \E k \in DOMAIN versions[s] : versions[s][k].version = n
GetVersion(s, n) ==
  versions[s][CHOOSE k \in DOMAIN versions[s] : versions[s][k].version = n]

StoreNext ==
  \/ \E t \in Tenants, i \in Items : CreateItem(t, i)
  \/ \E p \in CommitParams : CommitValue(p)

StoreSpec == StoreInit /\ [][StoreNext]_storeVars

-----------------------------------------------------------------------------
\* Every variable keeps its type; a record in the history has a version >= 1.
TypeOK ==
  /\ owner      \in [Items -> Tenants \cup {None}]
  /\ values     \in [Slots -> EnvValue]
  /\ versionSeq \in [Slots -> Nat]
  /\ versions   \in [Slots -> Seq(VersionRec)]

\* The retained history is a gapless run of version numbers that ends at the
\* counter, whatever was pruned and however often the retention changed
\* ("each version number is handed out once and nothing in between is erased").
HistoryContiguous ==
  \A s \in Slots : \A k \in DOMAIN versions[s] :
    versions[s][k].version = versionSeq[s] - Len(versions[s]) + k

\* The live value is the newest history record: what readers see can always
\* be named by a version, compared by diff and rolled back to.
LiveIsNewest ==
  \A s \in Slots :
    /\ values[s].version = versionSeq[s]
    /\ versionSeq[s] > 0 =>
         /\ Len(versions[s]) > 0
         /\ versions[s][Len(versions[s])].value = values[s].value

\* A version number never names two contents: a record in the history was
\* there before the step, unchanged, or has a number never used before.
VersionsNeverReassigned ==
  [][\A s \in Slots : \A k \in DOMAIN versions'[s] :
       \/ \E j \in DOMAIN versions[s] : versions'[s][k] = versions[s][j]
       \/ versions'[s][k].version > versionSeq[s]]_storeVars

\* A commit does not evict the version it supersedes unless the tenant keeps
\* a single version: GetVersion(current - 1), which a gray release that has
\* just been opened relies on, still succeeds.
SupersededStaysReachable ==
  [][\A p \in CommitParams :
       /\ CommitValue(p)
       /\ values[p.slot].version > 0
       /\ p.retention # 1
       => \E k \in DOMAIN versions'[p.slot] :
            /\ versions'[p.slot][k].version = values[p.slot].version
            /\ versions'[p.slot][k].value   = values[p.slot].value]_storeVars
=============================================================================
