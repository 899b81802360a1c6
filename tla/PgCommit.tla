------------------------------ MODULE PgCommit ------------------------------
(***************************************************************************)
(* Postgres.CommitValue (store/postgres.go): the transaction that advances *)
(* one slot, statement by statement, under READ COMMITTED.  Transactions   *)
(* of concurrent requests interleave between statements; their writes are  *)
(* private until COMMIT; SELECT ... FOR UPDATE and INSERT take the lock of *)
(* the row of item_values; any transaction may be aborted at any point.    *)
(*                                                                         *)
(* The committed tables implement VersionStore, see Refines.               *)
(***************************************************************************)
EXTENDS Integers, FiniteSets, Sequences

CONSTANTS Tenants, Items, Envs, Vals, Kinds, Retentions, MaxVersion, None,
          Txs           \* calls of CommitValue, each one transaction

VARIABLES
  owner,      \* items.tenant_id, None before the INSERT of the item
  row,        \* committed item_values row of a slot, version 0 = no row
  hist,       \* committed versions rows of a slot
  lock,       \* transaction that holds the row (or key) lock of a slot
  pc,         \* next statement of a transaction
  req,        \* its parameters (CommitValueParams)
  seen,       \* the version its SELECT returned, 0 for no row
  newRow,     \* its uncommitted item_values row, None when nothing was written
  added,      \* its uncommitted inserts into versions
  removed,    \* its uncommitted deletes from versions
  outcome     \* what the call returned

pgVars == <<owner, row, hist, lock, pc, req, seen, newRow, added, removed, outcome>>

NoRow      == [version |-> 0, value |-> None]
VersionRow == [version : 1 .. MaxVersion, value : Vals, kind : Kinds]

\* The versions rows of a slot in the order of their numbers.
InOrder(S) ==
  [k \in 1 .. Cardinality(S) |->
     CHOOSE r \in S : Cardinality({q \in S : q.version < r.version}) = k - 1]

\* The committed tables read as the abstract store.
VS == INSTANCE VersionStore WITH
        values     <- row,
        versionSeq <- [s \in Items \X Envs |-> row[s].version],
        versions   <- [s \in Items \X Envs |-> InOrder(hist[s])]

Slots == VS!Slots

\* None is told apart from everything a variable holds instead of it.
ASSUME PgAssumption ==
  /\ Retentions \subseteq Int
  /\ MaxVersion \in Nat
  /\ None \notin Tenants \cup Vals
  /\ None \notin Txs /\ None \notin {"ok", "unacked"}
  /\ None \notin VS!CommitParams
  /\ None \notin [version : 1 .. MaxVersion, value : Vals]

PgInit ==
  /\ owner   = [i \in Items |-> None]
  /\ row     = [s \in Slots |-> NoRow]
  /\ hist    = [s \in Slots |-> {}]
  /\ lock    = [s \in Slots |-> None]
  /\ pc      = [t \in Txs |-> "idle"]
  /\ req     = [t \in Txs |-> None]
  /\ seen    = [t \in Txs |-> 0]
  /\ newRow  = [t \in Txs |-> None]
  /\ added   = [t \in Txs |-> {}]
  /\ removed = [t \in Txs |-> {}]
  /\ outcome = [t \in Txs |-> None]

-----------------------------------------------------------------------------
Active(t)  == pc[t] \notin {"idle", "done"}
Slot(t)    == req[t].slot
Goto(t, l) == pc' = [pc EXCEPT ![t] = l]

\* Definitions marked "wrong" are mistakes the code could have made instead of
\* the definition they precede; no specification uses them.

\* wrong: no tx.Rollback on an early return
ReleasedNever(t) == lock

\* Locks after transaction t ended.
Released(t) == [s \in Slots |-> IF lock[s] = t THEN None ELSE lock[s]]

\* End t without installing its writes: an early return, a failed statement.
Fail(t, why) ==
  /\ Goto(t, "done")
  /\ outcome' = [outcome EXCEPT ![t] = why]
  /\ lock' = Released(t)
  /\ UNCHANGED <<owner, row, hist, req, seen, newRow, added, removed>>

\* wrong: the version that was read is recorded again
NewRecNotAdvanced(t) == [version |-> seen[t], value |-> req[t].value, kind |-> req[t].kind]

\* The new versions row and item_values row of t.
NewRec(t) == [version |-> seen[t] + 1, value |-> req[t].value, kind |-> req[t].kind]
NewVal(t) == [version |-> seen[t] + 1, value |-> req[t].value]

\* The versions rows of its slot as t's statements see them.
View(t) == (hist[Slot(t)] \cup added[t]) \ removed[t]

\* wrong: one row more than LIMIT n
NewestRowsOneMore(S, n) == {r \in S : Cardinality({q \in S : q.version > r.version}) <= n}

\* SELECT id ... ORDER BY version DESC LIMIT n
NewestRows(S, n) == {r \in S : Cardinality({q \in S : q.version > r.version}) < n}

-----------------------------------------------------------------------------
\* INSERT INTO items: the item exists for the transactions that follow.
CreateItem(t, i) ==
  /\ owner[i] = None
  /\ owner' = [owner EXCEPT ![i] = t]
  /\ UNCHANGED <<row, hist, lock, pc, req, seen, newRow, added, removed, outcome>>

Begin(t, p) ==
  /\ pc[t] = "idle"
  /\ p.expected < MaxVersion
  /\ req' = [req EXCEPT ![t] = p]
  /\ Goto(t, "select")
  /\ UNCHANGED <<owner, row, hist, lock, seen, newRow, added, removed, outcome>>

\* wrong: the expected version is not compared
SelectWithoutCompare(t) ==
  /\ pc[t] = "select"
  /\ row[Slot(t)].version = 0 \/ lock[Slot(t)] = None
  /\ seen' = [seen EXCEPT ![t] = row[Slot(t)].version]
  /\ lock' = IF row[Slot(t)].version = 0 THEN lock ELSE [lock EXCEPT ![Slot(t)] = t]
  /\ Goto(t, "tenant")
  /\ UNCHANGED <<owner, row, hist, req, newRow, added, removed, outcome>>

\* SELECT version ... FOR UPDATE and the comparison with ExpectedVersion.  A
\* missing row locks nothing; an existing one is waited for, locked, and read
\* in its latest committed version.
SelectForUpdate(t) ==
  /\ pc[t] = "select"
  /\ \/ row[Slot(t)].version = 0
     \/ lock[Slot(t)] = None
  /\ \/ /\ row[Slot(t)].version # req[t].expected
        /\ Fail(t, "conflict")
     \/ /\ row[Slot(t)].version = req[t].expected
        /\ seen' = [seen EXCEPT ![t] = row[Slot(t)].version]
        /\ lock' = IF row[Slot(t)].version = 0 THEN lock
                   ELSE [lock EXCEPT ![Slot(t)] = t]
        /\ Goto(t, "tenant")
        /\ UNCHANGED <<owner, row, hist, req, newRow, added, removed, outcome>>

\* SELECT tenant_id FROM items
TenantCheck(t) ==
  /\ pc[t] = "tenant"
  /\ \/ /\ owner[Slot(t)[1]] # req[t].tenant
        /\ Fail(t, "notfound")
     \/ /\ owner[Slot(t)[1]] = req[t].tenant
        /\ Goto(t, "write")
        /\ UNCHANGED <<owner, row, hist, lock, req, seen, newRow, added, removed, outcome>>

\* INSERT INTO item_values when the SELECT found no row.  A committed row with
\* the same primary key is a unique violation, which is returned as it is; an
\* uncommitted one is waited for.
InsertValue(t) ==
  /\ pc[t] = "write"
  /\ seen[t] = 0
  /\ \/ /\ row[Slot(t)].version # 0
        /\ Fail(t, "dberror")
     \/ /\ row[Slot(t)].version = 0
        /\ lock[Slot(t)] = None
        /\ lock' = [lock EXCEPT ![Slot(t)] = t]
        /\ newRow' = [newRow EXCEPT ![t] = NewVal(t)]
        /\ Goto(t, "record")
        /\ UNCHANGED <<owner, row, hist, req, seen, added, removed, outcome>>

\* UPDATE item_values ... WHERE version = current.  The number of rows it
\* changed is not looked at.
UpdateValue(t) ==
  /\ pc[t] = "write"
  /\ seen[t] # 0
  /\ lock[Slot(t)] \in {None, t}
  /\ IF row[Slot(t)].version = seen[t]
       THEN /\ lock' = [lock EXCEPT ![Slot(t)] = t]
            /\ newRow' = [newRow EXCEPT ![t] = NewVal(t)]
       ELSE UNCHANGED <<lock, newRow>>
  /\ Goto(t, "record")
  /\ UNCHANGED <<owner, row, hist, req, seen, added, removed, outcome>>

\* INSERT INTO versions, UNIQUE (item_id, env, version).
InsertVersion(t) ==
  /\ pc[t] = "record"
  /\ \A u \in Txs \ {t} : \* an uncommitted duplicate is waited for
       Active(u) /\ Slot(u) = Slot(t) =>
         \A r \in added[u] : r.version # NewRec(t).version
  /\ \/ /\ \E r \in hist[Slot(t)] : r.version = NewRec(t).version
        /\ Fail(t, "dberror")
     \/ /\ \A r \in hist[Slot(t)] : r.version # NewRec(t).version
        /\ added' = [added EXCEPT ![t] = {NewRec(t)}]
        /\ Goto(t, "prune")
        /\ UNCHANGED <<owner, row, hist, lock, req, seen, newRow, removed, outcome>>

\* DELETE FROM versions ... NOT IN (the newest Retention rows)
Prune(t) ==
  /\ pc[t] = "prune"
  /\ removed' = [removed EXCEPT ![t] =
                   IF req[t].retention > 0
                     THEN View(t) \ NewestRows(View(t), req[t].retention)
                     ELSE {}]
  /\ Goto(t, "commit")
  /\ UNCHANGED <<owner, row, hist, lock, req, seen, newRow, added, outcome>>

\* COMMIT installs every write of t at once.  The acknowledgement may be lost,
\* then the caller sees an error for a transaction that took effect.
Commit(t) ==
  /\ pc[t] = "commit"
  /\ row' = [row EXCEPT ![Slot(t)] = IF newRow[t] = None THEN @ ELSE newRow[t]]
  /\ hist' = [hist EXCEPT ![Slot(t)] = View(t)]
  /\ lock' = Released(t)
  /\ \E o \in {"ok", "unacked"} : outcome' = [outcome EXCEPT ![t] = o]
  /\ Goto(t, "done")
  /\ UNCHANGED <<owner, req, seen, newRow, added, removed>>

\* The request is cancelled, the connection breaks or the server restarts:
\* tx.Rollback, or the database itself, discards the transaction.
Abort(t) ==
  /\ Active(t)
  /\ Fail(t, "aborted")

Step(t) ==
  \/ SelectForUpdate(t) \/ TenantCheck(t)
  \/ InsertValue(t) \/ UpdateValue(t) \/ InsertVersion(t)
  \/ Prune(t) \/ Commit(t)

PgNext ==
  \/ \E t \in Tenants, i \in Items : CreateItem(t, i)
  \/ \E t \in Txs, p \in VS!CommitParams : Begin(t, p)
  \/ \E t \in Txs : Step(t) \/ Abort(t)

\* The database keeps executing the statements of an open transaction.
PgSpec == PgInit /\ [][PgNext]_pgVars /\ \A t \in Txs : WF_pgVars(Step(t))

-----------------------------------------------------------------------------
\* Types of the tables and of the transactions' private state.
TypeOK ==
  /\ owner   \in [Items -> Tenants \cup {None}]
  /\ row     \in [Slots -> {NoRow} \cup [version : 1 .. MaxVersion, value : Vals]]
  /\ hist    \in [Slots -> SUBSET VersionRow]
  /\ lock    \in [Slots -> Txs \cup {None}]
  /\ pc      \in [Txs -> {"idle", "select", "tenant", "write", "record",
                          "prune", "commit", "done"}]
  /\ req     \in [Txs -> VS!CommitParams \cup {None}]
  /\ seen    \in [Txs -> 0 .. MaxVersion]
  /\ newRow  \in [Txs -> {None} \cup [version : 1 .. MaxVersion, value : Vals]]
  /\ added   \in [Txs -> SUBSET VersionRow]
  /\ removed \in [Txs -> SUBSET VersionRow]
  /\ outcome \in [Txs -> {None, "ok", "unacked", "conflict", "notfound",
                          "dberror", "aborted"}]

\* The committed tables go through exactly the states of the atomic store:
\* each COMMIT is one CommitValue of it, every other statement is invisible
\* ("CommitValue runs the version increment + retention prune atomically").
Refines == VS!StoreSpec

\* The optimistic lock: of all the calls that expected the same version of a
\* slot, at most one took effect, however their statements interleaved and
\* even if the winner was never told.
OneWinnerPerVersion ==
  \A t, u \in Txs :
    /\ t # u
    /\ outcome[t] \in {"ok", "unacked"}
    /\ outcome[u] \in {"ok", "unacked"}
    /\ Slot(t) = Slot(u)
    => req[t].expected # req[u].expected

\* No call waits for a row lock for ever: every transaction that began ends.
EveryCallReturns == \A t \in Txs : Active(t) ~> pc[t] = "done"
=============================================================================
