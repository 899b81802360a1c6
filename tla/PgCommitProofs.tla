---------------------------- MODULE PgCommitProofs ----------------------------
(***************************************************************************)
(* Proofs about PgCommit: the row lock protects what a transaction has     *)
(* read, a version has one winner, and the committed tables implement the  *)
(* atomic store of VersionStore.                                           *)
(***************************************************************************)
EXTENDS PgCommit, FiniteSetTheorems, TLAPS

-----------------------------------------------------------------------------
\* The rows of S are numbered lo .. hi, each number once.
IsRun(S, lo, hi) ==
  /\ \A r \in S : r.version \in lo .. hi
  /\ \A v \in lo .. hi : \E r \in S : r.version = v
  /\ \A r, q \in S : r.version = q.version => r = q

\* The retained history is a run that ends at the live version.
HistoryOK == \A s \in Slots : \E lo \in 1 .. row[s].version + 1 :
               IsRun(hist[s], lo, row[s].version)

\* Transaction t has the row of its slot to itself, and it is the row it read.
Holds(t) == lock[Slot(t)] = t /\ row[Slot(t)].version = seen[t]

\* The rows of t's slot once t's insert is among them, and what pruning leaves.
WithNew(t) == hist[Slot(t)] \cup {NewRec(t)}
Kept(t) == IF req[t].retention > 0 THEN NewestRows(WithNew(t), req[t].retention) ELSE WithNew(t)

\* What is true of transaction t at each of its statements.
TxOK(t) ==
  /\ pc[t] # "idle" => req[t] \in VS!CommitParams /\ req[t].expected < MaxVersion
  /\ pc[t] # "done" => outcome[t] = None
  /\ pc[t] \in {"idle", "select", "tenant", "write", "record"} => added[t] = {}
  /\ pc[t] \in {"idle", "select", "tenant", "write", "record", "prune"} => removed[t] = {}
  /\ pc[t] \in {"tenant", "write", "record", "prune", "commit"} => seen[t] = req[t].expected
  /\ pc[t] \in {"tenant", "write"} /\ seen[t] # 0 => Holds(t)
  /\ pc[t] \in {"record", "prune", "commit"} => Holds(t) /\ newRow[t] = NewVal(t)
  /\ pc[t] \in {"write", "record", "prune", "commit"} => owner[Slot(t)[1]] = req[t].tenant
  /\ pc[t] \in {"prune", "commit"} => added[t] = {NewRec(t)}
  /\ pc[t] = "commit" => View(t) = Kept(t)
  /\ outcome[t] \in {"ok", "unacked"} => row[Slot(t)].version > req[t].expected

\* The inductive invariant.
PgInv == TypeOK /\ HistoryOK /\ OneWinnerPerVersion /\ \A t \in Txs : TxOK(t)

-----------------------------------------------------------------------------
\* A run has as many rows as numbers.
LEMMA CardOfRun ==
  ASSUME NEW S, NEW lo \in Int, NEW hi \in Int, lo <= hi + 1, IsRun(S, lo, hi)
  PROVE  IsFiniteSet(S) /\ Cardinality(S) = hi - lo + 1
<1> DEFINE f == [r \in S |-> r.version]
<1>1. f \in Injection(S, lo .. hi) /\ f \in Surjection(S, lo .. hi)
  BY DEF IsRun, Injection, Surjection, IsInjective
<1>2. IsFiniteSet(lo .. hi) /\ Cardinality(lo .. hi) = hi - lo + 1
  BY FS_Interval
<1> QED
  BY <1>1, <1>2, FS_Injection

\* In the order of their numbers, the k-th row of a run has number lo + k - 1.
LEMMA InOrderOfRun ==
  ASSUME NEW S, NEW lo \in Int, NEW hi \in Int, lo <= hi + 1, IsRun(S, lo, hi)
  PROVE  /\ InOrder(S) \in Seq(S)
         /\ Len(InOrder(S)) = hi - lo + 1
         /\ \A k \in 1 .. hi - lo + 1 :
              InOrder(S)[k] \in S /\ InOrder(S)[k].version = lo + k - 1
<1> DEFINE n == hi - lo + 1
           below(r) == {q \in S : q.version < r.version}
<1>1. Cardinality(S) = n /\ n \in Nat
  BY CardOfRun
<1>2. ASSUME NEW r \in S  PROVE Cardinality(below(r)) = r.version - lo
  <2>1. r.version \in lo .. hi /\ r.version \in Int /\ r.version - 1 \in Int
    BY DEF IsRun
  <2>2. IsRun(below(r), lo, r.version - 1)
    <3>1. \A q \in below(r) : q.version \in lo .. r.version - 1
      BY <2>1 DEF IsRun
    <3>2. ASSUME NEW v \in lo .. r.version - 1  PROVE \E q \in below(r) : q.version = v
      <4>1. v \in lo .. hi /\ v < r.version
        BY <2>1
      <4> QED
        BY <4>1 DEF IsRun
    <3> QED
      BY <3>1, <3>2 DEF IsRun
  <2> HIDE DEF below
  <2>3. Cardinality(below(r)) = r.version - 1 - lo + 1
    BY <2>1, <2>2, CardOfRun
  <2> QED
    BY <2>1, <2>3
<1>3. ASSUME NEW k \in 1 .. n
      PROVE  /\ (CHOOSE r \in S : Cardinality(below(r)) = k - 1) \in S
             /\ (CHOOSE r \in S : Cardinality(below(r)) = k - 1).version = lo + k - 1
  <2>1. lo + k - 1 \in lo .. hi
    OBVIOUS
  <2>2. PICK r \in S : r.version = lo + k - 1
    BY <2>1 DEF IsRun
  <2> HIDE DEF below
  <2>3. Cardinality(below(r)) = k - 1
    BY <1>2, <2>2
  <2> DEFINE c == CHOOSE q \in S : Cardinality(below(q)) = k - 1
  <2>4. c \in S /\ Cardinality(below(c)) = k - 1
    BY <2>3
  <2> HIDE DEF c
  <2>5. c.version - lo = k - 1 /\ c.version \in Int
    BY <1>2, <2>4 DEF IsRun
  <2>6. c.version = lo + k - 1
    BY <2>5
  <2> QED
    BY <2>4, <2>6 DEF c
<1>4. InOrder(S) = [k \in 1 .. n |-> CHOOSE r \in S : Cardinality(below(r)) = k - 1]
  BY <1>1 DEF InOrder
<1> HIDE DEF n, below
<1>5. InOrder(S) \in [1 .. n -> S]
  BY <1>3, <1>4
<1>6. InOrder(S) \in Seq(S) /\ Len(InOrder(S)) = n
  BY <1>1, <1>5
<1> QED
  BY <1>3, <1>4, <1>6 DEF n

\* Two rows orders with the same rows under the same numbers are equal.
LEMMA SameOrder ==
  ASSUME NEW S, NEW lo, NEW hi, IsRun(S, lo, hi), NEW n \in Nat,
         NEW f, NEW g, f = [k \in 1 .. n |-> f[k]], g = [k \in 1 .. n |-> g[k]],
         \A k \in 1 .. n : f[k] \in S /\ g[k] \in S /\ f[k].version = g[k].version
  PROVE  f = g
<1>1. \A k \in 1 .. n : f[k] = g[k]
  BY DEF IsRun
<1> QED
  BY <1>1

\* The newest n rows of a run are the run of its highest numbers.
LEMMA NewestOfRun ==
  ASSUME NEW S, NEW lo \in Int, NEW hi \in Int, lo <= hi + 1, IsRun(S, lo, hi), NEW n \in Nat
  PROVE  /\ NewestRows(S, n) \subseteq S
         /\ IsRun(NewestRows(S, n), IF lo > hi - n THEN lo ELSE hi - n + 1, hi)
<1> DEFINE above(r) == {q \in S : q.version > r.version}
<1>1. ASSUME NEW r \in S  PROVE Cardinality(above(r)) = hi - r.version /\ r.version \in lo .. hi
  <2>1. r.version \in lo .. hi /\ r.version \in Int /\ r.version + 1 \in Int
    BY DEF IsRun
  <2>2. IsRun(above(r), r.version + 1, hi)
    <3>1. \A q \in above(r) : q.version \in r.version + 1 .. hi
      BY <2>1 DEF IsRun
    <3>2. ASSUME NEW v \in r.version + 1 .. hi  PROVE \E q \in above(r) : q.version = v
      <4>1. v \in lo .. hi /\ v > r.version
        BY <2>1
      <4> QED
        BY <4>1 DEF IsRun
    <3> QED
      BY <3>1, <3>2 DEF IsRun
  <2> HIDE DEF above
  <2>3. Cardinality(above(r)) = hi - (r.version + 1) + 1
    BY <2>1, <2>2, CardOfRun
  <2> QED
    BY <2>1, <2>3
<1>2. NewestRows(S, n) = {r \in S : Cardinality(above(r)) < n}
  BY DEF NewestRows
<1> HIDE DEF above
<1>3. NewestRows(S, n) = {r \in S : r.version > hi - n}
  BY <1>1, <1>2
<1> QED
  BY <1>3 DEF IsRun

-----------------------------------------------------------------------------
\* What transaction u has stored is as it was.
SameTx(u) ==
  /\ pc'[u] = pc[u] /\ req'[u] = req[u] /\ seen'[u] = seen[u] /\ newRow'[u] = newRow[u]
  /\ added'[u] = added[u] /\ removed'[u] = removed[u] /\ outcome'[u] = outcome[u]

\* The slot of a transaction that has begun is a slot.
LEMMA SlotTyped ==
  ASSUME PgInv, NEW t \in Txs, pc[t] # "idle"
  PROVE  /\ Slot(t) \in Slots /\ req[t] \in VS!CommitParams
         /\ req[t].expected \in 0 .. MaxVersion /\ req[t].value \in Vals
         /\ req[t].kind \in Kinds /\ req[t].retention \in Int /\ req[t].tenant \in Tenants
         /\ row[Slot(t)].version \in 0 .. MaxVersion /\ seen[t] \in 0 .. MaxVersion
<1>1. req[t] \in VS!CommitParams
  BY DEF PgInv, TxOK
<1>2. /\ Slot(t) \in Slots /\ req[t].expected \in 0 .. MaxVersion /\ req[t].value \in Vals
      /\ req[t].kind \in Kinds /\ req[t].retention \in Int /\ req[t].tenant \in Tenants
  BY <1>1, PgAssumption DEF VS!CommitParams, Slot, Slots
<1>3. row[Slot(t)].version \in 0 .. MaxVersion /\ seen[t] \in 0 .. MaxVersion
  BY <1>2, PgAssumption DEF PgInv, TypeOK, NoRow
<1> QED
  BY <1>1, <1>2, <1>3

\* What holds of a transaction survives the steps of others: they do not touch
\* a slot that it has locked, an item keeps its tenant, and versions only grow.
LEMMA TxKept ==
  ASSUME PgInv, NEW u \in Txs, SameTx(u),
         \A i \in Items : owner[i] # None => owner'[i] = owner[i],
         \A s \in Slots : /\ row'[s].version \in Int /\ row'[s].version >= row[s].version
                          /\ lock[s] = u => /\ lock'[s] = u /\ row'[s] = row[s]
                                            /\ hist'[s] = hist[s]
  PROVE  TxOK(u)'
<1>1. CASE pc[u] = "idle"
  BY <1>1, PgAssumption DEF PgInv, TxOK, SameTx
<1>2. CASE pc[u] # "idle"
  <2>1. /\ Slot(u) \in Slots /\ Slot(u)[1] \in Items /\ req[u].tenant # None
        /\ req[u].expected \in Int /\ row[Slot(u)].version \in Int
        /\ Slot(u)' = Slot(u)
    BY <1>2, SlotTyped, PgAssumption DEF Slots, VS!Slots, Slot, SameTx
  <2>2. TxOK(u)
    BY DEF PgInv
  <2>3. Holds(u) => /\ Holds(u)' /\ hist'[Slot(u)] = hist[Slot(u)]
    BY <2>1 DEF Holds, SameTx
  <2>4. NewVal(u)' = NewVal(u) /\ NewRec(u)' = NewRec(u)
    BY DEF NewVal, NewRec, SameTx
  <2>5. Holds(u) /\ View(u) = Kept(u) => (View(u) = Kept(u))'
    BY <2>1, <2>3, <2>4 DEF View, Kept, WithNew, NewestRows, SameTx
  <2>6. owner[Slot(u)[1]] = req[u].tenant => (owner[Slot(u)[1]] = req[u].tenant)'
    BY <2>1 DEF SameTx
  <2>7. row[Slot(u)].version > req[u].expected => (row[Slot(u)].version > req[u].expected)'
    BY <2>1 DEF SameTx
  <2> QED
    BY <2>2, <2>3, <2>4, <2>5, <2>6, <2>7 DEF TxOK, SameTx
<1> QED
  BY <1>1, <1>2

\* Transaction t alone has moved, everything is still well typed, and of the
\* shared tables only locks have changed, none of another transaction's.
OnlyTx(t) ==
  /\ TypeOK' /\ UNCHANGED <<owner, row, hist>>
  /\ \A u \in Txs \ {t} : SameTx(u) /\ (\A s \in Slots : lock[s] = u => lock'[s] = u)

\* A statement that installs nothing and wins nothing preserves the invariant.
LEMMA StatementPreserves ==
  ASSUME PgInv, NEW t \in Txs, OnlyTx(t), TxOK(t)', outcome'[t] \notin {"ok", "unacked"}
  PROVE  PgInv'
<1>1. HistoryOK'
  BY DEF PgInv, HistoryOK, OnlyTx
<1>2. ASSUME NEW u \in Txs  PROVE TxOK(u)'
  <2>1. CASE u # t
    <3>1. \A s \in Slots : row[s].version \in Int
      BY PgAssumption DEF PgInv, TypeOK, NoRow
    <3> QED
      BY <2>1, <3>1, TxKept DEF OnlyTx
  <2> QED
    BY <2>1
<1>3. OneWinnerPerVersion'
  BY DEF PgInv, OneWinnerPerVersion, OnlyTx, SameTx, Slot
<1> QED
  BY <1>1, <1>2, <1>3 DEF PgInv, OnlyTx

\* Ending without effect preserves the invariant.
LEMMA FailPreserves ==
  ASSUME PgInv, NEW t \in Txs, pc[t] # "idle",
         NEW why \in {"conflict", "notfound", "dberror", "aborted"}, Fail(t, why)
  PROVE  PgInv'
<1>1. /\ pc' = [pc EXCEPT ![t] = "done"] /\ outcome' = [outcome EXCEPT ![t] = why]
      /\ lock' = [s \in Slots |-> IF lock[s] = t THEN None ELSE lock[s]]
      /\ UNCHANGED <<owner, row, hist, req, seen, newRow, added, removed>>
  BY DEF Fail, Goto, Released
<1>2. OnlyTx(t) /\ pc'[t] = "done" /\ outcome'[t] = why
  BY <1>1 DEF PgInv, TypeOK, OnlyTx, SameTx
<1>3. TxOK(t)'
  BY <1>1, <1>2 DEF PgInv, TxOK
<1> QED
  BY <1>2, <1>3, StatementPreserves

\* Beginning a transaction preserves the invariant.
LEMMA BeginPreserves ==
  ASSUME PgInv, NEW t \in Txs, NEW p \in VS!CommitParams, Begin(t, p)
  PROVE  PgInv'
<1>1. OnlyTx(t) /\ pc'[t] = "select" /\ req'[t] = p /\ outcome'[t] = outcome[t]
      /\ added'[t] = added[t] /\ removed'[t] = removed[t]
  BY DEF Begin, Goto, PgInv, TypeOK, OnlyTx, SameTx
<1>2. pc[t] = "idle" /\ p.expected < MaxVersion
  BY DEF Begin
<1>3. TxOK(t)' /\ outcome'[t] \notin {"ok", "unacked"}
  BY <1>1, <1>2, PgAssumption DEF PgInv, TxOK
<1> QED
  BY <1>1, <1>3, StatementPreserves

\* Reading the row for update preserves the invariant: a row that exists is
\* from now on locked in the version that was compared.
LEMMA SelectPreserves ==
  ASSUME PgInv, NEW t \in Txs, SelectForUpdate(t)
  PROVE  PgInv'
<1>1. pc[t] = "select"
  BY DEF SelectForUpdate
<1>2. CASE Fail(t, "conflict")
  BY <1>1, <1>2, FailPreserves
<1>3. CASE ~Fail(t, "conflict")
  <2> DEFINE v == row[Slot(t)].version
  <2>1. /\ v = req[t].expected /\ (v = 0 \/ lock[Slot(t)] = None)
        /\ seen' = [seen EXCEPT ![t] = v]
        /\ lock' = IF v = 0 THEN lock ELSE [lock EXCEPT ![Slot(t)] = t]
        /\ pc' = [pc EXCEPT ![t] = "tenant"]
        /\ UNCHANGED <<owner, row, hist, req, newRow, added, removed, outcome>>
    BY <1>3 DEF SelectForUpdate, Goto
  <2>2. Slot(t) \in Slots /\ v \in 0 .. MaxVersion
    BY <1>1, SlotTyped
  <2> HIDE DEF v
  <2>3. None \notin Txs
    BY PgAssumption
  <2>4. OnlyTx(t) /\ pc'[t] = "tenant" /\ seen'[t] = v
        /\ (v # 0 => lock'[Slot(t)] = t)
    BY <2>1, <2>2, <2>3 DEF PgInv, TypeOK, OnlyTx, SameTx
  <2>5. Slot(t)' = Slot(t)
    BY <2>1 DEF Slot
  <2>6. v # 0 => Holds(t)'
    BY <2>1, <2>4, <2>5 DEF Holds, v
  <2>7. TxOK(t)' /\ outcome'[t] \notin {"ok", "unacked"}
    BY <1>1, <2>1, <2>4, <2>6, PgAssumption DEF PgInv, TxOK
  <2> QED
    BY <2>4, <2>7, StatementPreserves
<1> QED
  BY <1>2, <1>3

\* Checking the tenant preserves the invariant.
LEMMA TenantPreserves ==
  ASSUME PgInv, NEW t \in Txs, TenantCheck(t)
  PROVE  PgInv'
<1>1. pc[t] = "tenant"
  BY DEF TenantCheck
<1>2. CASE Fail(t, "notfound")
  BY <1>1, <1>2, FailPreserves
<1>3. CASE ~Fail(t, "notfound")
  <2>1. /\ owner[Slot(t)[1]] = req[t].tenant
        /\ pc' = [pc EXCEPT ![t] = "write"]
        /\ UNCHANGED <<owner, row, hist, lock, req, seen, newRow, added, removed, outcome>>
    BY <1>3 DEF TenantCheck, Goto
  <2>2. OnlyTx(t) /\ pc'[t] = "write"
    BY <2>1 DEF PgInv, TypeOK, OnlyTx, SameTx
  <2>3. Slot(t)' = Slot(t) /\ (Holds(t) => Holds(t)')
    BY <2>1 DEF Slot, Holds
  <2>4. TxOK(t)' /\ outcome'[t] \notin {"ok", "unacked"}
    BY <1>1, <2>1, <2>2, <2>3, PgAssumption DEF PgInv, TxOK
  <2> QED
    BY <2>2, <2>4, StatementPreserves
<1> QED
  BY <1>2, <1>3

\* The rows a transaction is about to write are rows.
LEMMA NewRowTyped ==
  ASSUME PgInv, NEW t \in Txs, pc[t] \in {"write", "record", "prune", "commit"}
  PROVE  /\ seen[t] = req[t].expected /\ seen[t] + 1 \in 1 .. MaxVersion
         /\ NewVal(t) \in [version : 1 .. MaxVersion, value : Vals]
         /\ NewVal(t).version = seen[t] + 1 /\ NewVal(t).value = req[t].value
         /\ NewRec(t) \in VersionRow
         /\ NewRec(t).version = seen[t] + 1
<1>1. /\ req[t].value \in Vals /\ req[t].kind \in Kinds /\ req[t].expected \in 0 .. MaxVersion
      /\ req[t].expected < MaxVersion /\ seen[t] = req[t].expected
  BY SlotTyped DEF PgInv, TxOK
<1>2. seen[t] + 1 \in 1 .. MaxVersion
  BY <1>1, PgAssumption
<1> QED
  BY <1>1, <1>2 DEF NewVal, NewRec, VersionRow

\* Inserting the first item_values row preserves the invariant: the key is
\* locked while there is still no row.
LEMMA InsertValuePreserves ==
  ASSUME PgInv, NEW t \in Txs, InsertValue(t)
  PROVE  PgInv'
<1>1. pc[t] = "write" /\ seen[t] = 0
  BY DEF InsertValue
<1>2. CASE Fail(t, "dberror")
  BY <1>1, <1>2, FailPreserves
<1>3. CASE ~Fail(t, "dberror")
  <2>1. /\ row[Slot(t)].version = 0 /\ lock[Slot(t)] = None
        /\ lock' = [lock EXCEPT ![Slot(t)] = t]
        /\ newRow' = [newRow EXCEPT ![t] = NewVal(t)]
        /\ pc' = [pc EXCEPT ![t] = "record"]
        /\ UNCHANGED <<owner, row, hist, req, seen, added, removed, outcome>>
    BY <1>3 DEF InsertValue, Goto
  <2>2. Slot(t) \in Slots /\ None \notin Txs
    BY <1>1, SlotTyped, PgAssumption
  <2>3. NewVal(t) \in [version : 1 .. MaxVersion, value : Vals]
    BY <1>1, NewRowTyped
  <2>4. OnlyTx(t) /\ pc'[t] = "record" /\ newRow'[t] = NewVal(t) /\ lock'[Slot(t)] = t
    BY <2>1, <2>2, <2>3 DEF PgInv, TypeOK, OnlyTx, SameTx
  <2>5. NewVal(t)' = NewVal(t) /\ Slot(t)' = Slot(t)
    BY <2>1 DEF NewVal, Slot
  <2>6. Holds(t)'
    BY <1>1, <2>1, <2>4, <2>5 DEF Holds
  <2>7. TxOK(t)' /\ outcome'[t] \notin {"ok", "unacked"}
    BY <1>1, <2>1, <2>4, <2>5, <2>6, PgAssumption DEF PgInv, TxOK
  <2> QED
    BY <2>4, <2>7, StatementPreserves
<1> QED
  BY <1>2, <1>3

\* Updating the item_values row preserves the invariant: the row is locked, so
\* it still has the version that was read and the update never misses it.
LEMMA UpdateValuePreserves ==
  ASSUME PgInv, NEW t \in Txs, UpdateValue(t)
  PROVE  PgInv'
<1>1. pc[t] = "write" /\ seen[t] # 0
  BY DEF UpdateValue
<1>2. Holds(t)
  BY <1>1 DEF PgInv, TxOK
<1>3. /\ lock' = [lock EXCEPT ![Slot(t)] = t]
      /\ newRow' = [newRow EXCEPT ![t] = NewVal(t)]
      /\ pc' = [pc EXCEPT ![t] = "record"]
      /\ UNCHANGED <<owner, row, hist, req, seen, added, removed, outcome>>
  BY <1>2 DEF UpdateValue, Goto, Holds
<1>4. Slot(t) \in Slots
  BY <1>1, SlotTyped
<1>5. NewVal(t) \in [version : 1 .. MaxVersion, value : Vals]
  BY <1>1, NewRowTyped
<1>6. OnlyTx(t) /\ pc'[t] = "record" /\ newRow'[t] = NewVal(t) /\ lock'[Slot(t)] = t
  BY <1>2, <1>3, <1>4, <1>5 DEF PgInv, TypeOK, OnlyTx, SameTx, Holds
<1>7. NewVal(t)' = NewVal(t) /\ Slot(t)' = Slot(t)
  BY <1>3 DEF NewVal, Slot
<1>8. Holds(t)'
  BY <1>2, <1>3, <1>6, <1>7 DEF Holds
<1>9. TxOK(t)' /\ outcome'[t] \notin {"ok", "unacked"}
  BY <1>1, <1>3, <1>6, <1>7, <1>8, PgAssumption DEF PgInv, TxOK
<1> QED
  BY <1>6, <1>9, StatementPreserves

\* Inserting the versions row preserves the invariant.
LEMMA InsertVersionPreserves ==
  ASSUME PgInv, NEW t \in Txs, InsertVersion(t)
  PROVE  PgInv'
<1>1. pc[t] = "record"
  BY DEF InsertVersion
<1>2. CASE Fail(t, "dberror")
  BY <1>1, <1>2, FailPreserves
<1>3. CASE ~Fail(t, "dberror")
  <2>1. /\ added' = [added EXCEPT ![t] = {NewRec(t)}]
        /\ pc' = [pc EXCEPT ![t] = "prune"]
        /\ UNCHANGED <<owner, row, hist, lock, req, seen, newRow, removed, outcome>>
    BY <1>3 DEF InsertVersion, Goto
  <2>2. NewRec(t) \in VersionRow
    BY <1>1, NewRowTyped
  <2>3. OnlyTx(t) /\ pc'[t] = "prune" /\ added'[t] = {NewRec(t)}
    BY <2>1, <2>2 DEF PgInv, TypeOK, OnlyTx, SameTx
  <2>4. /\ NewVal(t)' = NewVal(t) /\ NewRec(t)' = NewRec(t) /\ Slot(t)' = Slot(t)
        /\ (Holds(t) => Holds(t)')
    BY <2>1 DEF NewVal, NewRec, Slot, Holds
  <2>5. TxOK(t)' /\ outcome'[t] \notin {"ok", "unacked"}
    BY <1>1, <2>1, <2>3, <2>4, PgAssumption DEF PgInv, TxOK
  <2> QED
    BY <2>3, <2>5, StatementPreserves
<1> QED
  BY <1>2, <1>3

\* Pruning preserves the invariant: what is left is the newest rows.
LEMMA PrunePreserves ==
  ASSUME PgInv, NEW t \in Txs, Prune(t)
  PROVE  PgInv'
<1> DEFINE gone == IF req[t].retention > 0
                     THEN View(t) \ NewestRows(View(t), req[t].retention) ELSE {}
<1>1. /\ pc[t] = "prune" /\ removed' = [removed EXCEPT ![t] = gone]
      /\ pc' = [pc EXCEPT ![t] = "commit"]
      /\ UNCHANGED <<owner, row, hist, lock, req, seen, newRow, added, outcome>>
  BY DEF Prune, Goto
<1>2. View(t) = WithNew(t) /\ added[t] = {NewRec(t)}
  BY <1>1 DEF PgInv, TxOK, View, WithNew
<1>3. Slot(t) \in Slots /\ NewRec(t) \in VersionRow
  BY <1>1, SlotTyped, NewRowTyped
<1>4. gone \in SUBSET VersionRow
  <2>1. WithNew(t) \subseteq VersionRow
    BY <1>3 DEF PgInv, TypeOK, WithNew
  <2> QED
    BY <1>2, <2>1
<1>5. WithNew(t) \ gone = Kept(t)
  BY <1>2 DEF Kept, NewestRows
<1> HIDE DEF gone
<1>6. OnlyTx(t) /\ pc'[t] = "commit" /\ removed'[t] = gone
  BY <1>1, <1>4 DEF PgInv, TypeOK, OnlyTx, SameTx
<1>7. /\ NewVal(t)' = NewVal(t) /\ NewRec(t)' = NewRec(t) /\ Slot(t)' = Slot(t)
      /\ (Holds(t) => Holds(t)')
  BY <1>1 DEF NewVal, NewRec, Slot, Holds
<1>8. (View(t) = Kept(t))'
  <2>1. View(t)' = WithNew(t) \ gone
    BY <1>1, <1>2, <1>6, <1>7 DEF View, WithNew
  <2>2. Kept(t)' = Kept(t)
    BY <1>1, <1>7 DEF Kept, WithNew, NewestRows
  <2> QED
    BY <1>5, <2>1, <2>2
<1>9. TxOK(t)' /\ outcome'[t] \notin {"ok", "unacked"}
  BY <1>1, <1>6, <1>7, <1>8, PgAssumption DEF PgInv, TxOK
<1> QED
  BY <1>6, <1>9, StatementPreserves

-----------------------------------------------------------------------------
\* What a transaction is about to install when it commits: the next version
\* of its slot, and a history that ends with it.
LEMMA AtCommit ==
  ASSUME PgInv, NEW t \in Txs, pc[t] = "commit"
  PROVE  LET s  == Slot(t)
             hi == row[s].version
         IN  /\ s \in Slots /\ lock[s] = t /\ owner[s[1]] = req[t].tenant
             /\ hi = req[t].expected /\ hi \in Nat /\ hi + 1 \in 1 .. MaxVersion
             /\ newRow[t] # None /\ newRow[t] = [version |-> hi + 1, value |-> req[t].value]
             /\ View(t) = Kept(t) /\ View(t) \in SUBSET VersionRow
             /\ NewRec(t) = [version |-> hi + 1, value |-> req[t].value, kind |-> req[t].kind]
             /\ \E lo \in 1 .. hi + 1 :
                  /\ IsRun(hist[s], lo, hi) /\ IsRun(WithNew(t), lo, hi + 1)
                  /\ IF req[t].retention > 0 /\ lo <= hi + 1 - req[t].retention
                       THEN IsRun(View(t), hi + 2 - req[t].retention, hi + 1)
                       ELSE IsRun(View(t), lo, hi + 1) /\ View(t) = WithNew(t)
<1> DEFINE s  == Slot(t)
           hi == row[s].version
           n  == req[t].retention
<1>1. /\ s \in Slots /\ hi \in 0 .. MaxVersion /\ n \in Int
      /\ Holds(t) /\ newRow[t] = NewVal(t) /\ owner[s[1]] = req[t].tenant
      /\ seen[t] = req[t].expected /\ View(t) = Kept(t)
  BY SlotTyped DEF PgInv, TxOK
<1>2. /\ hi = seen[t] /\ lock[s] = t /\ hi + 1 \in 1 .. MaxVersion
      /\ NewVal(t) \in [version : 1 .. MaxVersion, value : Vals] /\ NewRec(t) \in VersionRow
  BY <1>1, NewRowTyped DEF Holds
<1>3. /\ newRow[t] # None /\ newRow[t] = [version |-> hi + 1, value |-> req[t].value]
      /\ NewRec(t) = [version |-> hi + 1, value |-> req[t].value, kind |-> req[t].kind]
      /\ NewRec(t).version = hi + 1
  BY <1>1, <1>2, PgAssumption DEF NewVal, NewRec
<1>4. hist[s] \subseteq VersionRow /\ WithNew(t) \subseteq VersionRow
      /\ WithNew(t) = hist[s] \cup {NewRec(t)}
  BY <1>1, <1>2 DEF PgInv, TypeOK, WithNew
<1>5. PICK lo \in 1 .. hi + 1 : IsRun(hist[s], lo, hi)
  BY <1>1 DEF PgInv, HistoryOK
<1>6. hi \in Nat
  BY <1>1, PgAssumption
<1> HIDE DEF s, hi, n
<1>7. IsRun(WithNew(t), lo, hi + 1)
  <2>1. \A r \in WithNew(t) : r.version \in lo .. hi + 1
    BY <1>3, <1>4, <1>5, <1>6 DEF IsRun
  <2>2. \A v \in lo .. hi + 1 : \E r \in WithNew(t) : r.version = v
    <3>1. ASSUME NEW v \in lo .. hi + 1, v # hi + 1  PROVE \E r \in WithNew(t) : r.version = v
      <4>1. v \in lo .. hi
        BY <1>5, <1>6, <3>1
      <4> QED
        BY <1>4, <1>5, <4>1 DEF IsRun
    <3> QED
      BY <1>3, <1>4, <3>1
  <2>3. \A r, q \in WithNew(t) : r.version = q.version => r = q
    <3>1. \A r \in hist[s] : r.version # hi + 1
      BY <1>5, <1>6 DEF IsRun
    <3> QED
      BY <1>3, <1>4, <1>5, <3>1 DEF IsRun
  <2> QED
    BY <2>1, <2>2, <2>3 DEF IsRun
<1>8. IF n > 0 /\ lo <= hi + 1 - n
        THEN IsRun(View(t), hi + 2 - n, hi + 1)
        ELSE IsRun(View(t), lo, hi + 1) /\ View(t) = WithNew(t)
  <2>1. CASE ~(n > 0)
    BY <1>1, <1>7, <2>1 DEF Kept, n
  <2>2. CASE n > 0
    <3>1. View(t) = NewestRows(WithNew(t), n) /\ n \in Nat
      BY <1>1, <2>2 DEF Kept, n
    <3>2. /\ View(t) \subseteq WithNew(t)
          /\ IsRun(View(t), IF lo > hi + 1 - n THEN lo ELSE hi + 1 - n + 1, hi + 1)
      BY <1>5, <1>6, <1>7, <3>1, NewestOfRun
    <3>3. CASE lo <= hi + 1 - n
      BY <1>5, <1>6, <2>2, <3>1, <3>2, <3>3
    <3>4. CASE ~(lo <= hi + 1 - n)
      <4>1. IsRun(View(t), lo, hi + 1)
        BY <1>5, <1>6, <3>1, <3>2, <3>4
      <4>2. WithNew(t) \subseteq View(t)
        BY <1>7, <3>2, <4>1 DEF IsRun
      <4> QED
        BY <2>2, <3>2, <3>4, <4>1, <4>2
    <3> QED
      BY <3>3, <3>4
  <2> QED
    BY <2>1, <2>2
<1>9. View(t) \in SUBSET VersionRow
  BY <1>1, <1>4 DEF Kept, NewestRows
<1> QED
  BY <1>1, <1>2, <1>3, <1>5, <1>6, <1>7, <1>8, <1>9 DEF s, hi, n

\* Committing preserves the invariant: the slot is the transaction's own, its
\* version passes every version that was expected so far, and the history it
\* installs is a run again.
LEMMA CommitKeepsInv ==
  ASSUME PgInv, NEW t \in Txs, Commit(t)
  PROVE  PgInv'
<1> DEFINE s  == Slot(t)
           hi == row[s].version
           nv == [version |-> hi + 1, value |-> req[t].value]
<1>1. pc[t] = "commit"
  BY DEF Commit
<1>2. /\ s \in Slots /\ lock[s] = t /\ hi = req[t].expected /\ hi \in Nat
      /\ hi + 1 \in 1 .. MaxVersion /\ newRow[t] # None /\ newRow[t] = nv
      /\ View(t) \in SUBSET VersionRow
      /\ \E lo \in 1 .. hi + 2 : IsRun(View(t), lo, hi + 1)
  <2>1. req[t].retention \in Int
    BY <1>1, SlotTyped
  <2>2. hi \in Nat
    BY <1>1, AtCommit
  <2>3. \E lo \in 1 .. hi + 2 : IsRun(View(t), lo, hi + 1)
    <3> DEFINE n == req[t].retention
    <3>1. PICK lo \in 1 .. hi + 1 :
            IF n > 0 /\ lo <= hi + 1 - n THEN IsRun(View(t), hi + 2 - n, hi + 1)
                                         ELSE IsRun(View(t), lo, hi + 1)
      BY <1>1, AtCommit
    <3> HIDE DEF n, hi
    <3>2. CASE n > 0 /\ lo <= hi + 1 - n
      <4>1. hi + 2 - n \in 1 .. hi + 2
        BY <2>1, <2>2, <3>2 DEF n
      <4> QED
        BY <3>1, <3>2, <4>1
    <3>3. CASE ~(n > 0 /\ lo <= hi + 1 - n)
      <4>1. lo \in 1 .. hi + 2
        BY <2>2
      <4> QED
        BY <3>1, <3>3, <4>1
    <3> QED
      BY <3>2, <3>3
  <2> QED
    BY <1>1, <2>3, AtCommit
<1>3. PICK out \in {"ok", "unacked"} :
        /\ row' = [row EXCEPT ![s] = nv] /\ hist' = [hist EXCEPT ![s] = View(t)]
        /\ lock' = [q \in Slots |-> IF lock[q] = t THEN None ELSE lock[q]]
        /\ outcome' = [outcome EXCEPT ![t] = out]
        /\ pc' = [pc EXCEPT ![t] = "done"]
        /\ UNCHANGED <<owner, req, seen, newRow, added, removed>>
  BY <1>2 DEF Commit, Released, Goto
<1>4. nv \in [version : 1 .. MaxVersion, value : Vals] /\ nv.version = hi + 1
  BY <1>1, <1>2, SlotTyped
<1> HIDE DEF hi, nv, s
<1>5. TypeOK'
  BY <1>2, <1>3, <1>4 DEF PgInv, TypeOK
<1>6. /\ row'[s] = nv /\ hist'[s] = View(t) /\ pc'[t] = "done" /\ outcome'[t] = out
      /\ \A q \in Slots : q # s => row'[q] = row[q] /\ hist'[q] = hist[q]
      /\ \A u \in Txs \ {t} : SameTx(u)
  BY <1>2, <1>3 DEF PgInv, TypeOK, SameTx
<1>7. HistoryOK'
  <2>1. ASSUME NEW q \in Slots
        PROVE  (\E lo \in 1 .. row[q].version + 1 : IsRun(hist[q], lo, row[q].version))'
    <3>1. CASE q = s
      <4>1. (hi + 1) + 1 = hi + 2
        BY <1>2
      <4> QED
        BY <1>2, <1>4, <1>6, <3>1, <4>1 DEF IsRun
    <3>2. CASE q # s
      BY <1>6, <3>2 DEF PgInv, HistoryOK
    <3> QED
      BY <3>1, <3>2
  <2> QED
    BY <2>1 DEF HistoryOK
<1>8. \A q \in Slots : row'[q].version \in Int /\ row'[q].version >= row[q].version
  <2>1. \A q \in Slots : row[q].version \in Int
    BY PgAssumption DEF PgInv, TypeOK, NoRow
  <2> QED
    BY <1>2, <1>4, <1>6, <2>1 DEF hi
<1>9. ASSUME NEW u \in Txs, u # t  PROVE TxOK(u)'
  <2>1. \A q \in Slots : lock[q] = u => lock'[q] = u /\ row'[q] = row[q] /\ hist'[q] = hist[q]
    BY <1>2, <1>3, <1>6, <1>9
  <2> QED
    BY <1>3, <1>6, <1>8, <1>9, <2>1, TxKept
<1>10. Slot(t)' = s
  BY <1>3 DEF Slot, s
<1>11. TxOK(t)'
  <2>1. row'[s].version > req'[t].expected
    BY <1>2, <1>3, <1>4, <1>6
  <2> QED
    BY <1>1, <1>3, <1>6, <1>10, <2>1 DEF PgInv, TxOK
<1>12. OneWinnerPerVersion'
  <2>1. ASSUME NEW u \in Txs, u # t, outcome[u] \in {"ok", "unacked"}, Slot(u) = s
        PROVE  req[u].expected # req[t].expected
    <3>1. row[s].version > req[u].expected
      BY <2>1 DEF PgInv, TxOK
    <3>2. req[u].expected \in Int
      <4>1. pc[u] # "idle"
        BY <2>1, PgAssumption DEF PgInv, TxOK
      <4> QED
        BY <4>1, SlotTyped, PgAssumption
    <3> QED
      BY <1>2, <3>1, <3>2 DEF hi
  <2> QED
    BY <1>3, <1>6, <2>1 DEF PgInv, OneWinnerPerVersion, SameTx, Slot, s
<1> QED
  BY <1>5, <1>7, <1>9, <1>11, <1>12 DEF PgInv

\* Creating an item preserves the invariant: an item that has a tenant keeps
\* it.
LEMMA CreateItemPreserves ==
  ASSUME PgInv, NEW ten \in Tenants, NEW i \in Items, CreateItem(ten, i)
  PROVE  PgInv'
<1>1. /\ owner[i] = None /\ owner' = [owner EXCEPT ![i] = ten]
      /\ UNCHANGED <<row, hist, lock, pc, req, seen, newRow, added, removed, outcome>>
  BY DEF CreateItem
<1>2. TypeOK'
  BY <1>1 DEF PgInv, TypeOK
<1>3. HistoryOK' /\ OneWinnerPerVersion'
  BY <1>1 DEF PgInv, HistoryOK, OneWinnerPerVersion, Slot
<1>4. ASSUME NEW u \in Txs  PROVE TxOK(u)'
  <2>1. SameTx(u) /\ (\A j \in Items : owner[j] # None => owner'[j] = owner[j])
    BY <1>1 DEF SameTx, PgInv, TypeOK
  <2>2. \A s \in Slots : row[s].version \in Int
    BY PgAssumption DEF PgInv, TypeOK, NoRow
  <2>3. \A s \in Slots : row[s].version >= row[s].version
    BY <2>2
  <2> QED
    BY <1>1, <2>1, <2>2, <2>3, TxKept
<1> QED
  BY <1>2, <1>3, <1>4 DEF PgInv

\* The invariant holds initially.
LEMMA PgInitHasInv == PgInit => PgInv
<1> SUFFICES ASSUME PgInit  PROVE PgInv
  OBVIOUS
<1>1. TypeOK
  BY PgAssumption DEF PgInit, TypeOK
<1>2. HistoryOK
  <2>1. ASSUME NEW s \in Slots
        PROVE  \E lo \in 1 .. row[s].version + 1 : IsRun(hist[s], lo, row[s].version)
    <3>1. hist[s] = {} /\ row[s].version = 0
      BY DEF PgInit, NoRow
    <3>2. IsRun({}, 1, 0) /\ 1 \in 1 .. 0 + 1
      BY DEF IsRun
    <3> QED
      BY <3>1, <3>2
  <2> QED
    BY <2>1 DEF HistoryOK
<1>3. OneWinnerPerVersion
  BY PgAssumption DEF PgInit, OneWinnerPerVersion
<1>4. ASSUME NEW t \in Txs  PROVE TxOK(t)
  BY PgAssumption DEF PgInit, TxOK
<1> QED
  BY <1>1, <1>2, <1>3, <1>4 DEF PgInv

\* Every statement, abort and stutter preserves the invariant.
LEMMA PgStepPreservesInv ==
  ASSUME PgInv, [PgNext]_pgVars
  PROVE  PgInv'
<1>1. ASSUME NEW ten \in Tenants, NEW i \in Items, CreateItem(ten, i)  PROVE PgInv'
  BY <1>1, CreateItemPreserves
<1>2. ASSUME NEW t \in Txs, NEW p \in VS!CommitParams, Begin(t, p)  PROVE PgInv'
  BY <1>2, BeginPreserves
<1>3. ASSUME NEW t \in Txs, Step(t)  PROVE PgInv'
  BY <1>3, SelectPreserves, TenantPreserves, InsertValuePreserves, UpdateValuePreserves,
     InsertVersionPreserves, PrunePreserves, CommitKeepsInv DEF Step
<1>4. ASSUME NEW t \in Txs, Abort(t)  PROVE PgInv'
  BY <1>4, FailPreserves DEF Abort, Active
<1>5. CASE UNCHANGED pgVars
  <2>1. TypeOK' /\ HistoryOK' /\ OneWinnerPerVersion'
    BY <1>5 DEF pgVars, PgInv, TypeOK, HistoryOK, OneWinnerPerVersion, Slot
  <2>2. ASSUME NEW u \in Txs  PROVE TxOK(u)'
    <3>1. \A s \in Slots : row[s].version \in Int
      BY PgAssumption DEF PgInv, TypeOK, NoRow
    <3>2. \A s \in Slots : row[s].version >= row[s].version
      BY <3>1
    <3> QED
      BY <1>5, <3>1, <3>2, TxKept DEF pgVars, SameTx
  <2> QED
    BY <2>1, <2>2 DEF PgInv
<1> QED
  BY <1>1, <1>2, <1>3, <1>4, <1>5 DEF PgNext

\* The invariant holds of every reachable state.
THEOREM PgInvariant == PgSpec => []PgInv
BY PgInitHasInv, PgStepPreservesInv, PTL DEF PgSpec

\* Type correctness of the tables and the transactions, for all constants.
THEOREM PgTypeCorrect == PgSpec => []TypeOK
<1>1. PgInv => TypeOK
  BY DEF PgInv
<1> QED
  BY <1>1, PgInvariant, PTL

\* Of all the calls that expected the same version of a slot, at most one took
\* effect, for any number of transactions.
THEOREM VersionHasOneWinner == PgSpec => []OneWinnerPerVersion
<1>1. PgInv => OneWinnerPerVersion
  BY DEF PgInv
<1> QED
  BY <1>1, PgInvariant, PTL

-----------------------------------------------------------------------------
\* Inserting the next row and pruning do to the rows in their order what the
\* atomic store does to its history.
LEMMA HistoryMapped ==
  ASSUME PgInv, NEW t \in Txs, pc[t] = "commit"
  PROVE  InOrder(View(t)) =
           VS!Newest(Append(InOrder(hist[Slot(t)]), NewRec(t)), req[t].retention)
<1> DEFINE s  == Slot(t)
           hi == row[s].version
           n  == req[t].retention
           S  == WithNew(t)
           f  == InOrder(S)
           h  == InOrder(hist[s])
           a  == Append(h, NewRec(t))
<1>1. n \in Int /\ hi \in Nat /\ NewRec(t).version = hi + 1 /\ NewRec(t) \in S /\ hist[s] \subseteq S
  <2>1. n \in Int
    BY SlotTyped
  <2>2. /\ hi \in Nat
        /\ NewRec(t) = [version |-> hi + 1, value |-> req[t].value, kind |-> req[t].kind]
    BY AtCommit
  <2> QED
    BY <2>1, <2>2 DEF WithNew
<1>2. PICK lo \in 1 .. hi + 1 :
        /\ IsRun(hist[s], lo, hi) /\ IsRun(S, lo, hi + 1)
        /\ IF n > 0 /\ lo <= hi + 1 - n
             THEN IsRun(View(t), hi + 2 - n, hi + 1)
             ELSE IsRun(View(t), lo, hi + 1) /\ View(t) = S
  BY AtCommit
<1>3. View(t) \subseteq S
  BY AtCommit DEF Kept, NewestRows
<1>4. IsRun(S, lo, hi + 1)
  BY <1>2
<1> DEFINE m == hi + 1 - lo + 1
<1> HIDE DEF s, hi, n, S
<1>5. lo \in Int /\ hi \in Int /\ hi + 1 \in Int /\ lo <= hi + 1 /\ lo <= (hi + 1) + 1 /\ m \in Nat
      /\ hi - lo + 1 = m - 1
  BY <1>1, <1>2
<1>6. /\ f \in Seq(S) /\ Len(f) = m
      /\ \A k \in 1 .. m : f[k] \in S /\ f[k].version = lo + k - 1
  BY <1>2, <1>5, InOrderOfRun
<1>7. /\ h \in Seq(hist[s]) /\ Len(h) = m - 1
      /\ \A k \in 1 .. m - 1 : h[k] \in hist[s] /\ h[k].version = lo + k - 1
  BY <1>2, <1>5, InOrderOfRun
<1> HIDE DEF f, h
<1>8. a = f
  <2>1. /\ a \in Seq(S) /\ Len(a) = m
        /\ \A k \in 1 .. m - 1 : a[k] = h[k]
        /\ a[m] = NewRec(t)
    <3>1. h \in Seq(S)
      BY <1>1, <1>7
    <3> HIDE DEF m
    <3>2. Len(h) \in Nat /\ Len(h) + 1 = m
      BY <1>5, <1>7
    <3> QED
      BY <1>1, <3>1, <3>2
  <2> HIDE DEF a
  <2>2. \A k \in 1 .. m : a[k] \in S /\ a[k].version = lo + k - 1
    <3>1. a[m] \in S /\ a[m].version = lo + m - 1
      BY <1>1, <1>5, <2>1
    <3> HIDE DEF m
    <3>2. ASSUME NEW k \in 1 .. m, k # m  PROVE a[k] \in S /\ a[k].version = lo + k - 1
      <4>1. k \in 1 .. m - 1
        BY <1>5, <3>2
      <4> QED
        BY <1>1, <1>7, <2>1, <4>1
    <3> QED
      BY <3>1, <3>2
  <2> HIDE DEF m
  <2>5. m \in Nat /\ IsRun(S, lo, hi + 1)
    BY <1>4, <1>5
  <2>3. a = [k \in 1 .. m |-> a[k]] /\ f = [k \in 1 .. m |-> f[k]]
    BY <1>6, <2>1
  <2>4. \A k \in 1 .. m : a[k] \in S /\ f[k] \in S /\ a[k].version = f[k].version
    BY <1>6, <2>2
  <2> QED
    BY <2>3, <2>4, <2>5, SameOrder
<1>9. CASE n > 0 /\ lo <= hi + 1 - n
  <2> DEFINE v == InOrder(View(t))
             g == SubSeq(f, m - n + 1, m)
  <2>1. n \in Nat /\ m > n /\ hi + 2 - n \in Int /\ hi + 2 - n <= (hi + 1) + 1
        /\ (hi + 1) - (hi + 2 - n) + 1 = n
    BY <1>1, <1>5, <1>9
  <2>2. /\ v \in Seq(View(t)) /\ Len(v) = n
        /\ \A k \in 1 .. n : v[k] \in View(t) /\ v[k].version = (hi + 2 - n) + k - 1
    BY <1>2, <1>5, <1>9, <2>1, InOrderOfRun
  <2>3. VS!Newest(a, n) = g
    BY <1>6, <1>8, <1>9, <2>1 DEF VS!Newest
  <2> HIDE DEF v, a
  <2>4. /\ g \in Seq(S) /\ Len(g) = n /\ \A k \in 1 .. n : g[k] = f[m - n + k]
    BY <1>5, <1>6, <2>1
  <2>5. \A k \in 1 .. n : g[k] \in S /\ g[k].version = v[k].version
    <3> SUFFICES ASSUME NEW k \in 1 .. n  PROVE g[k] \in S /\ g[k].version = v[k].version
      OBVIOUS
    <3>1. m - n + k \in 1 .. m
      BY <1>5, <2>1
    <3>2. g[k] = f[m - n + k] /\ g[k] \in S /\ g[k].version = lo + (m - n + k) - 1
      BY <1>6, <2>4, <3>1
    <3>3. v[k].version = (hi + 2 - n) + k - 1
      BY <2>2
    <3>4. lo + (m - n + k) - 1 = (hi + 2 - n) + k - 1
      BY <1>5, <2>1
    <3> QED
      BY <3>2, <3>3, <3>4
  <2> HIDE DEF g, m
  <2>6. v = [k \in 1 .. n |-> v[k]] /\ g = [k \in 1 .. n |-> g[k]]
    BY <2>2, <2>4
  <2>7. \A k \in 1 .. n : v[k] \in S /\ g[k] \in S /\ v[k].version = g[k].version
    BY <1>3, <2>2, <2>5
  <2>8. v = g
    BY <1>4, <2>1, <2>6, <2>7, SameOrder
  <2> QED
    BY <2>3, <2>8 DEF v, a, h, s, n
<1>10. CASE ~(n > 0 /\ lo <= hi + 1 - n)
  <2>1. InOrder(View(t)) = f
    BY <1>2, <1>10 DEF f
  <2>2. VS!Newest(a, n) = a
    <3>1. ~(n > 0 /\ Len(a) > n)
      BY <1>1, <1>5, <1>6, <1>8, <1>10
    <3> QED
      BY <3>1 DEF VS!Newest
  <2> QED
    BY <1>8, <2>1, <2>2 DEF h, s, n
<1> QED
  BY <1>9, <1>10

\* The initial tables are the initial store.
LEMMA InitMapped == PgInit => VS!StoreInit
<1>1. InOrder({}) = <<>>
  <2>1. IsRun({}, 1, 0)
    BY DEF IsRun
  <2>2. InOrder({}) \in Seq({}) /\ Len(InOrder({})) = 0
    BY <2>1, InOrderOfRun
  <2> QED
    BY <2>2
<1> QED
  BY <1>1 DEF PgInit, VS!StoreInit, NoRow, VS!NoEntry, Slots, VS!Slots

\* A COMMIT is one CommitValue of the atomic store.
LEMMA CommitMapped ==
  ASSUME PgInv, NEW t \in Txs, Commit(t), NEW p, p = req[t]
  PROVE  VS!CommitValue(p)
<1> DEFINE s  == Slot(t)
           hi == row[s].version
<1>1. pc[t] = "commit"
  BY DEF Commit
<1>2. s = p.slot /\ s \in Items \X Envs
  BY <1>1, SlotTyped DEF Slot, Slots, VS!Slots
<1>3. /\ owner[s[1]] = p.tenant /\ hi = p.expected /\ hi \in Nat /\ hi + 1 \in 1 .. MaxVersion
      /\ newRow[t] # None /\ newRow[t] = [version |-> hi + 1, value |-> p.value]
      /\ NewRec(t) = [version |-> hi + 1, value |-> p.value, kind |-> p.kind]
  BY <1>1, AtCommit
<1>4. InOrder(View(t)) = VS!Newest(Append(InOrder(hist[s]), NewRec(t)), p.retention)
  BY <1>1, HistoryMapped
<1>5. /\ row' = [row EXCEPT ![s] = newRow[t]] /\ hist' = [hist EXCEPT ![s] = View(t)]
      /\ owner' = owner
  BY <1>3 DEF Commit
<1>6. DOMAIN row = Items \X Envs /\ DOMAIN hist = Items \X Envs
  BY DEF PgInv, TypeOK, Slots, VS!Slots
<1> HIDE DEF s
<1>7. VS!NextVersion(s) = hi + 1
  BY <1>2 DEF VS!NextVersion
<1>8. VS!CommitOutcome(p) = "ok"
  BY <1>2, <1>3 DEF VS!CommitOutcome
<1>9. VS!NextVersion(p.slot) <= MaxVersion
  BY <1>2, <1>3, <1>7, PgAssumption
<1>10. [q \in Items \X Envs |-> row'[q].version]
         = [[q \in Items \X Envs |-> row[q].version] EXCEPT ![s] = hi + 1]
  <2>1. \A q \in Items \X Envs : row'[q].version = IF q = s THEN hi + 1 ELSE row[q].version
    BY <1>2, <1>3, <1>5, <1>6
  <2> HIDE DEF hi
  <2> QED
    BY <1>2, <2>1
<1>11. [q \in Items \X Envs |-> InOrder(hist'[q])]
         = [[q \in Items \X Envs |-> InOrder(hist[q])] EXCEPT ![s] = InOrder(View(t))]
  BY <1>2, <1>5, <1>6
<1>12. VS!CommittedRec(p) = NewRec(t)
  BY <1>2, <1>3, <1>7 DEF VS!CommittedRec
<1> HIDE DEF hi
<1> QED
  BY <1>2, <1>3, <1>4, <1>5, <1>7, <1>8, <1>9, <1>10, <1>11, <1>12 DEF VS!CommitValue

\* The committed tables implement the atomic store: every COMMIT is one of its
\* commits and every other statement, abort or stutter is invisible.
THEOREM PgImplementsStore == PgSpec => Refines
<1>1. PgInv /\ [PgNext]_pgVars => [VS!StoreNext]_(VS!storeVars)
  <2> SUFFICES ASSUME PgInv, [PgNext]_pgVars  PROVE [VS!StoreNext]_(VS!storeVars)
    OBVIOUS
  <2>1. ASSUME UNCHANGED <<owner, row, hist>>  PROVE UNCHANGED VS!storeVars
    BY <2>1 DEF VS!storeVars
  <2>2. ASSUME NEW ten \in Tenants, NEW i \in Items, CreateItem(ten, i)  PROVE VS!StoreNext
    <3>1. VS!CreateItem(ten, i)
      BY <2>2 DEF CreateItem, VS!CreateItem
    <3> QED
      BY <3>1 DEF VS!StoreNext
  <2>3. ASSUME NEW t \in Txs, NEW p \in VS!CommitParams, Begin(t, p)
        PROVE  UNCHANGED <<owner, row, hist>>
    BY <2>3 DEF Begin
  <2>4. ASSUME NEW t \in Txs, Commit(t)  PROVE VS!StoreNext
    <3>1. PICK p \in VS!CommitParams : p = req[t]
      BY <2>4, SlotTyped DEF Commit
    <3>2. VS!CommitValue(p)
      BY <2>4, <3>1, CommitMapped
    <3> QED
      BY <3>2 DEF VS!StoreNext
  <2>5. ASSUME NEW t \in Txs, Step(t) \/ Abort(t), ~Commit(t)
        PROVE  UNCHANGED <<owner, row, hist>>
    BY <2>5 DEF Step, Abort, SelectForUpdate, TenantCheck, InsertValue, UpdateValue,
       InsertVersion, Prune, Fail
  <2>6. CASE UNCHANGED pgVars
    BY <2>1, <2>6 DEF pgVars
  <2> QED
    BY <2>1, <2>2, <2>3, <2>4, <2>5, <2>6 DEF PgNext
<1> QED
  BY <1>1, InitMapped, PgInvariant, PTL DEF PgSpec, Refines, VS!StoreSpec
=============================================================================
