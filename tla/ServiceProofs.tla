----------------------------- MODULE ServiceProofs -----------------------------
(***************************************************************************)
(* Proofs about the store of versioned values and the handlers over it.    *)
(*                                                                         *)
(* VersionStore: its type invariant, the two invariants of the history and *)
(* the action properties that follow from them.                            *)
(*                                                                         *)
(* ItemSchemas: the handlers take no step the store does not allow, so     *)
(* everything proved of the store holds under them, and no text is stored  *)
(* that no schema of its item ever accepted.                               *)
(*                                                                         *)
(* GrayRelease: the store's invariants hold under the handlers that make,  *)
(* promote and withdraw releases as well, and so do the invariants about   *)
(* gray releases, withdrawals, events and what instances are served.       *)
(***************************************************************************)
EXTENDS ItemSchemas, GrayRelease, WellFoundedInduction, TLAPS

(***************************************************************************)
(* 1. The store.                                                           *)
(***************************************************************************)
\* The inductive invariant: the history is a gapless run that ends at the
\* counter (so its length never exceeds the counter) and its last record is
\* the live value.
StoreInv == TypeOK /\ HistoryContiguous /\ LiveIsNewest

-----------------------------------------------------------------------------
\* Pruning keeps the tail of a history: the result has the last records of
\* the input in order, and always the very last one.
LEMMA NewestIsTail ==
  ASSUME NEW S, NEW h \in Seq(S), h # <<>>, NEW n \in Int
  PROVE  /\ Newest(h, n) \in Seq(S)
         /\ Len(Newest(h, n)) \in 1 .. Len(h)
         /\ \A k \in 1 .. Len(Newest(h, n)) :
              Newest(h, n)[k] = h[Len(h) - Len(Newest(h, n)) + k]
         /\ n # 1 /\ Len(h) > 1 => Len(Newest(h, n)) > 1
<1>1. CASE n > 0 /\ Len(h) > n
  <2>1. Newest(h, n) = SubSeq(h, Len(h) - n + 1, Len(h))
    BY <1>1 DEF Newest
  <2>2. /\ Len(Newest(h, n)) = n
        /\ \A k \in 1 .. n : Newest(h, n)[k] = h[Len(h) - n + k]
    BY <1>1, <2>1
  <2>3. Newest(h, n) \in Seq(S)
    BY <1>1, <2>1
  <2> QED
    BY <1>1, <2>2, <2>3
<1>2. CASE ~(n > 0 /\ Len(h) > n)
  <2>1. Newest(h, n) = h
    BY <1>2 DEF Newest
  <2> QED
    BY <2>1
<1> QED
  BY <1>1, <1>2

-----------------------------------------------------------------------------
\* What an accepted commit does to its own slot, in the form every proof
\* below uses: the counter advances by one, and the new history g is a tail of
\* the old one followed by the new record; the superseded record is in it
\* unless the retention is 1.
LEMMA CommitEffect ==
  ASSUME StoreAssumption, StoreInv, NEW p \in CommitParams, CommitValue(p)
  PROVE  LET s   == p.slot
             n   == versionSeq[s] + 1
             rec == [version |-> n, value |-> p.value, kind |-> p.kind]
         IN  /\ s \in Slots /\ p.value \in Vals /\ owner' = owner
             /\ versionSeq' = [versionSeq EXCEPT ![s] = n]
             /\ values' = [values EXCEPT ![s] = [version |-> n, value |-> p.value]]
             /\ \E g \in Seq(VersionRec) :
                  /\ versions' = [versions EXCEPT ![s] = g]
                  /\ Len(g) \in 1 .. Len(versions[s]) + 1
                  /\ g[Len(g)] = rec
                  /\ \A k \in 1 .. Len(g) - 1 :
                       g[k] = versions[s][Len(versions[s]) + 1 - Len(g) + k]
                  /\ p.retention # 1 /\ Len(versions[s]) > 0 => Len(g) > 1
<1> DEFINE s   == p.slot
           n   == versionSeq[s] + 1
           rec == [version |-> n, value |-> p.value, kind |-> p.kind]
           old == versions[s]
<1>1. s \in Slots /\ p.value \in Vals /\ p.kind \in Kinds /\ p.retention \in Int
  BY DEF CommitParams, StoreAssumption
<1>2. versionSeq[s] \in Nat /\ old \in Seq(VersionRec)
  BY <1>1 DEF StoreInv, TypeOK
<1>3. rec \in VersionRec
  BY <1>1, <1>2 DEF VersionRec
<1>4. /\ owner' = owner
      /\ versionSeq' = [versionSeq EXCEPT ![s] = n]
      /\ versions' = [versions EXCEPT ![s] = Newest(Append(old, rec), p.retention)]
      /\ values' = [values EXCEPT ![s] = [version |-> n, value |-> p.value]]
  BY DEF CommitValue, CommittedRec, NextVersion
<1> HIDE DEF rec, old
<1>5. PICK h \in Seq(VersionRec) :
        /\ h = Append(old, rec)
        /\ Len(h) = Len(old) + 1
        /\ h[Len(h)] = rec
        /\ \A j \in 1 .. Len(old) : h[j] = old[j]
  <2>1. Append(old, rec) \in Seq(VersionRec)
    BY <1>2, <1>3
  <2> WITNESS Append(old, rec) \in Seq(VersionRec)
  <2> QED
    BY <1>2, <1>3
<1>6. Len(old) \in Nat /\ h # <<>>
  BY <1>2, <1>5
<1>7. PICK g \in Seq(VersionRec) :
        /\ g = Newest(h, p.retention)
        /\ Len(g) \in 1 .. Len(h)
        /\ \A k \in 1 .. Len(g) : g[k] = h[Len(h) - Len(g) + k]
        /\ p.retention # 1 /\ Len(h) > 1 => Len(g) > 1
  BY <1>1, <1>6, NewestIsTail
<1>8. g[Len(g)] = rec
  BY <1>5, <1>6, <1>7
<1>9. \A k \in 1 .. Len(g) - 1 : g[k] = old[Len(old) + 1 - Len(g) + k]
  <2> SUFFICES ASSUME NEW k \in 1 .. Len(g) - 1
               PROVE  g[k] = old[Len(old) + 1 - Len(g) + k]
    OBVIOUS
  <2>1. /\ k \in 1 .. Len(g)
        /\ Len(h) - Len(g) + k = Len(old) + 1 - Len(g) + k
        /\ Len(old) + 1 - Len(g) + k \in 1 .. Len(old)
    BY <1>5, <1>6, <1>7
  <2> QED
    BY <1>5, <1>7, <2>1
<1>10. versions' = [versions EXCEPT ![s] = g]
  BY <1>4, <1>5, <1>7
<1>11. /\ Len(g) \in 1 .. Len(old) + 1
       /\ p.retention # 1 /\ Len(old) > 0 => Len(g) > 1
  BY <1>5, <1>6, <1>7
<1> QED
  BY <1>1, <1>4, <1>8, <1>9, <1>10, <1>11 DEF rec, old

-----------------------------------------------------------------------------
\* An accepted commit preserves the invariant.
LEMMA CommitPreservesInv ==
  ASSUME StoreAssumption, StoreInv, NEW p \in CommitParams, CommitValue(p)
  PROVE  StoreInv'
<1> DEFINE s   == p.slot
           n   == versionSeq[s] + 1
           rec == [version |-> n, value |-> p.value, kind |-> p.kind]
           old == versions[s]
<1>1. /\ s \in Slots /\ p.value \in Vals /\ owner' = owner
      /\ versionSeq' = [versionSeq EXCEPT ![s] = n]
      /\ values' = [values EXCEPT ![s] = [version |-> n, value |-> p.value]]
  BY CommitEffect
<1>2. PICK g \in Seq(VersionRec) :
        /\ versions' = [versions EXCEPT ![s] = g]
        /\ Len(g) \in 1 .. Len(old) + 1
        /\ g[Len(g)] = rec
        /\ \A k \in 1 .. Len(g) - 1 : g[k] = old[Len(old) + 1 - Len(g) + k]
  BY CommitEffect
<1>3. old \in Seq(VersionRec) /\ Len(old) \in Nat /\ versionSeq[s] \in Nat /\ n \in Nat
  BY <1>1 DEF StoreInv, TypeOK
<1>4. rec.version = n /\ rec.value = p.value
  OBVIOUS
<1>5. \A j \in 1 .. Len(old) : old[j].version = versionSeq[s] - Len(old) + j
  BY <1>1, <1>3 DEF StoreInv, HistoryContiguous
<1>6. /\ versions'[s] = g /\ versionSeq'[s] = n
      /\ values'[s] = [version |-> n, value |-> p.value]
      /\ \A q \in Slots : q # s => /\ versions'[q] = versions[q]
                                   /\ versionSeq'[q] = versionSeq[q]
                                   /\ values'[q] = values[q]
  BY <1>1, <1>2 DEF StoreInv, TypeOK
<1>7. TypeOK'
  <2> HIDE DEF s, n, rec, old
  <2> QED BY <1>1, <1>2, <1>3 DEF StoreInv, TypeOK, EnvValue
<1>8. \A k \in DOMAIN g : g[k].version = n - Len(g) + k
  <2> HIDE DEF rec, old, s
  <2> SUFFICES ASSUME NEW k \in 1 .. Len(g)  PROVE g[k].version = n - Len(g) + k
    BY <1>2
  <2>1. CASE k = Len(g)
    BY <1>2, <1>3, <1>4, <2>1
  <2>2. CASE k < Len(g)
    <3>1. /\ k \in 1 .. Len(g) - 1
          /\ Len(old) + 1 - Len(g) + k \in 1 .. Len(old)
      BY <1>2, <1>3, <2>2
    <3>2. g[k].version = versionSeq[s] - Len(old) + (Len(old) + 1 - Len(g) + k)
      BY <1>2, <1>5, <3>1
    <3> QED
      BY <1>2, <1>3, <3>2
  <2> QED
    BY <1>2, <2>1, <2>2
<1>9. Len(g) > 0 /\ g[Len(g)].value = p.value
  BY <1>2, <1>3
<1>10. HistoryContiguous' /\ LiveIsNewest'
  <2> HIDE DEF s, n, rec, old
  <2> QED BY <1>6, <1>8, <1>9 DEF StoreInv, HistoryContiguous, LiveIsNewest
<1> QED
  BY <1>7, <1>10 DEF StoreInv

\* Every step of the store, or of something that leaves it alone, preserves
\* the invariant.
LEMMA StoreStepPreservesInv ==
  ASSUME StoreAssumption, StoreInv, [StoreNext]_storeVars
  PROVE  StoreInv'
<1>1. ASSUME NEW t \in Tenants, NEW i \in Items, CreateItem(t, i)  PROVE StoreInv'
  BY <1>1 DEF CreateItem, StoreInv, TypeOK, HistoryContiguous, LiveIsNewest
<1>2. ASSUME NEW p \in CommitParams, CommitValue(p)  PROVE StoreInv'
  BY <1>2, StoreAssumption, CommitPreservesInv
<1>3. CASE UNCHANGED storeVars
  BY <1>3 DEF storeVars, StoreInv, TypeOK, HistoryContiguous, LiveIsNewest
<1> QED
  BY <1>1, <1>2, <1>3 DEF StoreNext

\* The invariant holds initially.
LEMMA StoreInitHasInv == StoreInit => StoreInv
BY DEF StoreInit, StoreInv, TypeOK, HistoryContiguous, LiveIsNewest, NoEntry, EnvValue

\* The invariant holds of every reachable state.
THEOREM StoreInvariant == StoreSpec => []StoreInv
<1>1. StoreInv /\ [StoreNext]_storeVars => StoreInv'
  BY StoreAssumption, StoreStepPreservesInv
<1> QED
  BY <1>1, StoreInitHasInv, PTL DEF StoreSpec

\* Type correctness of the store, for all constants.
THEOREM StoreTypeCorrect == StoreSpec => []TypeOK
<1>1. StoreInv => TypeOK
  BY DEF StoreInv
<1> QED
  BY <1>1, StoreInvariant, PTL

\* The retained history is always a gapless run that ends at the counter.
THEOREM HistoryNeverHasGaps == StoreSpec => []HistoryContiguous
<1>1. StoreInv => HistoryContiguous
  BY DEF StoreInv
<1> QED
  BY <1>1, StoreInvariant, PTL

\* The live value is always the newest record of the history.
THEOREM LiveValueIsNamed == StoreSpec => []LiveIsNewest
<1>1. StoreInv => LiveIsNewest
  BY DEF StoreInv
<1> QED
  BY <1>1, StoreInvariant, PTL

-----------------------------------------------------------------------------
\* No step gives a version number a second content.
THEOREM NumbersNameOneContent == StoreSpec => VersionsNeverReassigned
<1> DEFINE Act == \A s \in Slots : \A k \in DOMAIN versions'[s] :
                    \/ \E j \in DOMAIN versions[s] : versions'[s][k] = versions[s][j]
                    \/ versions'[s][k].version > versionSeq[s]
<1>1. StoreInv /\ [StoreNext]_storeVars => [Act]_storeVars
  <2> SUFFICES ASSUME StoreInv, StoreNext  PROVE Act
    OBVIOUS
  <2>1. ASSUME NEW t \in Tenants, NEW i \in Items, CreateItem(t, i)  PROVE Act
    BY <2>1 DEF CreateItem
  <2>2. ASSUME NEW p \in CommitParams, CommitValue(p)  PROVE Act
    <3> DEFINE s   == p.slot
               old == versions[s]
    <3>1. s \in Slots
      BY <2>2, StoreAssumption, CommitEffect
    <3>2. PICK g \in Seq(VersionRec) :
            /\ versions' = [versions EXCEPT ![s] = g]
            /\ Len(g) \in 1 .. Len(old) + 1
            /\ g[Len(g)] = [version |-> versionSeq[s] + 1, value |-> p.value, kind |-> p.kind]
            /\ \A k \in 1 .. Len(g) - 1 : g[k] = old[Len(old) + 1 - Len(g) + k]
      BY <2>2, StoreAssumption, CommitEffect
    <3>3. old \in Seq(VersionRec) /\ Len(old) \in Nat /\ versionSeq[s] \in Nat
      BY <3>1 DEF StoreInv, TypeOK
    <3>4. \A q \in Slots : versions'[q] = IF q = s THEN g ELSE versions[q]
      BY <3>1, <3>2 DEF StoreInv, TypeOK
    <3> HIDE DEF s, old
    <3>5. \A k \in DOMAIN g : \/ \E j \in DOMAIN old : g[k] = old[j]
                              \/ g[k].version > versionSeq[s]
      <4> SUFFICES ASSUME NEW k \in 1 .. Len(g)
                   PROVE  \/ \E j \in DOMAIN old : g[k] = old[j]
                          \/ g[k].version > versionSeq[s]
        BY <3>2
      <4>1. CASE k = Len(g)
        BY <3>2, <3>3, <4>1
      <4>2. CASE k < Len(g)
        <5>1. /\ k \in 1 .. Len(g) - 1
              /\ Len(old) + 1 - Len(g) + k \in DOMAIN old
          BY <3>2, <3>3, <4>2
        <5> QED
          BY <3>2, <5>1
      <4> QED
        BY <3>2, <4>1, <4>2
    <3> QED
      BY <3>4, <3>5 DEF old
  <2> QED
    BY <2>1, <2>2 DEF StoreNext
<1> QED
  BY <1>1, StoreInvariant, PTL DEF StoreSpec, VersionsNeverReassigned

\* A commit never evicts the version it supersedes unless the tenant keeps a
\* single version.
THEOREM SupersededVersionSurvives == StoreSpec => SupersededStaysReachable
<1> DEFINE Act == \A p \in CommitParams :
                    /\ CommitValue(p)
                    /\ values[p.slot].version > 0
                    /\ p.retention # 1
                    => \E k \in DOMAIN versions'[p.slot] :
                         /\ versions'[p.slot][k].version = values[p.slot].version
                         /\ versions'[p.slot][k].value   = values[p.slot].value
<1>1. StoreInv => Act
  <2> SUFFICES ASSUME StoreInv, NEW p \in CommitParams, CommitValue(p),
                      values[p.slot].version > 0, p.retention # 1
               PROVE  \E k \in DOMAIN versions'[p.slot] :
                        /\ versions'[p.slot][k].version = values[p.slot].version
                        /\ versions'[p.slot][k].value   = values[p.slot].value
    OBVIOUS
  <2> DEFINE s   == p.slot
             old == versions[s]
  <2>1. s \in Slots
    BY StoreAssumption, CommitEffect
  <2>2. PICK g \in Seq(VersionRec) :
          /\ versions' = [versions EXCEPT ![s] = g]
          /\ Len(g) \in 1 .. Len(old) + 1
          /\ \A k \in 1 .. Len(g) - 1 : g[k] = old[Len(old) + 1 - Len(g) + k]
          /\ p.retention # 1 /\ Len(old) > 0 => Len(g) > 1
    BY StoreAssumption, CommitEffect
  <2>3. /\ old \in Seq(VersionRec) /\ Len(old) \in Nat \ {0}
        /\ old[Len(old)].version = values[s].version
        /\ old[Len(old)].value = values[s].value
    BY <2>1 DEF StoreInv, TypeOK, HistoryContiguous, LiveIsNewest
  <2>4. versions'[s] = g
    BY <2>1, <2>2 DEF StoreInv, TypeOK
  <2> HIDE DEF s, old
  <2>5. Len(g) - 1 \in DOMAIN g /\ g[Len(g) - 1] = old[Len(old)]
    <3>1. /\ Len(g) - 1 \in 1 .. Len(g) - 1
          /\ Len(old) + 1 - Len(g) + (Len(g) - 1) = Len(old)
      BY <2>2, <2>3
    <3> QED
      BY <2>2, <3>1
  <2> QED
    BY <2>3, <2>4, <2>5 DEF s
<1> QED
  BY <1>1, StoreInvariant, PTL DEF SupersededStaysReachable

(***************************************************************************)
(* 2. Schemas.                                                             *)
(***************************************************************************)
\* The types of the handlers' variables.
SchemaTypeOK ==
  /\ schema     \in [Items -> Schemas \cup {None}]
  /\ call       \in [Callers -> Calls]
  /\ everSchema \in [Items -> SUBSET Schemas]

\* An item's present schema is one it has had; an item not created had none.
PresentIsRecorded ==
  \A i \in Items : /\ owner[i] # None => schema[i] \in everSchema[i]
                   /\ owner[i] = None => everSchema[i] = {}

\* A handler that holds a text holds one that some schema has accepted.
CallsHoldAccepted ==
  \A c \in Callers :
    call[c].at # "none" => WasAccepted(call[c].slot[1], call[c].value)

\* The inductive invariant: a text comes into the history from a handler, and
\* into a handler from a validation or from the history.
SchemaInv == /\ StoreInv
             /\ SchemaTypeOK
             /\ PresentIsRecorded
             /\ CallsHoldAccepted
             /\ EveryVersionWasAccepted

-----------------------------------------------------------------------------
\* The commit of a handler is a CommitValue of the store with parameters in
\* its range: the handler's item exists, so its owner is a tenant.
LEMMA WriteIsCommit ==
  ASSUME StoreAssumption, SchemaInv, NEW c \in Callers, Write(c)
  PROVE  \E p \in CommitParams : /\ CommitValue(p)
                                 /\ p.slot = call[c].slot
                                 /\ p.value = call[c].value
<1> DEFINE k == call[c]
<1>1. /\ k.at = "ready" /\ k.slot \in Slots /\ k.value \in Vals /\ k.expected \in Nat
  BY DEF Write, SchemaInv, SchemaTypeOK, Calls
<1>2. k.slot[1] \in Items
  BY <1>1 DEF Slots
<1>3. owner[k.slot[1]] \in Tenants
  BY <1>1, <1>2 DEF SchemaInv, StoreInv, TypeOK, CallsHoldAccepted, WasAccepted, PresentIsRecorded
<1>4. PICK kind \in Kinds, r \in Retentions :
        CommitValue([tenant |-> owner[k.slot[1]], slot |-> k.slot,
                     expected |-> k.expected, value |-> k.value,
                     kind |-> kind, retention |-> r])
  BY DEF Write
<1> DEFINE p == [tenant |-> owner[k.slot[1]], slot |-> k.slot,
                 expected |-> k.expected, value |-> k.value,
                 kind |-> kind, retention |-> r]
<1>5. /\ k.expected = values[k.slot].version
      /\ versionSeq[k.slot] + 1 <= MaxVersion
  BY <1>4 DEF CommitValue, CommitOutcome, NextVersion
<1>6. k.expected \in 0 .. MaxVersion
  BY <1>1, <1>5, StoreAssumption DEF SchemaInv, StoreInv, LiveIsNewest
<1>7. p \in CommitParams
  BY <1>1, <1>3, <1>4, <1>6 DEF CommitParams
<1> QED
  BY <1>4, <1>7

\* Every step of the handlers is a step of the store, or leaves it alone.
LEMMA HandlersStepStore ==
  ASSUME StoreAssumption, SchemaInv, [SchemaNext]_schemaVars
  PROVE  [StoreNext]_storeVars
<1>1. ASSUME NEW t \in Tenants, NEW i \in Items, NEW x \in Schemas,
             CreateWithSchema(t, i, x)
      PROVE  [StoreNext]_storeVars
  BY <1>1 DEF CreateWithSchema, StoreNext
<1>2. ASSUME NEW c \in Callers, Write(c)  PROVE [StoreNext]_storeVars
  BY <1>2, StoreAssumption, WriteIsCommit DEF StoreNext
<1>3. CASE \E i \in Items, x \in Schemas : UpdateSchema(i, x)
  BY <1>3 DEF UpdateSchema
<1>4. ASSUME NEW c \in Callers, HandlerStep(c), ~Write(c)
      PROVE  [StoreNext]_storeVars
  BY <1>4 DEF HandlerStep, ValidateCommit, ReadOldVersion, ReadCurrent, GiveUp
<1>5. CASE UNCHANGED schemaVars
  BY <1>5 DEF schemaVars
<1> QED
  BY <1>1, <1>2, <1>3, <1>4, <1>5 DEF SchemaNext

-----------------------------------------------------------------------------
\* A retained version is found, with a text of its slot's history.
LEMMA GetVersionFinds ==
  ASSUME NEW s \in Slots, NEW n, Retained(s, n)
  PROVE  \E k \in DOMAIN versions[s] : GetVersion(s, n) = versions[s][k]
BY DEF Retained, GetVersion

\* A commit adds at most its own text to the history.
LEMMA CommitAddsItsText ==
  ASSUME StoreAssumption, StoreInv, NEW p \in CommitParams, CommitValue(p),
         NEW s \in Slots, NEW k \in DOMAIN versions'[s]
  PROVE  \/ s = p.slot /\ versions'[s][k].value = p.value
         \/ \E j \in DOMAIN versions[s] : versions'[s][k] = versions[s][j]
<1> DEFINE rec == [version |-> versionSeq[p.slot] + 1, value |-> p.value, kind |-> p.kind]
           old == versions[p.slot]
<1>1. versions \in [Slots -> Seq(VersionRec)]
  BY DEF StoreInv, TypeOK
<1>2. PICK g \in Seq(VersionRec) :
        /\ p.slot \in Slots
        /\ versions' = [versions EXCEPT ![p.slot] = g]
        /\ Len(g) \in 1 .. Len(old) + 1
        /\ g[Len(g)] = rec
        /\ \A m \in 1 .. Len(g) - 1 : g[m] = old[Len(old) + 1 - Len(g) + m]
  BY CommitEffect
<1>3. CASE s # p.slot
  BY <1>1, <1>2, <1>3
<1>4. CASE s = p.slot
  <2>1. versions'[s] = g /\ k \in 1 .. Len(g)
    BY <1>1, <1>2, <1>4
  <2>2. CASE k = Len(g)
    BY <1>2, <1>4, <2>1, <2>2
  <2>3. CASE k # Len(g)
    <3>1. old \in Seq(VersionRec) /\ Len(old) \in Nat
      BY <1>1, <1>2
    <3>2. /\ k \in 1 .. Len(g) - 1
          /\ Len(old) + 1 - Len(g) + k \in 1 .. Len(old)
      BY <1>2, <2>1, <2>3, <3>1
    <3>3. g[k] = old[Len(old) + 1 - Len(g) + k]
      BY <1>2, <3>2
    <3>4. DOMAIN old = 1 .. Len(old)
      BY <3>1
    <3>5. \E j \in DOMAIN old : g[k] = old[j]
      BY <3>2, <3>3, <3>4
    <3> QED
      BY <1>4, <2>1, <3>5
  <2> QED
    BY <2>2, <2>3
<1> QED
  BY <1>3, <1>4

-----------------------------------------------------------------------------
\* Giving item i the schema x forgets no schema of any item.
LEMMA SetSchemaKeeps ==
  ASSUME SchemaTypeOK, NEW i \in Items, NEW x \in Schemas, SetSchema(i, x)
  PROVE  /\ schema' \in [Items -> Schemas \cup {None}]
         /\ everSchema' \in [Items -> SUBSET Schemas]
         /\ schema'[i] = x /\ x \in everSchema'[i]
         /\ \A j \in Items : /\ everSchema[j] \subseteq everSchema'[j]
                             /\ j # i => /\ schema'[j] = schema[j]
                                         /\ everSchema'[j] = everSchema[j]
BY DEF SetSchema, SchemaTypeOK

\* A step that only takes call c from one place to another keeps the
\* invariant if the call it leaves holds an accepted text.
LEMMA CallStepKeepsInv ==
  ASSUME SchemaInv, NEW c \in Callers, NEW k \in Calls,
         call' = [call EXCEPT ![c] = k],
         UNCHANGED <<storeVars, schema, everSchema>>,
         k.at # "none" => WasAccepted(k.slot[1], k.value)
  PROVE  SchemaInv'
<1>1. StoreInv'
  BY DEF storeVars, SchemaInv, StoreInv, TypeOK, HistoryContiguous, LiveIsNewest
<1>2. SchemaTypeOK' /\ CallsHoldAccepted'
  BY DEF SchemaInv, SchemaTypeOK, CallsHoldAccepted, WasAccepted
<1>3. PresentIsRecorded' /\ EveryVersionWasAccepted'
  BY DEF storeVars, SchemaInv, PresentIsRecorded, EveryVersionWasAccepted, WasAccepted
<1> QED
  BY <1>1, <1>2, <1>3 DEF SchemaInv

\* Every step preserves the invariant.
LEMMA StepKeepsSchemaInv ==
  ASSUME StoreAssumption, SchemaAssumption, SchemaInv, [SchemaNext]_schemaVars
  PROVE  SchemaInv'
<1>1. StoreInv'
  <2>1. StoreInv /\ [StoreNext]_storeVars
    BY StoreAssumption, HandlersStepStore DEF SchemaInv
  <2> QED
    BY <2>1, StoreAssumption, StoreStepPreservesInv
<1>2. ASSUME NEW t \in Tenants, NEW i \in Items, NEW x \in Schemas,
             CreateWithSchema(t, i, x)
      PROVE  SchemaInv'
  <2>1. /\ owner[i] = None /\ t # None /\ owner \in [Items -> Tenants \cup {None}]
        /\ owner' = [owner EXCEPT ![i] = t]
        /\ UNCHANGED <<values, versionSeq, versions, call>>
    BY <1>2, StoreAssumption DEF CreateWithSchema, CreateItem, SchemaInv, StoreInv, TypeOK
  <2>2. SetSchema(i, x) /\ SchemaTypeOK
    BY <1>2 DEF CreateWithSchema, SchemaInv
  <2>3. SchemaTypeOK'
    BY <2>1, <2>2, SetSchemaKeeps DEF SchemaTypeOK
  <2>4. PresentIsRecorded'
    BY <2>1, <2>2, SetSchemaKeeps DEF SchemaInv, PresentIsRecorded
  <2>5. CallsHoldAccepted' /\ EveryVersionWasAccepted'
    BY <2>1, <2>2, SetSchemaKeeps
       DEF SchemaInv, SchemaTypeOK, Calls, Slots, CallsHoldAccepted,
           EveryVersionWasAccepted, WasAccepted
  <2> QED
    BY <1>1, <2>3, <2>4, <2>5 DEF SchemaInv
<1>3. ASSUME NEW i \in Items, NEW x \in Schemas, UpdateSchema(i, x)
      PROVE  SchemaInv'
  <2>1. owner[i] # None /\ UNCHANGED <<owner, values, versionSeq, versions, call>>
    BY <1>3 DEF UpdateSchema, storeVars
  <2>2. SetSchema(i, x) /\ SchemaTypeOK
    BY <1>3 DEF UpdateSchema, SchemaInv
  <2>3. SchemaTypeOK'
    BY <2>1, <2>2, SetSchemaKeeps DEF SchemaTypeOK
  <2>4. PresentIsRecorded'
    BY <2>1, <2>2, SetSchemaKeeps DEF SchemaInv, PresentIsRecorded
  <2>5. CallsHoldAccepted' /\ EveryVersionWasAccepted'
    BY <2>1, <2>2, SetSchemaKeeps
       DEF SchemaInv, SchemaTypeOK, Calls, Slots, CallsHoldAccepted,
           EveryVersionWasAccepted, WasAccepted
  <2> QED
    BY <1>1, <2>3, <2>4, <2>5 DEF SchemaInv
<1>4. ASSUME NEW c \in Callers, NEW s \in Slots, NEW v \in Vals,
             NEW n \in 0 .. MaxVersion, ValidateCommit(c, s, v, n)
      PROVE  SchemaInv'
  <2>1. Ready(s, v, n) \in Calls
    BY DEF Ready, Calls
  <2>2. s[1] \in Items /\ owner[s[1]] # None /\ v \in AcceptedBy[schema[s[1]]]
    BY <1>4 DEF ValidateCommit, Valid, Slots
  <2>3. WasAccepted(s[1], v)
    BY <2>2 DEF WasAccepted, SchemaInv, PresentIsRecorded
  <2> QED
    BY <1>4, <2>1, <2>3, CallStepKeepsInv DEF ValidateCommit, Ready
<1>5. ASSUME NEW c \in Callers, NEW s \in Slots, NEW n \in 1 .. MaxVersion,
             ReadOldVersion(c, s, n)
      PROVE  SchemaInv'
  <2>1. PICK k \in DOMAIN versions[s] : GetVersion(s, n) = versions[s][k]
    BY <1>5, GetVersionFinds DEF ReadOldVersion
  <2>2. versions[s][k] \in VersionRec
    BY <2>1 DEF SchemaInv, StoreInv, TypeOK
  <2>3. Found(s, versions[s][k].value) \in Calls
    BY <2>2 DEF Found, Calls, VersionRec
  <2>4. WasAccepted(s[1], versions[s][k].value)
    BY <2>1 DEF SchemaInv, EveryVersionWasAccepted
  <2> QED
    BY <1>5, <2>1, <2>3, <2>4, CallStepKeepsInv DEF ReadOldVersion, Found
<1>6. ASSUME NEW c \in Callers, ReadCurrent(c)  PROVE SchemaInv'
  <2>1. call[c].at = "found" /\ call[c].slot \in Slots /\ call[c].value \in Vals
    BY <1>6 DEF ReadCurrent, SchemaInv, SchemaTypeOK, Calls
  <2>2. values[call[c].slot].version \in Nat
    BY <2>1 DEF SchemaInv, StoreInv, TypeOK, EnvValue
  <2>3. Ready(call[c].slot, call[c].value, values[call[c].slot].version) \in Calls
    BY <2>1, <2>2 DEF Ready, Calls
  <2>4. WasAccepted(call[c].slot[1], call[c].value)
    BY <2>1 DEF SchemaInv, CallsHoldAccepted
  <2>5. /\ call' = [call EXCEPT ![c] = Ready(call[c].slot, call[c].value,
                                            values[call[c].slot].version)]
        /\ UNCHANGED <<storeVars, schema, everSchema>>
    BY <1>6 DEF ReadCurrent, SchemaInv, SchemaTypeOK
  <2> QED
    BY <2>3, <2>4, <2>5, CallStepKeepsInv DEF Ready
<1>7. ASSUME NEW c \in Callers, Write(c)  PROVE SchemaInv'
  <2>1. PICK p \in CommitParams : /\ CommitValue(p)
                                  /\ p.slot = call[c].slot
                                  /\ p.value = call[c].value
    BY <1>7, StoreAssumption, WriteIsCommit
  <2>2. /\ owner' = owner /\ UNCHANGED <<schema, everSchema>>
        /\ call' = [call EXCEPT ![c] = NoCall]
        /\ WasAccepted(call[c].slot[1], call[c].value)
    BY <1>7, <2>1 DEF Write, CommitValue, SchemaInv, CallsHoldAccepted
  <2>3. SchemaTypeOK' /\ PresentIsRecorded' /\ CallsHoldAccepted'
    BY <2>2 DEF SchemaInv, SchemaTypeOK, PresentIsRecorded, CallsHoldAccepted,
                WasAccepted, NoCall, Calls
  <2>4. ASSUME NEW s \in Slots, NEW k \in DOMAIN versions'[s]
        PROVE  WasAccepted(s[1], versions'[s][k].value)
    BY <2>1, <2>2, StoreAssumption, CommitAddsItsText
       DEF SchemaInv, EveryVersionWasAccepted
  <2>5. EveryVersionWasAccepted'
    BY <2>2, <2>4 DEF EveryVersionWasAccepted, WasAccepted
  <2> QED
    BY <1>1, <2>3, <2>5 DEF SchemaInv
<1>8. ASSUME NEW c \in Callers, GiveUp(c)  PROVE SchemaInv'
  <2>1. NoCall \in Calls /\ NoCall.at = "none"
    BY DEF NoCall, Calls
  <2> QED
    BY <1>8, <2>1, CallStepKeepsInv DEF GiveUp
<1>9. CASE UNCHANGED schemaVars
  BY <1>1, <1>9 DEF schemaVars, storeVars, SchemaInv, SchemaTypeOK, PresentIsRecorded,
     CallsHoldAccepted, EveryVersionWasAccepted, WasAccepted
<1> QED
  BY <1>2, <1>3, <1>4, <1>5, <1>6, <1>7, <1>8, <1>9 DEF SchemaNext, HandlerStep

\* The invariant holds of every reachable state.
THEOREM SchemaInvariant == SchemaSpec => []SchemaInv
<1>1. SchemaInit => SchemaInv
  <2> SUFFICES ASSUME SchemaInit  PROVE SchemaInv
    OBVIOUS
  <2>1. StoreInv
    BY StoreInitHasInv DEF SchemaInit
  <2>2. SchemaTypeOK /\ CallsHoldAccepted
    BY DEF SchemaInit, SchemaTypeOK, CallsHoldAccepted, NoCall, Calls
  <2>3. PresentIsRecorded /\ EveryVersionWasAccepted
    BY DEF SchemaInit, StoreInit, PresentIsRecorded, EveryVersionWasAccepted
  <2> QED
    BY <2>1, <2>2, <2>3 DEF SchemaInv
<1>2. SchemaInv /\ [SchemaNext]_schemaVars => SchemaInv'
  BY StoreAssumption, SchemaAssumption, StepKeepsSchemaInv
<1> QED
  BY <1>1, <1>2, PTL DEF SchemaSpec

\* No version holds a text that its item's schemas, past and present, all
\* refuse, wherever UpdateSchema falls between the validation and the write of
\* a Commit, and although Rollback does not validate.
THEOREM StoredTextsWereValidated == SchemaSpec => []EveryVersionWasAccepted
<1>1. SchemaInv => EveryVersionWasAccepted
  BY DEF SchemaInv
<1> QED
  BY <1>1, SchemaInvariant, PTL

\* The handlers implement the store: whatever they do, the store sees only
\* CreateItem and CommitValue with parameters in their range.
THEOREM HandlersImplementStore == SchemaSpec => StoreSpec
<1>1. SchemaInit => StoreInit
  BY DEF SchemaInit
<1>2. SchemaInv /\ [SchemaNext]_schemaVars => [StoreNext]_storeVars
  BY StoreAssumption, HandlersStepStore
<1> QED
  BY <1>1, <1>2, SchemaInvariant, PTL DEF SchemaSpec, StoreSpec

\* So numbering, history and live values are right under the handlers too.
THEOREM HandlersKeepHistory == SchemaSpec => [](HistoryContiguous /\ LiveIsNewest)
BY HandlersImplementStore, HistoryNeverHasGaps, LiveValueIsNamed, PTL

(***************************************************************************)
(* 3. Gray releases.                                                       *)
(***************************************************************************)
-----------------------------------------------------------------------------
\* The types.  A job or a read that is not in use holds NoJob's slot, which is
\* a slot only if there is one.
Labels == {"idle", "commitValue", "getItem", "createRelease", "getPrev",
           "updateRelease", "publish"}
Ops == {"commit", "gray", "rollback", "promote", "gray_rollback"}
AnySlot == Slots \cup {NoJob.slot}

ReleaseRec == [slot : Slots, version : 1 .. MaxVersion, prev : Nat,
               selected : SUBSET Instances,
               status : {"gray", "promoted", "rolled_back"}]
JobRec == [op : Ops, slot : AnySlot, expected : 0 .. MaxVersion,
           value : Vals \cup {None}, version : 0 .. MaxVersion, rel : Nat,
           selected : SUBSET Instances]
CommitRec == [slot : Slots, version : 1 .. MaxVersion, value : Vals, kind : Kinds,
              rel : Nat]
ReadRec == [slot : AnySlot, rel : Nat]
ServedRec == [slot : AnySlot, version : Nat, value : Vals \cup {None}]

ServiceTypeOK ==
  /\ owner \in [Items -> Tenants]
  /\ \A s \in Slots : versionSeq[s] <= MaxVersion
  /\ releases \in Seq(ReleaseRec)
  /\ pc \in [Operators -> Labels]
  /\ job \in [Operators -> JobRec]
  /\ rpc \in [Instances -> {"idle", "items", "prev"}]
  /\ read \in [Instances -> ReadRec]
  /\ served \in [Instances -> ServedRec]
  /\ commits \in SUBSET CommitRec

-----------------------------------------------------------------------------
\* Version v of slot s was written at some time; it was written with value x.
Committed(s, v)  == \E c \in commits : c.slot = s /\ c.version = v
Written(s, v, x) == \E c \in commits : c.slot = s /\ c.version = v /\ c.value = x

\* The value of release r has been withdrawn.
Withdrawn(r) == \E c \in commits : c.kind = "gray_rollback" /\ c.rel = r

\* The commits are what the store handed out: numbers up to the counter, each
\* once, and the retained history is among them.
CommitsOK ==
  /\ \A c \in commits : c.version <= versionSeq[c.slot]
  /\ \A c, d \in commits : c.slot = d.slot /\ c.version = d.version => c = d
  /\ \A s \in Slots : \A k \in DOMAIN versions[s] :
       Written(s, versions[s][k].version, versions[s][k].value)

\* A release follows the version it scopes, and that version was written on
\* top of the one the release calls its previous version.
ReleasesOK ==
  \A r \in DOMAIN releases :
    /\ releases[r].prev = releases[r].version - 1
    /\ Committed(releases[r].slot, releases[r].version)

\* A withdrawal names a release that exists.
WithdrawalsOK ==
  \A c \in commits : c.kind = "gray_rollback" => c.rel \in DOMAIN releases

\* What the handler of o may rely on at each of its labels.
AtGetItem(j) == j.op = "rollback" /\ j.slot \in Slots /\ j.value \in Vals
AtGetPrev(j) == j.op = "gray_rollback" /\ j.rel \in DOMAIN releases
AtCommitValue(j) ==
  /\ j.op # "promote" /\ j.slot \in Slots /\ j.value \in Vals
  /\ j.op = "gray_rollback" =>
       /\ j.rel \in DOMAIN releases
       /\ j.slot = releases[j.rel].slot
       /\ j.expected = releases[j.rel].version
       /\ Written(j.slot, j.expected - 1, j.value)
AtCreateRelease(j) ==
  /\ j.op = "gray" /\ j.slot \in Slots
  /\ j.version = j.expected + 1
  /\ Committed(j.slot, j.version)
AtUpdateRelease(j) ==
  /\ j.op \in {"promote", "gray_rollback"}
  /\ j.rel \in DOMAIN releases
  /\ Committed(j.slot, j.version)
  /\ j.op = "gray_rollback" => Withdrawn(j.rel)
AtPublish(j) ==
  /\ Committed(j.slot, j.version)
  /\ j.op = "gray" => /\ j.rel \in DOMAIN releases
                      /\ releases[j.rel].slot = j.slot
                      /\ releases[j.rel].version = j.version
  /\ j.op \in {"promote", "gray_rollback"} =>
       j.rel \in DOMAIN releases /\ releases[j.rel].status # "gray"

HandlerOK(o) ==
  /\ pc[o] = "getItem"       => AtGetItem(job[o])
  /\ pc[o] = "getPrev"       => AtGetPrev(job[o])
  /\ pc[o] = "commitValue"   => AtCommitValue(job[o])
  /\ pc[o] = "createRelease" => AtCreateRelease(job[o])
  /\ pc[o] = "updateRelease" => AtUpdateRelease(job[o])
  /\ pc[o] = "publish"       => AtPublish(job[o])

\* What Effective of n may rely on: the release it noted is one of the item,
\* and it asks for a previous version only when that release leaves n out.
\* What it has served was committed.
ReaderOK(n) ==
  /\ rpc[n] # "idle" => read[n].slot \in Slots
  /\ read[n].rel # 0 => /\ read[n].rel \in DOMAIN releases
                        /\ releases[read[n].rel].slot[1] = read[n].slot[1]
  /\ rpc[n] = "prev" => read[n].rel # 0 /\ n \notin releases[read[n].rel].selected
  /\ served[n].version # 0 =>
       Written(served[n].slot, served[n].version, served[n].value)

\* The inductive invariant.
GrayInv ==
  /\ StoreInv /\ ServiceTypeOK
  /\ CommitsOK /\ ReleasesOK /\ WithdrawalsOK
  /\ GrayRollbackRestores /\ RolledBackIsWithdrawn
  /\ \A o \in Operators : HandlerOK(o)
  /\ \A n \in Instances : ReaderOK(n)

-----------------------------------------------------------------------------
\* What no step takes back: a commit, a release, what a release scopes, and
\* the end of its gray status.
RecordsKept ==
  /\ commits \subseteq commits'
  /\ \A r \in DOMAIN releases :
       /\ r \in DOMAIN releases'
       /\ releases'[r].slot = releases[r].slot
       /\ releases'[r].version = releases[r].version
       /\ releases'[r].prev = releases[r].prev
       /\ releases'[r].selected = releases[r].selected
       /\ releases[r].status # "gray" => releases'[r].status # "gray"

\* Operator o alone has moved, and nothing of any operator is ill-typed.
OnlyMoves(o) ==
  /\ pc' \in [Operators -> Labels] /\ job' \in [Operators -> JobRec]
  /\ \A q \in Operators \ {o} : pc'[q] = pc[q] /\ job'[q] = job[q]

\* What a handler relies on stays true while others move.
LEMMA HandlerKept ==
  ASSUME RecordsKept, NEW o \in Operators, HandlerOK(o),
         pc'[o] = pc[o], job'[o] = job[o]
  PROVE  HandlerOK(o)'
BY DEF RecordsKept, HandlerOK, AtGetItem, AtGetPrev, AtCommitValue, AtCreateRelease,
       AtUpdateRelease, AtPublish, Committed, Written, Withdrawn

\* What a reader relies on stays true while others move.
LEMMA ReaderKept ==
  ASSUME RecordsKept, NEW n \in Instances, ReaderOK(n),
         rpc'[n] = rpc[n], read'[n] = read[n], served'[n] = served[n]
  PROVE  ReaderOK(n)'
BY DEF RecordsKept, ReaderOK, Written

\* A step that leaves the tables alone keeps every fact about them.
LEMMA TablesKept ==
  ASSUME GrayInv, UNCHANGED <<storeVars, releases, commits>>
  PROVE  /\ StoreInv' /\ RecordsKept
         /\ CommitsOK' /\ ReleasesOK' /\ WithdrawalsOK'
         /\ GrayRollbackRestores' /\ RolledBackIsWithdrawn'
<1>1. StoreInv'
  BY StoreAssumption, StoreStepPreservesInv DEF GrayInv
<1>2. RecordsKept
  BY DEF RecordsKept
<1>3. /\ CommitsOK' /\ ReleasesOK' /\ WithdrawalsOK'
      /\ GrayRollbackRestores' /\ RolledBackIsWithdrawn'
  BY DEF GrayInv, storeVars, CommitsOK, ReleasesOK, WithdrawalsOK, GrayRollbackRestores,
         RolledBackIsWithdrawn, Committed, Written
<1> QED
  BY <1>1, <1>2, <1>3

\* A step of a handler between two store calls preserves the invariant if the
\* label it reaches may rely on what it then holds.
LEMMA LocalStepPreserves ==
  ASSUME GrayInv, NEW o \in Operators, OnlyLocal, OnlyMoves(o), HandlerOK(o)'
  PROVE  GrayInv'
<1>1. UNCHANGED <<storeVars, releases, commits>> /\ UNCHANGED readVars
  BY DEF OnlyLocal
<1>2. /\ StoreInv' /\ RecordsKept
      /\ CommitsOK' /\ ReleasesOK' /\ WithdrawalsOK'
      /\ GrayRollbackRestores' /\ RolledBackIsWithdrawn'
  BY <1>1, TablesKept
<1>3. ServiceTypeOK'
  BY <1>1 DEF GrayInv, ServiceTypeOK, OnlyMoves, storeVars, readVars
<1>4. \A q \in Operators : HandlerOK(q)'
  BY <1>2, HandlerKept DEF GrayInv, OnlyMoves
<1>5. \A n \in Instances : ReaderOK(n)'
  BY <1>1, <1>2, ReaderKept DEF GrayInv, readVars
<1> QED
  BY <1>2, <1>3, <1>4, <1>5 DEF GrayInv

\* GetVersion answers with the record that was asked for, and some commit
\* wrote it.
LEMMA GetVersionCommitted ==
  ASSUME GrayInv, NEW s \in Slots, NEW n, Retained(s, n)
  PROVE  /\ GetVersion(s, n).version = n
         /\ GetVersion(s, n).version \in Nat
         /\ GetVersion(s, n).value \in Vals
         /\ Written(s, n, GetVersion(s, n).value)
<1>1. PICK k \in DOMAIN versions[s] : GetVersion(s, n) = versions[s][k] /\ versions[s][k].version = n
  BY DEF Retained, GetVersion
<1>2. versions[s] \in Seq(VersionRec) /\ versions[s][k] \in VersionRec
  BY DEF GrayInv, StoreInv, TypeOK
<1>3. Written(s, versions[s][k].version, versions[s][k].value)
  BY DEF GrayInv, CommitsOK
<1> QED
  BY <1>1, <1>2, <1>3 DEF VersionRec

-----------------------------------------------------------------------------
\* A handler that has nothing to do holds a well-typed job.
LEMMA NoJobTyped ==
  NoJob \in JobRec /\ NoJob.rel = 0 /\ NoJob.value = None /\ NoJob.expected = 0
BY StoreAssumption DEF NoJob, JobRec, Ops, AnySlot

\* Every row of the releases table is well typed.
LEMMA ReleaseTyped ==
  ASSUME GrayInv, NEW r \in DOMAIN releases
  PROVE  /\ r \in 1 .. Len(releases) /\ Len(releases) \in Nat
         /\ releases[r] \in ReleaseRec
         /\ releases[r].slot \in Slots /\ releases[r].slot \in AnySlot
         /\ releases[r].version \in 1 .. MaxVersion /\ releases[r].version \in 0 .. MaxVersion
<1>1. releases \in Seq(ReleaseRec)
  BY DEF GrayInv, ServiceTypeOK
<1>2. r \in 1 .. Len(releases) /\ releases[r] \in ReleaseRec
  BY <1>1
<1> QED
  BY <1>1, <1>2, StoreAssumption DEF ReleaseRec, AnySlot

\* Starting a commit, plain or gray, preserves the invariant.
LEMMA StartCommitPreserves ==
  ASSUME GrayInv, NEW o \in Operators, NEW s \in Slots, NEW v \in Vals, StartCommit(o, s, v)
  PROVE  GrayInv'
<1>1. values[s].version \in 0 .. MaxVersion
  BY DEF GrayInv, StoreInv, TypeOK, LiveIsNewest, ServiceTypeOK
<1>2. ASSUME Continue(o, "commitValue", [NoJob EXCEPT !.op = "commit", !.slot = s,
               !.expected = values[s].version, !.value = v])
      PROVE  OnlyMoves(o) /\ HandlerOK(o)'
  BY <1>1, <1>2, NoJobTyped DEF GrayInv, ServiceTypeOK, Continue, OnlyMoves, JobRec, Labels,
     Ops, AnySlot, HandlerOK, AtCommitValue
<1>3. ASSUME NEW sel \in SUBSET Instances,
             Continue(o, "commitValue", [NoJob EXCEPT !.op = "gray", !.slot = s,
               !.expected = values[s].version, !.value = v, !.selected = sel])
      PROVE  OnlyMoves(o) /\ HandlerOK(o)'
  BY <1>1, <1>3, NoJobTyped DEF GrayInv, ServiceTypeOK, Continue, OnlyMoves, JobRec, Labels,
     Ops, AnySlot, HandlerOK, AtCommitValue
<1>4. OnlyMoves(o) /\ HandlerOK(o)'
  BY <1>2, <1>3 DEF StartCommit
<1> QED
  BY <1>4, LocalStepPreserves DEF StartCommit

\* Starting a rollback to a retained version preserves the invariant.
LEMMA StartRollbackPreserves ==
  ASSUME GrayInv, NEW o \in Operators, NEW s \in Slots, NEW n, StartRollback(o, s, n)
  PROVE  GrayInv'
<1>1. GetVersion(s, n).value \in Vals
  BY GetVersionCommitted DEF StartRollback
<1>2. /\ OnlyMoves(o)
      /\ pc'[o] = "getItem" /\ job'[o].op = "rollback" /\ job'[o].slot = s
      /\ job'[o].value \in Vals
  BY <1>1, NoJobTyped DEF StartRollback, GrayInv, ServiceTypeOK, Continue, OnlyMoves, JobRec,
     Labels, Ops, AnySlot
<1>3. HandlerOK(o)'
  BY <1>2 DEF HandlerOK, AtGetItem
<1> QED
  BY <1>2, <1>3, LocalStepPreserves DEF StartRollback

\* Starting a promotion of a gray release preserves the invariant.
LEMMA StartPromotePreserves ==
  ASSUME GrayInv, NEW o \in Operators, NEW r \in DOMAIN releases, StartPromote(o, r)
  PROVE  GrayInv'
<1>1. /\ releases[r].slot \in AnySlot /\ releases[r].version \in 0 .. MaxVersion /\ r \in Nat
      /\ Committed(releases[r].slot, releases[r].version)
  BY ReleaseTyped DEF GrayInv, ReleasesOK
<1>2. /\ OnlyMoves(o)
      /\ pc'[o] = "updateRelease" /\ job'[o].op = "promote" /\ job'[o].rel = r
      /\ job'[o].slot = releases[r].slot /\ job'[o].version = releases[r].version
  BY <1>1, NoJobTyped DEF StartPromote, GrayInv, ServiceTypeOK, Continue, OnlyMoves, JobRec,
     Labels, Ops
<1>3. releases' = releases /\ commits' = commits
  BY DEF StartPromote, OnlyLocal
<1>4. HandlerOK(o)'
  BY <1>1, <1>2, <1>3 DEF HandlerOK, AtUpdateRelease, Committed
<1> QED
  BY <1>2, <1>4, LocalStepPreserves DEF StartPromote

\* Starting a gray rollback preserves the invariant.
LEMMA StartGrayRollbackPreserves ==
  ASSUME GrayInv, NEW o \in Operators, NEW r \in DOMAIN releases, StartGrayRollback(o, r)
  PROVE  GrayInv'
<1>1. r \in Nat
  BY DEF GrayInv, ServiceTypeOK
<1>2. /\ OnlyMoves(o)
      /\ pc'[o] = "getPrev" /\ job'[o].op = "gray_rollback" /\ job'[o].rel = r
  BY <1>1, NoJobTyped DEF StartGrayRollback, GrayInv, ServiceTypeOK, Continue, OnlyMoves,
     JobRec, Labels, Ops
<1>3. HandlerOK(o)'
  BY <1>2 DEF HandlerOK, AtGetPrev, StartGrayRollback, OnlyLocal
<1> QED
  BY <1>2, <1>3, LocalStepPreserves DEF StartGrayRollback

\* A handler that returns, finished or not, preserves the invariant.
LEMMA ReturnPreserves ==
  ASSUME GrayInv, NEW o \in Operators, Return(o), OnlyLocal
  PROVE  GrayInv'
<1>1. OnlyMoves(o) /\ pc'[o] = "idle"
  BY NoJobTyped DEF Return, GrayInv, ServiceTypeOK, Continue, OnlyMoves, Labels
<1>2. HandlerOK(o)'
  BY <1>1 DEF HandlerOK
<1> QED
  BY <1>1, <1>2, LocalStepPreserves

\* Reading the live version that a rollback will expect preserves the
\* invariant.
LEMMA GetItemPreserves ==
  ASSUME GrayInv, NEW o \in Operators, GetItem(o)
  PROVE  GrayInv'
<1>1. AtGetItem(job[o]) /\ job[o] \in JobRec
  BY DEF GetItem, GrayInv, HandlerOK, ServiceTypeOK
<1>2. values[job[o].slot].version \in 0 .. MaxVersion
  BY <1>1 DEF AtGetItem, GrayInv, StoreInv, TypeOK, LiveIsNewest, ServiceTypeOK
<1>3. /\ OnlyMoves(o)
      /\ pc'[o] = "commitValue" /\ job'[o].op = "rollback"
      /\ job'[o].slot \in Slots /\ job'[o].value \in Vals
  BY <1>1, <1>2 DEF GetItem, AtGetItem, GrayInv, ServiceTypeOK, Continue, OnlyMoves, JobRec,
     Labels
<1>4. HandlerOK(o)'
  BY <1>3 DEF HandlerOK, AtCommitValue
<1> QED
  BY <1>3, <1>4, LocalStepPreserves DEF GetItem

\* Reading the value from before the release preserves the invariant: it is
\* the value of the version before the one the commit will expect.
LEMMA GetPrevPreserves ==
  ASSUME GrayInv, NEW o \in Operators, GetPrev(o)
  PROVE  GrayInv'
<1> DEFINE r == releases[job[o].rel]
<1>1. /\ job[o] \in JobRec /\ job[o].op = "gray_rollback"
      /\ job[o].rel \in DOMAIN releases
  BY DEF GetPrev, GrayInv, HandlerOK, AtGetPrev, ServiceTypeOK
<1>2. /\ r.slot \in Slots /\ r.slot \in AnySlot
      /\ r.version \in 0 .. MaxVersion /\ r.prev = r.version - 1
  BY <1>1, ReleaseTyped DEF GrayInv, ReleasesOK
<1>3. OnlyLocal
  BY DEF GetPrev
<1>4. CASE Retained(r.slot, r.prev)
  <2> DEFINE x == GetVersion(r.slot, r.prev).value
  <2>1. x \in Vals /\ Written(r.slot, r.prev, x)
    BY <1>4, <1>2, GetVersionCommitted
  <2>2. Continue(o, "commitValue", [job[o] EXCEPT !.slot = r.slot, !.value = x,
                                                  !.expected = r.version])
    BY <1>4 DEF GetPrev
  <2> HIDE DEF r, x
  <2>3. /\ OnlyMoves(o)
        /\ pc'[o] = "commitValue" /\ job'[o].op = "gray_rollback"
        /\ job'[o].rel = job[o].rel /\ job'[o].slot = r.slot
        /\ job'[o].expected = r.version /\ job'[o].value = x
    BY <1>1, <1>2, <2>1, <2>2 DEF GrayInv, ServiceTypeOK, Continue, OnlyMoves, JobRec, Labels
  <2>4. releases' = releases /\ commits' = commits
    BY <1>3 DEF OnlyLocal
  <2>5. HandlerOK(o)'
    BY <1>1, <1>2, <2>1, <2>3, <2>4 DEF HandlerOK, AtCommitValue, Written, r
  <2> QED
    BY <1>3, <2>3, <2>5, LocalStepPreserves
<1>5. CASE ~Retained(r.slot, r.prev)
  BY <1>3, <1>5, ReturnPreserves DEF GetPrev
<1> QED
  BY <1>4, <1>5

-----------------------------------------------------------------------------
\* The parameters every handler commits with are ones the store is made for.
LEMMA ParamsTyped ==
  ASSUME GrayInv, NEW o \in Operators, pc[o] = "commitValue", NEW n \in Retentions
  PROVE  ParamsOf(job[o], n) \in CommitParams
<1>1. /\ job[o] \in JobRec /\ job[o].slot \in Slots /\ job[o].value \in Vals
      /\ job[o].expected \in 0 .. MaxVersion
  BY DEF GrayInv, HandlerOK, AtCommitValue, ServiceTypeOK, JobRec
<1>2. owner[job[o].slot[1]] \in Tenants
  BY <1>1 DEF Slots, GrayInv, ServiceTypeOK
<1>3. ChangeType(job[o]) \in Kinds
  BY GrayAssumption DEF ChangeType
<1> QED
  BY <1>1, <1>2, <1>3 DEF ParamsOf, CommitParams

\* What the accepted commit of a handler writes: one new record of the slot,
\* numbered after everything the slot has, on top of the version the handler
\* expected.
LEMMA CommitStepEffect ==
  ASSUME GrayInv, NEW o \in Operators, pc[o] = "commitValue", NEW n \in Retentions,
         CommitValue(ParamsOf(job[o], n)), UNCHANGED releases,
         commits' = commits \cup
           {[slot |-> job[o].slot, version |-> versionSeq[job[o].slot] + 1,
             value |-> job[o].value, kind |-> ChangeType(job[o]), rel |-> job[o].rel]}
  PROVE  LET s == job[o].slot
             v == versionSeq[s] + 1
             c == [slot |-> s, version |-> v, value |-> job[o].value,
                   kind |-> ChangeType(job[o]), rel |-> job[o].rel]
         IN  /\ c \in CommitRec /\ v \in 1 .. MaxVersion /\ v = job[o].expected + 1
             /\ StoreInv' /\ owner' = owner /\ CommitsOK'
             /\ \A q \in Slots : versionSeq'[q] = IF q = s THEN v ELSE versionSeq[q]
<1> DEFINE s == job[o].slot
           v == versionSeq[s] + 1
           p == ParamsOf(job[o], n)
           c == [slot |-> s, version |-> v, value |-> job[o].value,
                 kind |-> ChangeType(job[o]), rel |-> job[o].rel]
<1>1. /\ p \in CommitParams /\ CommitValue(p) /\ p.slot = s /\ p.value = job[o].value
      /\ p.expected = job[o].expected /\ p.kind = ChangeType(job[o])
  BY ParamsTyped DEF ParamsOf
<1> HIDE DEF p
<1>2. s \in Slots /\ job[o].value \in Vals /\ job[o].rel \in Nat /\ ChangeType(job[o]) \in Kinds
  BY GrayAssumption DEF GrayInv, HandlerOK, AtCommitValue, ServiceTypeOK, JobRec, ChangeType
<1>3. versionSeq[s] \in Nat /\ v \in Nat /\ v <= MaxVersion /\ v = job[o].expected + 1
  <2>1. versionSeq[s] \in Nat /\ values[s].version = versionSeq[s]
    BY <1>2 DEF GrayInv, StoreInv, TypeOK, LiveIsNewest
  <2>2. CommitOutcome(p) = "ok" /\ NextVersion(p.slot) <= MaxVersion
    BY <1>1 DEF CommitValue
  <2> QED
    BY <1>1, <2>1, <2>2 DEF CommitOutcome, NextVersion
<1>4. v \in 1 .. MaxVersion
  BY <1>3, StoreAssumption
<1>5. c \in CommitRec
  BY <1>2, <1>4 DEF CommitRec
<1>6. StoreInv'
  BY <1>1, StoreAssumption, CommitPreservesInv DEF GrayInv
<1>7. owner' = owner /\ versionSeq' = [versionSeq EXCEPT ![s] = v]
  <2>1. StoreInv
    BY DEF GrayInv
  <2>2. /\ owner' = owner
        /\ versionSeq' = [versionSeq EXCEPT ![p.slot] = versionSeq[p.slot] + 1]
    BY <1>1, <2>1, StoreAssumption, CommitEffect
  <2> QED
    BY <1>1, <2>2
<1>8. \A q \in Slots : versionSeq'[q] = IF q = s THEN v ELSE versionSeq[q]
  BY <1>2, <1>7 DEF GrayInv, StoreInv, TypeOK
<1>9. PICK g \in Seq(VersionRec) :
        /\ versions' = [versions EXCEPT ![s] = g]
        /\ Len(g) \in 1 .. Len(versions[s]) + 1
        /\ g[Len(g)] = [version |-> v, value |-> p.value, kind |-> p.kind]
        /\ \A k \in 1 .. Len(g) - 1 : g[k] = versions[s][Len(versions[s]) + 1 - Len(g) + k]
  <2>1. StoreInv
    BY DEF GrayInv
  <2>2. PICK g \in Seq(VersionRec) :
          /\ versions' = [versions EXCEPT ![p.slot] = g]
          /\ Len(g) \in 1 .. Len(versions[p.slot]) + 1
          /\ g[Len(g)] = [version |-> versionSeq[p.slot] + 1, value |-> p.value, kind |-> p.kind]
          /\ \A k \in 1 .. Len(g) - 1 :
               g[k] = versions[p.slot][Len(versions[p.slot]) + 1 - Len(g) + k]
    BY <1>1, <2>1, StoreAssumption, CommitEffect
  <2> QED
    BY <1>1, <2>2
<1>10. \A q \in Slots : versions'[q] = IF q = s THEN g ELSE versions[q]
  BY <1>2, <1>9 DEF GrayInv, StoreInv, TypeOK
<1>11. versions[s] \in Seq(VersionRec) /\ Len(versions[s]) \in Nat
  BY <1>2 DEF GrayInv, StoreInv, TypeOK
<1>12. commits' = commits \cup {c} /\ c.slot = s /\ c.version = v /\ c.value = job[o].value
  OBVIOUS
<1>13. \A d \in commits : d.slot \in Slots /\ d.version \in Nat /\ d.version <= versionSeq[d.slot]
  BY DEF GrayInv, ServiceTypeOK, CommitRec, CommitsOK
<1> HIDE DEF s, v, c
<1>14. \A d \in commits' : d.version <= versionSeq'[d.slot]
  BY <1>2, <1>3, <1>8, <1>12, <1>13 DEF v
<1>15. \A d, e \in commits' : d.slot = e.slot /\ d.version = e.version => d = e
  <2>1. \A d \in commits : d.slot = s => d.version # v
    BY <1>3, <1>13 DEF v
  <2> QED
    BY <1>12, <2>1 DEF GrayInv, CommitsOK
<1>16. ASSUME NEW q \in Slots, NEW k \in DOMAIN versions'[q]
       PROVE  Written(q, versions[q][k].version, versions[q][k].value)'
  <2>1. CASE q # s
    <3>1. Written(q, versions[q][k].version, versions[q][k].value)
      BY <1>10, <2>1 DEF GrayInv, CommitsOK
    <3> QED
      BY <1>10, <1>12, <2>1, <3>1 DEF Written
  <2>2. CASE q = s /\ k = Len(g)
    BY <1>1, <1>9, <1>10, <1>12, <2>2 DEF Written
  <2>3. CASE q = s /\ k # Len(g)
    <3> DEFINE j == Len(versions[s]) + 1 - Len(g) + k
    <3>1. k \in 1 .. Len(g) - 1 /\ j \in DOMAIN versions[s]
      BY <1>9, <1>10, <1>11, <2>3
    <3>2. versions'[q][k] = versions[s][j]
      BY <1>9, <1>10, <2>3, <3>1
    <3> HIDE DEF j
    <3>3. Written(s, versions[s][j].version, versions[s][j].value)
      BY <1>2, <3>1 DEF GrayInv, CommitsOK
    <3> QED
      BY <1>12, <2>3, <3>2, <3>3 DEF Written
  <2> QED
    BY <2>1, <2>2, <2>3
<1>17. CommitsOK'
  BY <1>14, <1>15, <1>16 DEF CommitsOK
<1> QED
  BY <1>3, <1>4, <1>5, <1>6, <1>7, <1>8, <1>17 DEF s, v, c

\* Committing preserves the invariant: a rejected commit ends the handler, an
\* accepted one is what the rest of the handler relies on, and the commit of a
\* gray rollback withdraws its release.
LEMMA CommitStepPreserves ==
  ASSUME GrayInv, NEW o \in Operators, CommitStep(o)
  PROVE  GrayInv'
<1> DEFINE s == job[o].slot
           v == versionSeq[s] + 1
           c == [slot |-> s, version |-> v, value |-> job[o].value,
                 kind |-> ChangeType(job[o]), rel |-> job[o].rel]
<1>1. pc[o] = "commitValue" /\ releases' = releases /\ UNCHANGED readVars
  BY DEF CommitStep
<1>2. AtCommitValue(job[o]) /\ job[o] \in JobRec
  BY <1>1 DEF GrayInv, HandlerOK, ServiceTypeOK
<1>3. CASE Return(o) /\ UNCHANGED <<storeVars, commits>>
  BY <1>1, <1>3, ReturnPreserves DEF OnlyLocal
<1>4. ASSUME NEW n \in Retentions, CommitValue(ParamsOf(job[o], n)), commits' = commits \cup {c},
             Continue(o, AfterCommit(job[o]), [job[o] EXCEPT !.version = v, !.value = None,
                        !.expected = IF job[o].op = "gray" THEN @ ELSE 0])
      PROVE  GrayInv'
  <2>1. /\ c \in CommitRec /\ v \in 1 .. MaxVersion /\ v = job[o].expected + 1
        /\ StoreInv' /\ owner' = owner /\ CommitsOK'
        /\ \A q \in Slots : versionSeq'[q] = IF q = s THEN v ELSE versionSeq[q]
    BY <1>1, <1>4, CommitStepEffect
  <2>2. c.slot = s /\ c.version = v /\ c.value = job[o].value /\ c.kind = ChangeType(job[o])
        /\ c.rel = job[o].rel
    OBVIOUS
  <2>3. v \in 0 .. MaxVersion /\ job[o].expected \in 0 .. MaxVersion /\ 0 \in 0 .. MaxVersion
    BY <1>2, <2>1, StoreAssumption DEF JobRec
  <2> HIDE DEF c, v
  <2>4. /\ OnlyMoves(o)
        /\ pc'[o] = AfterCommit(job[o]) /\ job'[o].op = job[o].op /\ job'[o].slot = s
        /\ job'[o].rel = job[o].rel /\ job'[o].version = v
        /\ job'[o].op = "gray" => job'[o].expected = job[o].expected
    <3>1. AfterCommit(job[o]) \in Labels
      BY DEF AfterCommit, Labels
    <3> QED
      BY <1>2, <1>4, <2>3, <3>1 DEF GrayInv, ServiceTypeOK, Continue, OnlyMoves, JobRec
  <2>5. RecordsKept
    BY <1>1, <1>4 DEF RecordsKept
  <2>6. c \in commits'
    BY <1>4
  <2>7. c.kind = "gray_rollback" <=> job[o].op = "gray_rollback"
    BY <2>2 DEF ChangeType
  <2>8. ServiceTypeOK'
    <3>1. \A q \in Slots : versionSeq'[q] <= MaxVersion
      BY <2>1, StoreAssumption DEF GrayInv, ServiceTypeOK
    <3>2. commits' \in SUBSET CommitRec
      BY <1>4, <2>1 DEF GrayInv, ServiceTypeOK
    <3> QED
      BY <1>1, <2>1, <2>4, <3>1, <3>2 DEF GrayInv, ServiceTypeOK, OnlyMoves, readVars
  <2>9. ReleasesOK' /\ RolledBackIsWithdrawn'
    BY <1>1, <2>5 DEF GrayInv, ReleasesOK, RolledBackIsWithdrawn, Committed, RecordsKept
  <2>10. WithdrawalsOK' /\ GrayRollbackRestores'
    <3> SUFFICES ASSUME NEW d \in commits', d.kind = "gray_rollback"
                 PROVE  /\ d.rel \in DOMAIN releases
                        /\ d.slot = releases[d.rel].slot
                        /\ d.version = releases[d.rel].version + 1
                        /\ \E b \in commits' : /\ b.slot = releases[d.rel].slot
                                               /\ b.version = releases[d.rel].version - 1
                                               /\ b.value = d.value
      BY <1>1 DEF WithdrawalsOK, GrayRollbackRestores
    <3>1. CASE d \in commits
      BY <1>4, <3>1 DEF GrayInv, WithdrawalsOK, GrayRollbackRestores
    <3>2. CASE d = c
      BY <1>2, <1>4, <2>1, <2>2, <2>7, <3>2 DEF AtCommitValue, Written
    <3> QED
      BY <1>4, <3>1, <3>2
  <2>11. HandlerOK(o)'
    <3>1. Committed(job[o].slot, job[o].version)'
      BY <2>2, <2>4, <2>6 DEF Committed
    <3>2. CASE job[o].op = "gray"
      BY <1>2, <2>1, <2>4, <3>1, <3>2 DEF HandlerOK, AtCreateRelease, AtCommitValue, AfterCommit
    <3>3. CASE job[o].op = "gray_rollback"
      <4>1. Withdrawn(job[o].rel)'
        BY <2>2, <2>4, <2>6, <2>7, <3>3 DEF Withdrawn
      <4> QED
        BY <1>1, <1>2, <2>4, <3>1, <3>3, <4>1
        DEF HandlerOK, AtUpdateRelease, AtCommitValue, AfterCommit
    <3>4. CASE job[o].op \in {"commit", "rollback"}
      BY <2>4, <3>1, <3>4 DEF HandlerOK, AtPublish, AfterCommit
    <3> QED
      BY <1>2, <3>2, <3>3, <3>4 DEF AtCommitValue, JobRec, Ops
  <2>12. \A q \in Operators : HandlerOK(q)'
    BY <2>4, <2>5, <2>11, HandlerKept DEF GrayInv, OnlyMoves
  <2>13. \A n1 \in Instances : ReaderOK(n1)'
    BY <1>1, <2>5, ReaderKept DEF GrayInv, readVars
  <2> QED
    BY <2>1, <2>8, <2>9, <2>10, <2>12, <2>13 DEF GrayInv
<1> QED
  BY <1>3, <1>4 DEF CommitStep, ParamsOf, NextVersion

-----------------------------------------------------------------------------
\* A step that changes releases only in ways no one relies on, and moves one
\* handler, preserves the invariant.
LEMMA ReleaseStepPreserves ==
  ASSUME GrayInv, NEW o \in Operators, UNCHANGED <<storeVars, readVars, commits>>,
         OnlyMoves(o), RecordsKept, HandlerOK(o)', releases' \in Seq(ReleaseRec),
         ReleasesOK', RolledBackIsWithdrawn'
  PROVE  GrayInv'
<1>1. StoreInv'
  BY StoreAssumption, StoreStepPreservesInv DEF GrayInv
<1>2. ServiceTypeOK'
  BY DEF GrayInv, ServiceTypeOK, OnlyMoves, storeVars, readVars
<1>3. CommitsOK'
  BY DEF GrayInv, CommitsOK, Written, storeVars
<1>4. WithdrawalsOK' /\ GrayRollbackRestores'
  BY DEF GrayInv, WithdrawalsOK, GrayRollbackRestores, RecordsKept
<1>5. \A q \in Operators : HandlerOK(q)'
  BY HandlerKept DEF GrayInv, OnlyMoves
<1>6. \A n \in Instances : ReaderOK(n)'
  BY ReaderKept DEF GrayInv, readVars
<1> QED
  BY <1>1, <1>2, <1>3, <1>4, <1>5, <1>6 DEF GrayInv

\* Creating a release preserves the invariant: its previous version is the
\* one the handler expected, directly below the one it committed.
LEMMA CreateReleasePreserves ==
  ASSUME GrayInv, NEW o \in Operators, CreateRelease(o)
  PROVE  GrayInv'
<1> DEFINE row == [slot |-> job[o].slot, version |-> job[o].version, prev |-> job[o].expected,
                   selected |-> job[o].selected, status |-> "gray"]
           id == Len(releases) + 1
<1>1. /\ pc[o] = "createRelease" /\ releases' = Append(releases, row)
      /\ Continue(o, "publish", [job[o] EXCEPT !.rel = id, !.expected = 0, !.selected = {}])
      /\ UNCHANGED <<storeVars, readVars, commits>>
  BY DEF CreateRelease, AddRelease
<1>2. AtCreateRelease(job[o]) /\ job[o] \in JobRec
  BY <1>1 DEF GrayInv, HandlerOK, ServiceTypeOK
<1>3. row \in ReleaseRec /\ row.prev = row.version - 1 /\ row.slot = job[o].slot
      /\ row.version = job[o].version /\ row.status = "gray"
  BY <1>2, StoreAssumption DEF AtCreateRelease, JobRec, ReleaseRec
<1> HIDE DEF row
<1>4. releases \in Seq(ReleaseRec) /\ Len(releases) \in Nat /\ id \in Nat
  BY DEF GrayInv, ServiceTypeOK
<1>5. /\ releases' \in Seq(ReleaseRec)
      /\ DOMAIN releases' = 1 .. id
      /\ releases'[id] = row
      /\ \A r \in DOMAIN releases : r \in 1 .. Len(releases) /\ releases'[r] = releases[r]
  BY <1>1, <1>3, <1>4
<1>6. \A r \in DOMAIN releases' : r \in DOMAIN releases \/ r = id
  BY <1>4, <1>5
<1> HIDE DEF id
<1>7. /\ OnlyMoves(o)
      /\ pc'[o] = "publish" /\ job'[o].op = "gray" /\ job'[o].slot = job[o].slot
      /\ job'[o].version = job[o].version /\ job'[o].rel = id
  <2>1. 0 \in 0 .. MaxVersion
    BY StoreAssumption
  <2> QED
    BY <1>1, <1>2, <1>4, <2>1 DEF AtCreateRelease, GrayInv, ServiceTypeOK, Continue, OnlyMoves,
       JobRec, Labels
<1>8. RecordsKept
  BY <1>1, <1>4, <1>5 DEF RecordsKept, id
<1>9. id \in DOMAIN releases'
  BY <1>4, <1>5 DEF id
<1>10. HandlerOK(o)'
  BY <1>1, <1>2, <1>3, <1>5, <1>7, <1>9 DEF HandlerOK, AtPublish, AtCreateRelease, Committed
<1>11. ReleasesOK'
  BY <1>1, <1>2, <1>3, <1>5, <1>6 DEF GrayInv, ReleasesOK, AtCreateRelease, Committed
<1>12. RolledBackIsWithdrawn'
  BY <1>1, <1>3, <1>5, <1>6 DEF GrayInv, RolledBackIsWithdrawn
<1> QED
  BY <1>1, <1>5, <1>7, <1>8, <1>10, <1>11, <1>12, ReleaseStepPreserves

\* Storing a release's new status preserves the invariant: it ends the gray
\* status, and the status rolled_back is stored after the withdrawal.
LEMMA UpdateReleasePreserves ==
  ASSUME GrayInv, NEW o \in Operators, UpdateRelease(o)
  PROVE  GrayInv'
<1> DEFINE id == job[o].rel
           new == IF job[o].op = "promote" THEN "promoted" ELSE "rolled_back"
<1>1. /\ pc[o] = "updateRelease" /\ releases' = [releases EXCEPT ![id].status = new]
      /\ Continue(o, "publish", job[o]) /\ UNCHANGED <<storeVars, readVars, commits>>
  BY DEF UpdateRelease, SetStatus
<1>2. AtUpdateRelease(job[o]) /\ job[o] \in JobRec /\ id \in DOMAIN releases
  BY <1>1 DEF GrayInv, HandlerOK, ServiceTypeOK, AtUpdateRelease
<1>3. /\ new \in {"promoted", "rolled_back"}
      /\ new = "rolled_back" => Withdrawn(id)
  BY <1>2 DEF AtUpdateRelease
<1> HIDE DEF new
<1>4. /\ DOMAIN releases' = DOMAIN releases
      /\ \A r \in DOMAIN releases :
           /\ releases'[r] \in ReleaseRec
           /\ releases'[r].slot = releases[r].slot
           /\ releases'[r].version = releases[r].version
           /\ releases'[r].prev = releases[r].prev
           /\ releases'[r].selected = releases[r].selected
           /\ releases'[r].status = IF r = id THEN new ELSE releases[r].status
  <2>1. \A r \in DOMAIN releases : releases[r] \in ReleaseRec
    BY ReleaseTyped
  <2> HIDE DEF id
  <2>2. releases' = [releases EXCEPT ![id] = [releases[id] EXCEPT !.status = new]]
    BY <1>1
  <2>3. /\ [releases[id] EXCEPT !.status = new] \in ReleaseRec
        /\ [releases[id] EXCEPT !.status = new].slot = releases[id].slot
        /\ [releases[id] EXCEPT !.status = new].version = releases[id].version
        /\ [releases[id] EXCEPT !.status = new].prev = releases[id].prev
        /\ [releases[id] EXCEPT !.status = new].selected = releases[id].selected
        /\ [releases[id] EXCEPT !.status = new].status = new
    BY <1>2, <1>3, <2>1 DEF ReleaseRec
  <2>4. \A r \in DOMAIN releases :
          releases'[r] = IF r = id THEN [releases[id] EXCEPT !.status = new] ELSE releases[r]
    BY <2>2
  <2> QED
    BY <2>1, <2>2, <2>3, <2>4
<1>5. releases' \in Seq(ReleaseRec)
  <2>1. releases \in Seq(ReleaseRec)
    BY DEF GrayInv, ServiceTypeOK
  <2>2. releases' = [r \in DOMAIN releases |-> releases'[r]]
    BY <1>1
  <2>3. DOMAIN releases = 1 .. Len(releases) /\ Len(releases) \in Nat
    BY <2>1
  <2>4. releases' \in [1 .. Len(releases) -> ReleaseRec]
    BY <1>4, <2>2, <2>3
  <2> QED
    BY <2>3, <2>4
<1>6. OnlyMoves(o) /\ pc'[o] = "publish" /\ job'[o] = job[o]
  BY <1>1, <1>2 DEF GrayInv, ServiceTypeOK, Continue, OnlyMoves, Labels
<1>7. RecordsKept
  BY <1>1, <1>3, <1>4 DEF RecordsKept
<1>8. HandlerOK(o)'
  BY <1>1, <1>2, <1>3, <1>4, <1>6 DEF HandlerOK, AtPublish, AtUpdateRelease, Committed
<1>9. ReleasesOK'
  BY <1>1, <1>4 DEF GrayInv, ReleasesOK, Committed
<1>10. RolledBackIsWithdrawn'
  BY <1>1, <1>3, <1>4 DEF GrayInv, RolledBackIsWithdrawn, Withdrawn
<1> QED
  BY <1>1, <1>5, <1>6, <1>7, <1>8, <1>9, <1>10, ReleaseStepPreserves

-----------------------------------------------------------------------------
\* A set of numbers has a least element.
LEMMA LeastNat ==
  ASSUME NEW S \in SUBSET Nat, S # {}
  PROVE  \E m \in S : \A x \in S : m <= x
<1>1. PICK m \in S : \A x \in S : <<x, m>> \notin OpToRel(<, Nat)
  BY NatLessThanWellFounded, WFMin
<1>2. \A x \in S : x \in Nat /\ m \in Nat
  OBVIOUS
<1>3. \A x \in S : ~(x < m)
  BY <1>1, <1>2 DEF OpToRel
<1>4. \A x \in S : m <= x
  BY <1>2, <1>3
<1> QED
  BY <1>4

\* A bounded set of numbers has a greatest element.
LEMMA GreatestNat ==
  ASSUME NEW n \in Nat, NEW S \in SUBSET (1 .. n), S # {}
  PROVE  \E m \in S : \A x \in S : x <= m
<1> DEFINE D == {k \in 0 .. n : n - k \in S}
<1>1. D \in SUBSET Nat
  BY SMT
<1>2. D # {}
  <2>1. PICK y \in S : TRUE
    OBVIOUS
  <2>2. n - y \in 0 .. n /\ n - (n - y) = y
    BY SMT
  <2> QED
    BY <2>2
<1>3. PICK d \in D : \A e \in D : d <= e
  <2> HIDE DEF D
  <2> QED
    BY <1>1, <1>2, LeastNat
<1>4. n - d \in S
  BY <1>3
<1>5. ASSUME NEW x \in S  PROVE x <= n - d
  <2>1. n - x \in 0 .. n /\ n - (n - x) = x /\ x \in Nat
    BY SMT
  <2>2. n - x \in D
    BY <2>1
  <2> QED
    BY <1>3, <2>1, <2>2
<1> QED
  BY <1>4, <1>5

\* The release Effective notes for an item is a gray release of that item.
LEMMA ActiveReleaseIsOne ==
  ASSUME GrayInv, NEW i
  PROVE  /\ ActiveRelease(i) \in Nat
         /\ ActiveRelease(i) # 0 => /\ ActiveRelease(i) \in DOMAIN releases
                                    /\ releases[ActiveRelease(i)].slot[1] = i
<1> DEFINE active == ActiveReleases(i)
<1>1. DOMAIN releases = 1 .. Len(releases) /\ Len(releases) \in Nat
  BY DEF GrayInv, ServiceTypeOK
<1>2. CASE active = {}
  BY <1>2 DEF ActiveRelease
<1>3. CASE active # {}
  <2>1. active \in SUBSET (1 .. Len(releases))
    BY <1>1 DEF ActiveReleases
  <2> HIDE DEF active
  <2>2. \E m \in active : \A x \in active : x <= m
    BY <1>1, <1>3, <2>1, GreatestNat
  <2>3. (CHOOSE r \in active : \A q \in active : q <= r) \in active
    BY <2>2
  <2>4. ActiveRelease(i) \in active
    BY <1>3, <2>3 DEF ActiveRelease, active
  <2> QED
    BY <1>1, <2>1, <2>4 DEF active, ActiveReleases
<1> QED
  BY <1>2, <1>3

-----------------------------------------------------------------------------
\* A step of Effective preserves the invariant if what it then holds and has
\* served can be relied on.
LEMMA ReaderStepPreserves ==
  ASSUME GrayInv, NEW n \in Instances, UNCHANGED <<storeVars, svcVars, commits>>,
         rpc' \in [Instances -> {"idle", "items", "prev"}],
         read' \in [Instances -> ReadRec], served' \in [Instances -> ServedRec],
         \A m \in Instances \ {n} : rpc'[m] = rpc[m] /\ read'[m] = read[m] /\ served'[m] = served[m],
         ReaderOK(n)'
  PROVE  GrayInv'
<1>1. UNCHANGED <<releases, pc, job>>
  BY DEF svcVars
<1>2. /\ StoreInv' /\ RecordsKept
      /\ CommitsOK' /\ ReleasesOK' /\ WithdrawalsOK'
      /\ GrayRollbackRestores' /\ RolledBackIsWithdrawn'
  BY <1>1, TablesKept
<1>3. ServiceTypeOK'
  BY <1>1 DEF GrayInv, ServiceTypeOK, storeVars
<1>4. \A o \in Operators : HandlerOK(o)'
  BY <1>1, <1>2, HandlerKept DEF GrayInv
<1>5. \A m \in Instances : ReaderOK(m)'
  BY <1>2, ReaderKept DEF GrayInv
<1> QED
  BY <1>2, <1>3, <1>4, <1>5 DEF GrayInv

\* Beginning to read preserves the invariant.
LEMMA StartReadPreserves ==
  ASSUME GrayInv, NEW n \in Instances, NEW s \in Slots, StartRead(n, s)
  PROVE  GrayInv'
<1> DEFINE a == ActiveRelease(s[1])
<1>1. a \in Nat /\ (a # 0 => a \in DOMAIN releases /\ releases[a].slot[1] = s[1])
  BY ActiveReleaseIsOne
<1>2. /\ rpc' = [rpc EXCEPT ![n] = "items"]
      /\ read' = [read EXCEPT ![n] = [slot |-> s, rel |-> a]]
      /\ served' = served /\ UNCHANGED <<storeVars, svcVars, commits>>
  BY DEF StartRead
<1> HIDE DEF a
<1>3. /\ rpc' \in [Instances -> {"idle", "items", "prev"}] /\ rpc'[n] = "items"
      /\ read' \in [Instances -> ReadRec] /\ read'[n] = [slot |-> s, rel |-> a]
      /\ served' \in [Instances -> ServedRec]
      /\ \A m \in Instances \ {n} : rpc'[m] = rpc[m] /\ read'[m] = read[m] /\ served'[m] = served[m]
  BY <1>1, <1>2 DEF GrayInv, ServiceTypeOK, ReadRec, AnySlot
<1>4. ReaderOK(n)'
  BY <1>1, <1>2, <1>3 DEF GrayInv, ReaderOK, Written, svcVars
<1> QED
  BY <1>2, <1>3, <1>4, ReaderStepPreserves

\* Answering with an entry some commit wrote, or with none, preserves the
\* invariant; so does failing.
LEMMA AnswerPreserves ==
  ASSUME GrayInv, NEW n \in Instances, NEW e, rpc[n] # "idle", Answer(n, e),
         e.version \in Nat, e.value \in Vals \cup {None},
         e.version # 0 => Written(read[n].slot, e.version, e.value),
         UNCHANGED <<storeVars, svcVars, commits>>
  PROVE  GrayInv'
<1>1. read[n] \in ReadRec /\ read[n].slot \in AnySlot
  BY DEF GrayInv, ServiceTypeOK, ReadRec
<1>2. /\ rpc' \in [Instances -> {"idle", "items", "prev"}] /\ rpc'[n] = "idle"
      /\ read' \in [Instances -> ReadRec] /\ read'[n].rel = 0
      /\ \A m \in Instances \ {n} : rpc'[m] = rpc[m] /\ read'[m] = read[m]
  BY <1>1 DEF Answer, GrayInv, ServiceTypeOK, ReadRec
<1>3. /\ served' \in [Instances -> ServedRec]
      /\ served'[n] = [slot |-> read[n].slot, version |-> e.version, value |-> e.value]
      /\ \A m \in Instances \ {n} : served'[m] = served[m]
  BY <1>1 DEF Answer, GrayInv, ServiceTypeOK, ServedRec
<1>4. ReaderOK(n)'
  BY <1>2, <1>3 DEF ReaderOK, Written
<1> QED
  BY <1>2, <1>3, <1>4, ReaderStepPreserves

\* Failing to read preserves the invariant.
LEMMA FailReadPreserves ==
  ASSUME GrayInv, NEW n \in Instances, FailRead(n), UNCHANGED <<storeVars, svcVars, commits>>
  PROVE  GrayInv'
<1>1. read[n] \in ReadRec
  BY DEF GrayInv, ServiceTypeOK
<1>2. /\ rpc' \in [Instances -> {"idle", "items", "prev"}] /\ rpc'[n] = "idle"
      /\ read' \in [Instances -> ReadRec] /\ read'[n].rel = 0
      /\ \A m \in Instances \ {n} : rpc'[m] = rpc[m] /\ read'[m] = read[m]
      /\ served' \in [Instances -> ServedRec] /\ served' = served
  BY <1>1 DEF FailRead, GrayInv, ServiceTypeOK, ReadRec
<1>3. ReaderOK(n)'
  BY <1>2 DEF GrayInv, ReaderOK, Written
<1> QED
  BY <1>2, <1>3, ReaderStepPreserves

\* The live entry of a slot is one a commit wrote.
LEMMA LiveCommitted ==
  ASSUME GrayInv, NEW s \in Slots
  PROVE  /\ values[s].version \in Nat /\ values[s].value \in Vals \cup {None}
         /\ values[s].version = versionSeq[s]
         /\ values[s].version # 0 => Written(s, values[s].version, values[s].value)
<1>1. /\ values[s] \in EnvValue /\ versions[s] \in Seq(VersionRec) /\ versionSeq[s] \in Nat
      /\ values[s].version = versionSeq[s]
      /\ versionSeq[s] > 0 => /\ Len(versions[s]) > 0
                              /\ versions[s][Len(versions[s])].value = values[s].value
      /\ \A k \in DOMAIN versions[s] :
           versions[s][k].version = versionSeq[s] - Len(versions[s]) + k
      /\ \A k \in DOMAIN versions[s] : Written(s, versions[s][k].version, versions[s][k].value)
  BY DEF GrayInv, StoreInv, TypeOK, LiveIsNewest, HistoryContiguous, CommitsOK
<1>2. ASSUME values[s].version # 0
      PROVE  Written(s, values[s].version, values[s].value)
  <2> DEFINE k == Len(versions[s])
  <2>1. k \in DOMAIN versions[s] /\ k \in Nat
    BY <1>1, <1>2
  <2>2. versions[s][k].version = values[s].version /\ versions[s][k].value = values[s].value
    BY <1>1, <1>2, <2>1
  <2> QED
    BY <1>1, <2>1, <2>2
<1> QED
  BY <1>1, <1>2 DEF EnvValue

\* Reading the items preserves the invariant.
LEMMA ReadItemsPreserves ==
  ASSUME GrayInv, NEW n \in Instances, ReadItems(n)
  PROVE  GrayInv'
<1> DEFINE s == read[n].slot
           r == read[n].rel
<1>1. /\ rpc[n] = "items" /\ UNCHANGED <<storeVars, svcVars, commits>>
      /\ s \in Slots /\ ReaderOK(n)
  BY DEF ReadItems, GrayInv, ReaderOK
<1>2. CASE Answer(n, values[s])
  BY <1>1, <1>2, LiveCommitted, AnswerPreserves
<1>3. CASE Answer(n, NoEntry)
  <2>1. NoEntry.version = 0 /\ NoEntry.value = None
    BY DEF NoEntry
  <2> QED
    BY <1>1, <1>3, <2>1, AnswerPreserves
<1>4. ASSUME ~Entitled(n, r), rpc' = [rpc EXCEPT ![n] = "prev"], UNCHANGED <<read, served>>
      PROVE  GrayInv'
  <2>1. /\ rpc' \in [Instances -> {"idle", "items", "prev"}] /\ rpc'[n] = "prev"
        /\ read' \in [Instances -> ReadRec] /\ served' \in [Instances -> ServedRec]
        /\ \A m \in Instances \ {n} : rpc'[m] = rpc[m] /\ read'[m] = read[m] /\ served'[m] = served[m]
    BY <1>4 DEF GrayInv, ServiceTypeOK
  <2>2. ReaderOK(n)'
    BY <1>1, <1>4, <2>1 DEF ReaderOK, Written, Entitled, svcVars
  <2> QED
    BY <1>1, <2>1, <2>2, ReaderStepPreserves
<1> QED
  BY <1>2, <1>3, <1>4 DEF ReadItems

\* Reading the previous version preserves the invariant.
LEMMA ReadPrevPreserves ==
  ASSUME GrayInv, NEW n \in Instances, ReadPrev(n)
  PROVE  GrayInv'
<1> DEFINE s == read[n].slot
           v == releases[read[n].rel].prev
<1>1. /\ rpc[n] = "prev" /\ UNCHANGED <<storeVars, svcVars, commits>> /\ s \in Slots
  BY DEF ReadPrev, GrayInv, ReaderOK
<1>2. CASE Retained(s, v) /\ Answer(n, GetVersion(s, v))
  <2>1. /\ GetVersion(s, v).version = v /\ GetVersion(s, v).version \in Nat
        /\ GetVersion(s, v).value \in Vals /\ Written(s, v, GetVersion(s, v).value)
    BY <1>1, <1>2, GetVersionCommitted
  <2> QED
    BY <1>1, <1>2, <2>1, AnswerPreserves
<1>3. CASE FailRead(n)
  BY <1>1, <1>3, FailReadPreserves
<1> QED
  BY <1>2, <1>3 DEF ReadPrev

-----------------------------------------------------------------------------
\* The invariant holds initially.
LEMMA InitHasInv == Init => GrayInv
<1> SUFFICES ASSUME Init  PROVE GrayInv
  OBVIOUS
<1>1. NoEntry \in EnvValue /\ NoEntry.version = 0
  BY DEF NoEntry, EnvValue
<1>2. StoreInv
  BY <1>1 DEF Init, StoreInv, TypeOK, HistoryContiguous, LiveIsNewest
<1>3. ServiceTypeOK
  <2>1. <<>> \in Seq(ReleaseRec) /\ {} \in SUBSET CommitRec
    OBVIOUS
  <2>2. /\ [slot |-> NoJob.slot, rel |-> 0] \in ReadRec
        /\ [slot |-> NoJob.slot, version |-> 0, value |-> None] \in ServedRec
    BY DEF ReadRec, ServedRec, AnySlot
  <2>3. \A s \in Slots : versionSeq[s] <= MaxVersion
    BY StoreAssumption DEF Init
  <2> QED
    BY <2>1, <2>2, <2>3, NoJobTyped DEF Init, ServiceTypeOK, Labels
<1>4. CommitsOK /\ ReleasesOK /\ WithdrawalsOK /\ GrayRollbackRestores /\ RolledBackIsWithdrawn
  BY DEF Init, CommitsOK, ReleasesOK, WithdrawalsOK, GrayRollbackRestores, RolledBackIsWithdrawn
<1>5. ASSUME NEW o \in Operators  PROVE HandlerOK(o)
  BY DEF Init, HandlerOK
<1>6. ASSUME NEW n \in Instances  PROVE ReaderOK(n)
  BY DEF Init, ReaderOK
<1> QED
  BY <1>2, <1>3, <1>4, <1>5, <1>6 DEF GrayInv

\* Every step of an operator preserves the invariant.
LEMMA OperatorStepPreserves ==
  ASSUME GrayInv, NEW o \in Operators, OperatorStep(o)
  PROVE  GrayInv'
<1>1. ASSUME NEW s \in Slots, NEW v \in Vals, StartCommit(o, s, v)  PROVE GrayInv'
  BY <1>1, StartCommitPreserves
<1>2. ASSUME NEW s \in Slots, NEW n \in 1 .. MaxVersion, StartRollback(o, s, n)  PROVE GrayInv'
  BY <1>2, StartRollbackPreserves
<1>3. ASSUME NEW r \in DOMAIN releases, StartPromote(o, r)  PROVE GrayInv'
  BY <1>3, StartPromotePreserves
<1>4. ASSUME NEW r \in DOMAIN releases, StartGrayRollback(o, r)  PROVE GrayInv'
  BY <1>4, StartGrayRollbackPreserves
<1>5. CASE GetItem(o)
  BY <1>5, GetItemPreserves
<1>6. CASE GetPrev(o)
  BY <1>6, GetPrevPreserves
<1>7. CASE CommitStep(o)
  BY <1>7, CommitStepPreserves
<1>8. CASE CreateRelease(o)
  BY <1>8, CreateReleasePreserves
<1>9. CASE UpdateRelease(o)
  BY <1>9, UpdateReleasePreserves
<1>10. CASE Publish(o) \/ Stop(o)
  BY <1>10, ReturnPreserves DEF Publish, Stop
<1> QED
  BY <1>1, <1>2, <1>3, <1>4, <1>5, <1>6, <1>7, <1>8, <1>9, <1>10 DEF OperatorStep

\* Every step of the service, and every stutter, preserves the invariant.
LEMMA StepPreservesInv ==
  ASSUME GrayInv, [Next]_vars
  PROVE  GrayInv'
<1>1. ASSUME NEW o \in Operators, OperatorStep(o)  PROVE GrayInv'
  BY <1>1, OperatorStepPreserves
<1>2. ASSUME NEW n \in Instances, NEW s \in Slots, StartRead(n, s)  PROVE GrayInv'
  BY <1>2, StartReadPreserves
<1>3. ASSUME NEW n \in Instances, ReadItems(n)  PROVE GrayInv'
  BY <1>3, ReadItemsPreserves
<1>4. ASSUME NEW n \in Instances, ReadPrev(n)  PROVE GrayInv'
  BY <1>4, ReadPrevPreserves
<1>5. CASE UNCHANGED vars
  <2>1. UNCHANGED <<storeVars, releases, commits>> /\ UNCHANGED <<pc, job, rpc, read, served>>
    BY <1>5 DEF vars, svcVars, readVars
  <2>2. /\ StoreInv' /\ RecordsKept
        /\ CommitsOK' /\ ReleasesOK' /\ WithdrawalsOK'
        /\ GrayRollbackRestores' /\ RolledBackIsWithdrawn'
    BY <2>1, TablesKept
  <2>3. ServiceTypeOK'
    BY <2>1 DEF GrayInv, ServiceTypeOK, storeVars
  <2>4. (\A o \in Operators : HandlerOK(o)') /\ (\A n \in Instances : ReaderOK(n)')
    BY <2>1, <2>2, HandlerKept, ReaderKept DEF GrayInv
  <2> QED
    BY <2>2, <2>3, <2>4 DEF GrayInv
<1> QED
  BY <1>1, <1>2, <1>3, <1>4, <1>5 DEF Next, ReaderStep

\* The invariant holds of every reachable state.
THEOREM GrayInvariant == Spec => []GrayInv
BY InitHasInv, StepPreservesInv, PTL DEF Spec

\* Type correctness of the service over the store, for all constants.
THEOREM ServiceTypeCorrect == Spec => [](TypeOK /\ ServiceTypeOK)
<1>1. GrayInv => TypeOK /\ ServiceTypeOK
  BY DEF GrayInv, StoreInv
<1> QED
  BY <1>1, GrayInvariant, PTL

\* However its handlers interleave or stop, the service changes the store only
\* by commits that the store accepts.
THEOREM ServiceStepsAreStoreSteps == Spec => [][StoreNext]_storeVars
<1>1. GrayInv /\ [Next]_vars => [StoreNext]_storeVars
  <2> SUFFICES ASSUME GrayInv, [Next]_vars  PROVE [StoreNext]_storeVars
    OBVIOUS
  <2>1. ASSUME NEW o \in Operators, CommitStep(o)  PROVE [StoreNext]_storeVars
    <3>1. ASSUME NEW n \in Retentions, CommitValue(ParamsOf(job[o], n))  PROVE StoreNext
      <4>1. ParamsOf(job[o], n) \in CommitParams
        BY <2>1, ParamsTyped DEF CommitStep
      <4> QED
        BY <3>1, <4>1 DEF StoreNext
    <3> QED
      BY <2>1, <3>1 DEF CommitStep
  <2>2. ASSUME NEW o \in Operators, OperatorStep(o), ~CommitStep(o)  PROVE UNCHANGED storeVars
    BY <2>2 DEF OperatorStep, StartCommit, StartRollback, StartPromote, StartGrayRollback,
       GetItem, GetPrev, CreateRelease, UpdateRelease, Publish, Stop, OnlyLocal
  <2>3. ASSUME NEW n \in Instances, ReaderStep(n)  PROVE UNCHANGED storeVars
    BY <2>3 DEF ReaderStep, StartRead, ReadItems, ReadPrev
  <2>4. UNCHANGED vars => UNCHANGED storeVars
    BY DEF vars
  <2> QED
    BY <2>1, <2>2, <2>3, <2>4 DEF Next
<1> QED
  BY <1>1, GrayInvariant, PTL DEF Spec

\* The retained history stays a gapless run that ends at the counter and at the
\* live value, under every interleaving of the service's handlers.
THEOREM ServiceKeepsHistory == Spec => [](HistoryContiguous /\ LiveIsNewest)
<1>1. GrayInv => HistoryContiguous /\ LiveIsNewest
  BY DEF GrayInv, StoreInv
<1> QED
  BY <1>1, GrayInvariant, PTL

\* A gray rollback puts back exactly the value from before its release, as the
\* version right after it.
THEOREM GrayRollbackAlwaysRestores == Spec => []GrayRollbackRestores
<1>1. GrayInv => GrayRollbackRestores
  BY DEF GrayInv
<1> QED
  BY <1>1, GrayInvariant, PTL

\* No release is withdrawn twice: two commits of a gray rollback of the same
\* release are the same commit.
WithdrawnOnce ==
  \A c, d \in commits :
    c.kind = "gray_rollback" /\ d.kind = "gray_rollback" /\ c.rel = d.rel => c = d

\* A gray rollback commits at most once per release, whoever asks for it and
\* however often.
THEOREM ReleaseWithdrawnOnce == Spec => []WithdrawnOnce
<1>1. GrayInv => WithdrawnOnce
  <2> SUFFICES ASSUME GrayInv, NEW c \in commits, NEW d \in commits,
                      c.kind = "gray_rollback", d.kind = "gray_rollback", c.rel = d.rel
               PROVE  c = d
    BY DEF WithdrawnOnce
  <2>1. c.slot = d.slot /\ c.version = d.version
    BY DEF GrayInv, GrayRollbackRestores
  <2> QED
    BY <2>1 DEF GrayInv, CommitsOK
<1> QED
  BY <1>1, GrayInvariant, PTL

\* A release is marked rolled_back only when its value has been withdrawn.
THEOREM RolledBackOnlyWhenWithdrawn == Spec => []RolledBackIsWithdrawn
<1>1. GrayInv => RolledBackIsWithdrawn
  BY DEF GrayInv
<1> QED
  BY <1>1, GrayInvariant, PTL

\* An instance is given nothing or a pair of version and value that one commit
\* wrote.
THEOREM ServedAlwaysCommitted == Spec => []ServedPairCommitted
<1>1. GrayInv => ServedPairCommitted
  BY DEF GrayInv, ReaderOK, Written, ServedPairCommitted
<1> QED
  BY <1>1, GrayInvariant, PTL

\* An event is handed to the bus only after what it announces is in the store.
THEOREM EventAlwaysAfterEffect == Spec => []EventAfterEffect
<1>1. GrayInv => EventAfterEffect
  BY DEF GrayInv, HandlerOK, AtPublish, Committed, EventAfterEffect
<1> QED
  BY <1>1, GrayInvariant, PTL

\* What an answer does to its instance.
LEMMA AnswerEffect ==
  ASSUME GrayInv, NEW n \in Instances, NEW e, Answer(n, e)
  PROVE  /\ served'[n].slot = read[n].slot /\ served'[n].version = e.version
         /\ \A m \in Instances \ {n} : served'[m] = served[m]
BY DEF GrayInv, ServiceTypeOK, Answer

\* An instance that every release of the item selects never goes back to an
\* older version.
THEOREM SelectedAlwaysAdvances == Spec => SelectedNeverGoesBack
<1> DEFINE Act == \A n \in Instances :
                    /\ served'[n].slot = served[n].slot
                    /\ \A r \in DOMAIN releases :
                         releases[r].slot[1] = served[n].slot[1] => n \in releases[r].selected
                    => served'[n].version >= served[n].version
<1>1. GrayInv /\ [Next]_vars => [Act]_vars
  <2> SUFFICES ASSUME GrayInv, Next  PROVE Act
    OBVIOUS
  <2>1. ASSUME NEW n \in Instances
        PROVE  served[n].version \in Nat /\ served[n].version >= served[n].version
    BY DEF GrayInv, ServiceTypeOK, ServedRec
  <2>2. ASSUME NEW o \in Operators, OperatorStep(o)  PROVE Act
    <3>1. served' = served
      BY <2>2 DEF OperatorStep, StartCommit, StartRollback, StartPromote, StartGrayRollback,
         GetItem, GetPrev, CommitStep, CreateRelease, UpdateRelease, Publish, Stop, OnlyLocal,
         readVars
    <3> QED
      BY <2>1, <3>1
  <2>3. ASSUME NEW n \in Instances, served' = served \/ rpc[n] # "idle",
               ReaderStep(n)
        PROVE  Act
    <3> DEFINE s == read[n].slot
               r == read[n].rel
               all == \A q \in DOMAIN releases :
                        releases[q].slot[1] = s[1] => n \in releases[q].selected
    <3>1. CASE served' = served
      BY <2>1, <3>1
    <3>2. ASSUME NEW e, Answer(n, e), s \in Slots, e = values[s] \/ ~all  PROVE Act
      <4>1. /\ served'[n].slot = s /\ served'[n].version = e.version
            /\ \A m \in Instances \ {n} : served'[m] = served[m]
        BY <3>2, AnswerEffect
      <4>2. CASE e = values[s]
        <5>1. e.version = versionSeq[s] /\ versionSeq[s] \in Nat
          BY <3>2, <4>2, LiveCommitted
        <5>2. served[n].slot = s => served[n].version <= versionSeq[s]
          <6>1. CASE served[n].version = 0
            BY <5>1, <6>1
          <6>2. CASE served[n].version # 0
            BY <6>2 DEF GrayInv, ReaderOK, Written, CommitsOK
          <6> QED
            BY <6>1, <6>2
        <5> QED
          BY <2>1, <4>1, <5>1, <5>2
      <4>3. CASE ~all
        BY <2>1, <4>1, <4>3
      <4> QED
        BY <3>2, <4>2, <4>3
    <3>3. ~Entitled(n, r) => ~all
      BY DEF Entitled, GrayInv, ReaderOK
    <3>4. rpc[n] = "prev" => ~all
      BY DEF GrayInv, ReaderOK
    <3>5. rpc[n] # "idle" => s \in Slots
      BY DEF GrayInv, ReaderOK
    <3> HIDE DEF all, s, r, Act
    <3>6. CASE ReadItems(n)
      BY <3>1, <3>2, <3>3, <3>5, <3>6 DEF ReadItems, s, r
    <3>7. CASE ReadPrev(n)
      BY <3>1, <3>2, <3>4, <3>5, <3>7 DEF ReadPrev, FailRead, s
    <3> QED
      BY <2>3, <3>1, <3>6, <3>7 DEF ReaderStep, StartRead
  <2>4. ASSUME NEW n \in Instances, ReaderStep(n)  PROVE served' = served \/ rpc[n] # "idle"
    BY <2>4 DEF ReaderStep, StartRead, ReadItems, ReadPrev
  <2> QED
    BY <2>2, <2>3, <2>4 DEF Next
<1> QED
  BY <1>1, GrayInvariant, PTL DEF Spec, SelectedNeverGoesBack
=============================================================================
