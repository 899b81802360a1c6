--------------------------- MODULE ServerStartProofs ---------------------------
(***************************************************************************)
(* Proofs about ServerStart: what seed may write beside other nodes and     *)
(* operators, and when the demo tenant is whole, for any number of nodes.   *)
(***************************************************************************)
EXTENDS ServerStart, SequenceTheorems, TLAPS

-----------------------------------------------------------------------------
\* What a running node does next, and what seed inserts or commits.
Labels == {Order[k] : k \in 1 .. 17}
SeedLabels == Rows \cup Values

TypeOK ==
  /\ at \in [Nodes -> Labels \cup {"down"}]
  /\ tries \in [Nodes -> Nat]
  /\ dbUp \in BOOLEAN /\ cut \in BOOLEAN
  /\ maker \in [Rows -> {None, "system", "operator"}]
  /\ written \in [DemoItems -> Seq({"system", "operator"})]

\* At most one node ever fills the tenant, the one that inserted it; the rows
\* seed inserted are behind it, and at a value the item is seed's own.
FillingOK ==
  /\ \A n, m \in Nodes : Filling(n) /\ Filling(m) => n = m
  /\ \A n \in Nodes : Filling(n) =>
       /\ maker["tenant"] = "system"
       /\ \A x \in Rows : maker[x] = "system" => Index(x) < Index(at[n])
       /\ at[n] \in Values => maker[ItemOf(at[n])] = "system"

\* The demo tenant is filled up to position p of Order.
FilledTo(p) ==
  /\ \A x \in Rows : Index(x) < p => maker[x] # None
  /\ \A i \in DemoItems : Index(i) + 1 < p /\ maker[i] = "system" => written[i] # <<>>

\* An uninterrupted seed has filled the tenant, or is filling it and has filled
\* it as far as it has come.
FilledOK ==
  maker["tenant"] = "system" /\ maker["payment"] # "operator" /\ ~cut
  => FilledTo(17) \/ \E n \in Nodes : Filling(n) /\ FilledTo(Index(at[n]))

\* The inductive invariant.
StartInv == TypeOK /\ FillingOK /\ FilledOK /\ SeedNeverOverwrites

-----------------------------------------------------------------------------
\* No two places of Order have the same label.
LEMMA OrderInjective == \A j, k \in 1 .. 17 : Order[j] = Order[k] => j = k
BY DEF Order

\* The place of each label.
LEMMA IndexOf == \A k \in 1 .. 17 : Index(Order[k]) = k
<1> TAKE k \in 1 .. 17
<1>1. DOMAIN Order = 1 .. 17
  BY DEF Order
<1>2. \E j \in DOMAIN Order : Order[j] = Order[k]
  BY <1>1
<1>3. Index(Order[k]) \in DOMAIN Order /\ Order[Index(Order[k])] = Order[k]
  BY <1>2 DEF Index
<1> QED
  BY <1>1, <1>3, OrderInjective

\* The places of the rows and values.
LEMMA Places ==
  /\ Index("tenant") = 5 /\ Index("publicNamespace") = 6 /\ Index("publicGroup") = 7
  /\ Index("payment") = 8 /\ Index("defaults") = 9 /\ Index("gateway") = 10
  /\ Index("publicItem") = 11 /\ Index("publicValue") = 12
  /\ Index("paymentItem") = 13 /\ Index("paymentValue") = 14
  /\ Index("gatewayItem") = 15 /\ Index("gatewayValue") = 16 /\ Index("serving") = 17
<1>1. /\ Order[5] = "tenant" /\ Order[6] = "publicNamespace" /\ Order[7] = "publicGroup"
      /\ Order[8] = "payment" /\ Order[9] = "defaults" /\ Order[10] = "gateway"
      /\ Order[11] = "publicItem" /\ Order[12] = "publicValue"
      /\ Order[13] = "paymentItem" /\ Order[14] = "paymentValue"
      /\ Order[15] = "gatewayItem" /\ Order[16] = "gatewayValue" /\ Order[17] = "serving"
  BY DEF Order
<1> HIDE DEF Index
<1> QED
  BY <1>1, IndexOf

\* Rows and values by name.
LEMMA SeedLabelsAre ==
  /\ Rows = {"tenant", "publicNamespace", "publicGroup", "payment", "defaults", "gateway",
             "publicItem", "paymentItem", "gatewayItem"}
  /\ Values = {"publicValue", "paymentValue", "gatewayValue"}
  /\ DemoItems = {"publicItem", "paymentItem", "gatewayItem"}
  /\ SeedLabels = {Order[k] : k \in 5 .. 16}
<1>1. DOMAIN Parent = {"publicNamespace", "publicGroup", "payment", "defaults", "gateway",
                       "publicItem", "paymentItem", "gatewayItem"}
  BY DEF Parent
<1>2. Rows = {"tenant", "publicNamespace", "publicGroup", "payment", "defaults", "gateway",
              "publicItem", "paymentItem", "gatewayItem"}
  BY <1>1 DEF Rows
<1>3. {Order[k] : k \in 5 .. 16} =
        {"tenant", "publicNamespace", "publicGroup", "payment", "defaults", "gateway",
         "publicItem", "paymentItem", "gatewayItem", "publicValue", "paymentValue",
         "gatewayValue"}
  BY DEF Order
<1> QED
  BY <1>2, <1>3 DEF Values, DemoItems, SeedLabels

\* Where seed goes on from a row or a value.
LEMMA NextLabel ==
  ASSUME NEW l \in SeedLabels
  PROVE  /\ Index(l) \in 5 .. 16
         /\ After(l, 1) \in (SeedLabels \ {"tenant"}) \cup {"serving"}
         /\ Index(After(l, 1)) = Index(l) + 1
         /\ After(l, 1) \in Values => l \in DemoItems /\ ItemOf(After(l, 1)) = l
         /\ After(l, 1) = "serving" <=> Index(l) = 16
<1>1. PICK k \in 5 .. 16 : l = Order[k]
  BY SeedLabelsAre
<1>2. Index(l) = k
  BY <1>1, IndexOf
<1>3. After(l, 1) = Order[k + 1] /\ Index(After(l, 1)) = k + 1
  BY <1>2, IndexOf DEF After
<1>4. After(l, 1) \in (SeedLabels \ {"tenant"}) \cup {"serving"}
  <2>1. k + 1 \in 6 .. 16 => Order[k + 1] \in SeedLabels /\ Order[k + 1] # "tenant"
    BY SeedLabelsAre, IndexOf, Places
  <2>2. k + 1 \in 6 .. 16 \/ k + 1 = 17
    OBVIOUS
  <2>3. Order[17] = "serving"
    BY DEF Order
  <2> QED
    BY <1>3, <2>1, <2>2, <2>3
<1>5. After(l, 1) \in Values => l \in DemoItems /\ ItemOf(After(l, 1)) = l
  <2>1. After(l, 1) \in Values => k + 1 \in {12, 14, 16}
    BY <1>3, SeedLabelsAre, Places
  <2>2. k \in {11, 13, 15} => l \in DemoItems
    BY <1>1, SeedLabelsAre DEF Order
  <2>3. ItemOf(After(l, 1)) = Order[k]
    BY <1>3 DEF ItemOf
  <2> QED
    BY <1>1, <2>1, <2>2, <2>3
<1>6. After(l, 1) = "serving" <=> k = 16
  <2>1. k = 16 => After(l, 1) = "serving"
    BY <1>3 DEF Order
  <2> QED
    BY <1>3, <2>1, Places
<1> QED
  BY <1>2, <1>3, <1>4, <1>5, <1>6

\* Where seed goes on when it leaves an item alone.
LEMMA LabelAfterItem ==
  ASSUME NEW i \in DemoItems
  PROVE  /\ i \in SeedLabels /\ Index(i) \in {11, 13, 15}
         /\ After(i, 2) \in (SeedLabels \ {"tenant"}) \cup {"serving"}
         /\ After(i, 2) \notin Values
         /\ Index(After(i, 2)) = Index(i) + 2
         /\ After(i, 2) = "serving" <=> Index(i) = 15
<1>1. /\ Order[13] = "paymentItem" /\ Order[15] = "gatewayItem" /\ Order[17] = "serving"
  BY DEF Order
<1>2. Index(i) \in {11, 13, 15} /\ i \in SeedLabels
  BY Places, SeedLabelsAre DEF SeedLabels
<1>3. After(i, 2) = Order[Index(i) + 2] /\ Index(After(i, 2)) = Index(i) + 2
  BY <1>2, IndexOf DEF After
<1> QED
  BY <1>1, <1>2, <1>3, SeedLabelsAre, Places DEF SeedLabels

\* The item of each value.
LEMMA ItemOfValue ==
  ASSUME NEW v \in Values
  PROVE  ItemOf(v) \in DemoItems /\ Index(ItemOf(v)) + 1 = Index(v)
<1>1. Order[11] = "publicItem" /\ Order[13] = "paymentItem" /\ Order[15] = "gatewayItem"
  BY DEF Order
<1> QED
  BY <1>1, Places, SeedLabelsAre DEF ItemOf

\* Rows and values have places of their own.
LEMMA IndexInjective ==
  \A l, m \in SeedLabels : Index(l) = Index(m) => l = m
BY SeedLabelsAre, IndexOf

-----------------------------------------------------------------------------
\* The labels of a node that fills the tenant.
FillLabels == SeedLabels \ {"tenant"}

\* Filling, by the label.
LEMMA FillingIs == \A n : Filling(n) <=> at[n] \in FillLabels
BY DEF Filling, FillLabels, SeedLabels

\* Every label of Order is a label; so are those seed goes to.
LEMMA LabelTypes == FillLabels \cup {"tenant", "serving", "connect", "applySchema",
                                     "pingRedis", "getTenant"} \subseteq Labels
<1>1. /\ Order[1] = "connect" /\ Order[2] = "applySchema" /\ Order[3] = "pingRedis"
      /\ Order[4] = "getTenant" /\ Order[5] = "tenant" /\ Order[17] = "serving"
  BY DEF Order
<1>2. SeedLabels \subseteq Labels
  BY SeedLabelsAre DEF Labels
<1>3. \A k \in 1 .. 17 : Order[k] \in Labels
  BY DEF Labels
<1> QED
  BY <1>1, <1>2, <1>3 DEF FillLabels

\* The labels before and after seed are not its own.
LEMMA NotFilling == {"tenant", "serving", "down", "connect", "applySchema", "pingRedis",
                     "getTenant"} \cap FillLabels = {}
BY SeedLabelsAre DEF FillLabels, SeedLabels

-----------------------------------------------------------------------------
\* The invariant holds when no node has been started.
LEMMA InitStart == Init => StartInv
<1> SUFFICES ASSUME Init PROVE StartInv
  OBVIOUS
<1>1. TypeOK
  <2>1. <<>> \in Seq({"system", "operator"})
    OBVIOUS
  <2> QED
    BY <2>1 DEF Init, TypeOK
<1>2. \A n \in Nodes : ~Filling(n)
  BY FillingIs, NotFilling DEF Init
<1>3. "tenant" \in Rows /\ \A x \in Rows : maker[x] # "system"
  BY SeedLabelsAre, StartAssumption DEF Init
<1>4. SeedNeverOverwrites
  BY <1>3 DEF Init, SeedNeverOverwrites
<1> QED
  BY <1>1, <1>2, <1>3, <1>4 DEF StartInv, FillingOK, FilledOK

\* A node that goes where seed is not, and interrupts the seed it was in, keeps
\* the invariant.
LEMMA LeaveKeepsInv ==
  ASSUME NEW n \in Nodes, NEW l \in (Labels \cup {"down"}) \ FillLabels, StartInv,
         at' = [at EXCEPT ![n] = l], UNCHANGED stored, cut' = (cut \/ Filling(n)),
         tries' \in [Nodes -> Nat], dbUp' \in BOOLEAN
  PROVE  StartInv'
<1> USE DEF StartInv, stored
<1>1. TypeOK'
  BY DEF TypeOK
<1>2. \A m \in Nodes : Filling(m)' <=> Filling(m) /\ m # n
  BY DEF TypeOK, Filling, FillLabels, SeedLabels
<1>3. \A m \in Nodes : m # n => at'[m] = at[m]
  BY DEF TypeOK
<1>4. FillingOK'
  BY <1>2, <1>3 DEF FillingOK
<1>5. FilledOK'
  <2>1. ~cut' => ~cut /\ ~Filling(n)
    BY DEF TypeOK
  <2> QED
    BY <1>2, <1>3, <2>1 DEF FilledOK, FilledTo
<1>6. SeedNeverOverwrites'
  BY DEF SeedNeverOverwrites
<1> QED
  BY <1>1, <1>4, <1>5, <1>6

\* The steps before seed, and the end of a process.
LEMMA BootKeepsInv ==
  ASSUME NEW n \in Nodes, StartInv, Start(n) \/ Boot(n) \/ GetTenant(n) \/ Die(n)
  PROVE  StartInv'
<1> USE DEF StartInv
<1>1. /\ tries' \in [Nodes -> Nat] /\ dbUp' = dbUp
  BY StartAssumption DEF TypeOK, Start, Boot, Connect, ApplySchema, PingRedis, GetTenant, Die, Retry
<1>2. PICK l \in {"tenant", "serving", "down", "connect", "applySchema", "pingRedis",
                  "getTenant"} : at' = [at EXCEPT ![n] = l]
  <2>1. CASE at' = at
    <3>1. at[n] = "connect" /\ at' = [at EXCEPT ![n] = "connect"]
      BY <2>1 DEF TypeOK, Start, Boot, Connect, ApplySchema, PingRedis, GetTenant, Die, Retry, Goto
    <3> QED
      BY <3>1
  <2>2. CASE at' # at
    BY <2>2 DEF Start, Boot, Connect, ApplySchema, PingRedis, GetTenant, Die, Retry, Goto
  <2> QED
    BY <2>1, <2>2
<1>3. UNCHANGED stored /\ cut' = (cut \/ Filling(n))
  <2>1. CASE Die(n)
    BY <2>1 DEF Die
  <2>2. CASE Start(n) \/ Boot(n) \/ GetTenant(n)
    <3>1. ~Filling(n)
      BY <2>2, FillingIs, NotFilling DEF Start, Boot, Connect, ApplySchema, PingRedis, GetTenant
    <3>2. UNCHANGED stored /\ cut' = cut /\ cut \in BOOLEAN
      BY <2>2 DEF TypeOK, Start, Boot, Connect, ApplySchema, PingRedis, GetTenant
    <3> QED
      BY <3>1, <3>2
  <2> QED
    BY <2>1, <2>2
<1>4. l \in (Labels \cup {"down"}) \ FillLabels
  BY <1>2, LabelTypes, NotFilling
<1> QED
  BY <1>1, <1>2, <1>3, <1>4, LeaveKeepsInv DEF TypeOK

-----------------------------------------------------------------------------
\* Node n, the only one that fills the tenant, goes on to label l.
LEMMA MoveKeepsFilling ==
  ASSUME NEW n \in Nodes, NEW l \in FillLabels \cup {"serving"}, TypeOK,
         at' = [at EXCEPT ![n] = l],
         \A m \in Nodes : m # n => ~Filling(m),
         l \in FillLabels => maker'["tenant"] = "system",
         \A y \in Rows : maker'[y] = "system" => Index(y) < Index(l),
         l \in Values => maker'[ItemOf(l)] = "system",
         maker'["tenant"] = "system" /\ maker'["payment"] # "operator" /\ ~cut'
           => FilledTo(Index(l))'
  PROVE  FillingOK' /\ FilledOK'
<1>1. at'[n] = l /\ \A m \in Nodes : m # n => at'[m] = at[m]
  BY DEF TypeOK
<1>2. \A m \in Nodes : Filling(m)' <=> m = n /\ l \in FillLabels
  BY <1>1 DEF Filling, FillLabels, SeedLabels
<1>3. FillingOK'
  BY <1>1, <1>2 DEF FillingOK
<1>4. FilledOK'
  <2>1. CASE l \in FillLabels
    BY <1>1, <1>2, <2>1 DEF FilledOK, FilledTo
  <2>2. CASE l = "serving"
    BY <2>2, Places DEF FilledOK
  <2> QED
    BY <2>1, <2>2
<1> QED
  BY <1>3, <1>4

\* Of the node that fills the tenant: no other does, what seed inserted is
\* behind it, and an uninterrupted seed has filled the tenant as far as it is.
LEMMA OfTheFiller ==
  ASSUME NEW n \in Nodes, StartInv, Filling(n)
  PROVE  /\ at[n] \in FillLabels /\ maker["tenant"] = "system"
         /\ \A m \in Nodes : m # n => ~Filling(m)
         /\ \A y \in Rows : maker[y] = "system" => Index(y) < Index(at[n])
         /\ maker["payment"] # "operator" /\ ~cut => FilledTo(Index(at[n]))
<1>1. /\ at[n] \in FillLabels /\ maker["tenant"] = "system"
      /\ \A m \in Nodes : m # n => ~Filling(m)
      /\ \A y \in Rows : maker[y] = "system" => Index(y) < Index(at[n])
  BY FillingIs DEF StartInv, FillingOK
<1>2. Index(at[n]) \in 5 .. 16
  BY <1>1, NextLabel DEF FillLabels
<1>3. FilledTo(17) => FilledTo(Index(at[n]))
  <2>1. \A x \in Rows : Index(x) \in Int
    BY NextLabel DEF SeedLabels
  <2>2. DemoItems \subseteq Rows
    BY SeedLabelsAre
  <2> QED
    BY <1>2, <2>1, <2>2 DEF FilledTo
<1>4. maker["payment"] # "operator" /\ ~cut => FilledTo(Index(at[n]))
  BY <1>1, <1>3 DEF StartInv, FilledOK
<1> QED
  BY <1>1, <1>4

\* Of a node that inserts the tenant: nobody fills it, and seed has no rows.
LEMMA BeforeTheTenant ==
  ASSUME StartInv, maker["tenant"] = None
  PROVE  /\ \A m \in Nodes : ~Filling(m)
         /\ \A y \in Rows : maker[y] # "system"
BY StartAssumption DEF StartInv, FillingOK, SeedNeverOverwrites

\* A place that has a row after it is filled once that row exists; a row of
\* another's making, and an item of another's making without its value, do too.
LEMMA FilledOneMore ==
  ASSUME NEW x \in Rows, NEW q, FilledTo(Index(x)), TypeOK,
         maker' = maker \/ maker' = [maker EXCEPT ![x] = "system"],
         maker'[x] # None, written' = written,
         \/ q = Index(x) + 1
         \/ q = Index(x) + 2 /\ x \in DemoItems /\ maker'[x] # "system"
  PROVE  FilledTo(q)'
<1>1. x \in SeedLabels /\ Index(x) \in Int /\ \A y \in Rows : y \in SeedLabels /\ Index(y) \in Int
  BY NextLabel DEF SeedLabels
<1>2. \A y \in Rows : maker[y] # None => maker'[y] # None
  BY DEF TypeOK
<1>3. ASSUME NEW y \in Rows, Index(y) < q PROVE maker'[y] # None
  <2>1. CASE Index(y) < Index(x)
    BY <1>2, <2>1 DEF FilledTo
  <2>2. CASE Index(y) = Index(x)
    BY <1>1, <2>2, IndexInjective
  <2>3. CASE Index(y) = Index(x) + 1 /\ q = Index(x) + 2
    BY <2>3, SeedLabelsAre, Places
  <2> QED
    BY <1>1, <1>3, <2>1, <2>2, <2>3
<1>4. ASSUME NEW i \in DemoItems, Index(i) + 1 < q, maker'[i] = "system"
      PROVE  written'[i] # <<>>
  <2>1. i \in Rows /\ i # x
    BY <1>1, <1>4, SeedLabelsAre
  <2>2. maker[i] = "system"
    BY <1>4, <2>1 DEF TypeOK
  <2>3. Index(i) + 1 # Index(x)
    BY SeedLabelsAre, Places
  <2>4. Index(i) # Index(x)
    BY <1>1, <2>1, IndexInjective
  <2>5. Index(i) + 1 < Index(x)
    BY <1>1, <1>4, <2>1, <2>3, <2>4
  <2> QED
    BY <2>2, <2>5 DEF FilledTo
<1> QED
  BY <1>3, <1>4 DEF FilledTo

-----------------------------------------------------------------------------
\* The insertion of a row by seed.
LEMMA InsertKeepsInv ==
  ASSUME NEW n \in Nodes, StartInv, InsertRow(n)
  PROVE  StartInv'
<1>0. PICK x : x = at[n]
  OBVIOUS
<1>1. x \in Rows /\ x \in SeedLabels /\ Index(x) \in 5 .. 16 /\ UNCHANGED <<tries, dbUp, written>>
  BY <1>0, NextLabel DEF InsertRow, SeedLabels
<1>2. ASSUME Insertable(x), Insert(x, "system"), Goto(n, After(x, 1)), cut' = cut
      PROVE  StartInv'
  <2>1. /\ maker[x] = None /\ maker' = [maker EXCEPT ![x] = "system"]
        /\ at' = [at EXCEPT ![n] = After(x, 1)]
    BY <1>2 DEF Insertable, Insert, Goto
  <2>2. After(x, 1) \in FillLabels \cup {"serving"} /\ Index(After(x, 1)) = Index(x) + 1
    BY <1>1, NextLabel DEF FillLabels
  <2>3. TypeOK'
    BY <1>1, <1>2, <2>1, <2>2, LabelTypes DEF StartInv, TypeOK
  <2>4. /\ \A m \in Nodes : m # n => ~Filling(m)
        /\ \A y \in Rows : maker[y] = "system" => Index(y) < Index(x)
        /\ maker'["tenant"] = "system"
        /\ maker["payment"] # "operator" /\ ~cut => FilledTo(Index(x))
    <3>1. CASE x = "tenant"
      <4>1. FilledTo(Index(x))
        BY <3>1, SeedLabelsAre, Places DEF FilledTo
      <4> QED
        BY <1>1, <2>1, <3>1, <4>1, BeforeTheTenant DEF StartInv, TypeOK
    <3>2. CASE x # "tenant"
      <4>1. Filling(n)
        BY <1>0, <1>1, <3>2, FillingIs DEF FillLabels
      <4> QED
        BY <1>0, <2>1, <3>2, <4>1, OfTheFiller, SeedLabelsAre DEF StartInv, TypeOK
    <3> QED
      BY <3>1, <3>2
  <2>5. /\ maker'[x] = "system" /\ \A y \in Rows : y # x => maker'[y] = maker[y]
    BY <1>1, <2>1 DEF StartInv, TypeOK
  <2>6. \A y \in Rows : maker'[y] = "system" => Index(y) < Index(After(x, 1))
    <3>1. \A y \in Rows : Index(y) \in Int
      BY NextLabel DEF SeedLabels
    <3> QED
      BY <1>1, <2>2, <2>4, <2>5, <3>1
  <2>7. After(x, 1) \in Values => maker'[ItemOf(After(x, 1))] = "system"
    BY <1>1, <2>5, NextLabel
  <2>8. maker'["payment"] # "operator" /\ ~cut' => FilledTo(Index(After(x, 1)))'
    <3>1. maker'["payment"] # "operator" => maker["payment"] # "operator"
      BY <1>1, <2>1, <2>5, StartAssumption, SeedLabelsAre
    <3>2. FilledTo(Index(x)) => FilledTo(Index(After(x, 1)))'
      <4>1. TypeOK /\ maker'[x] # None /\ written' = written
        BY <1>1, <2>5, StartAssumption DEF StartInv
      <4> QED
        BY <1>1, <2>1, <2>2, <4>1, FilledOneMore
    <3> QED
      BY <1>2, <2>2, <2>4, <3>1, <3>2
  <2>9. FillingOK' /\ FilledOK'
    BY <2>1, <2>2, <2>4, <2>6, <2>7, <2>8, MoveKeepsFilling DEF StartInv
  <2>10. SeedNeverOverwrites'
    BY <1>1, <2>1, <2>4, <2>5, StartAssumption, SeedLabelsAre DEF StartInv, SeedNeverOverwrites
  <2> QED
    BY <2>3, <2>9, <2>10 DEF StartInv
<1>3. ASSUME maker[x] # None, Goto(n, AfterDuplicate(x)), UNCHANGED <<maker, cut>>
      PROVE  StartInv'
  <2>1. CASE x = "tenant"
    <3>1. ~Filling(n) /\ "serving" \in (Labels \cup {"down"}) \ FillLabels
      BY <1>0, <2>1, FillingIs, NotFilling, LabelTypes
    <3>2. at' = [at EXCEPT ![n] = "serving"] /\ cut' = (cut \/ Filling(n))
      BY <1>3, <2>1, <3>1 DEF AfterDuplicate, Goto, StartInv, TypeOK
    <3> QED
      BY <1>1, <1>3, <3>1, <3>2, LeaveKeepsInv DEF stored, StartInv, TypeOK
  <2>2. CASE x # "tenant"
    <3>1. PICK l : l = AfterDuplicate(x)
      OBVIOUS
    <3>2. at' = [at EXCEPT ![n] = l]
      BY <1>3, <3>1 DEF Goto
    <3>3. /\ Filling(n) /\ maker["tenant"] = "system"
          /\ \A m \in Nodes : m # n => ~Filling(m)
          /\ \A y \in Rows : maker[y] = "system" => Index(y) < Index(x)
          /\ maker["payment"] # "operator" /\ ~cut => FilledTo(Index(x))
      <4>1. Filling(n)
        BY <1>0, <1>1, <2>2, FillingIs DEF FillLabels
      <4> QED
        BY <1>0, <4>1, OfTheFiller
    <3>4. maker[x] = "operator"
      <4>1. maker[x] # "system"
        BY <1>1, <3>3
      <4> QED
        BY <1>1, <1>3, <4>1 DEF StartInv, TypeOK
    <3>5. /\ \/ x = "payment"
             \/ x \in DemoItems /\ l = After(x, 2) /\ Index(l) = Index(x) + 2
             \/ x \notin DemoItems /\ l = After(x, 1) /\ Index(l) = Index(x) + 1
          /\ l \in FillLabels \cup {"serving"} /\ l \notin Values
          /\ Index(x) < Index(l)
      BY <1>1, <2>2, <3>1, LabelAfterItem, NextLabel, SeedLabelsAre, Places
      DEF AfterDuplicate, FillLabels
    <3>6. TypeOK'
      BY <1>1, <1>3, <3>2, <3>5, LabelTypes DEF StartInv, TypeOK
    <3>7. \A y \in Rows : maker'[y] = "system" => Index(y) < Index(l)
      <4>1. \A y \in Rows : Index(y) \in Int
        BY NextLabel DEF SeedLabels
      <4>2. Index(l) \in Int
        BY <3>5, NextLabel, Places DEF FillLabels
      <4> QED
        BY <1>1, <1>3, <3>3, <3>5, <4>1, <4>2
    <3>8. maker'["payment"] # "operator" /\ ~cut' => FilledTo(Index(l))'
      BY <1>1, <1>3, <3>3, <3>4, <3>5, FilledOneMore, StartAssumption DEF StartInv
    <3>9. FillingOK' /\ FilledOK'
      BY <1>3, <3>2, <3>3, <3>5, <3>7, <3>8, MoveKeepsFilling DEF StartInv
    <3>10. SeedNeverOverwrites'
      BY <1>1, <1>3 DEF StartInv, SeedNeverOverwrites
    <3> QED
      BY <3>6, <3>9, <3>10 DEF StartInv
  <2> QED
    BY <2>1, <2>2
<1> QED
  BY <1>0, <1>2, <1>3 DEF InsertRow

\* The insertion of a row fails or its answer is lost; a seed that had created
\* the tenant is interrupted.
LEMMA FailKeepsInv ==
  ASSUME NEW n \in Nodes, StartInv, FailRow(n)
  PROVE  StartInv'
<1>0. PICK x, l : x = at[n] /\ l = AfterError(x)
  OBVIOUS
<1>1. /\ x \in Rows /\ x \in SeedLabels /\ Index(x) \in 5 .. 16
      /\ UNCHANGED <<tries, dbUp, written>> /\ at' = [at EXCEPT ![n] = l]
  BY <1>0, NextLabel DEF FailRow, SeedLabels, Goto
<1>2. /\ l \in FillLabels \cup {"serving"} /\ l \notin Values /\ Index(x) < Index(l)
      /\ x = "tenant" => l = "serving"
  BY <1>0, <1>1, LabelAfterItem, NextLabel, SeedLabelsAre, Places DEF AfterError, FillLabels
<1>3. \A y \in Rows : Index(y) \in Int /\ Index(l) \in Int
  BY <1>2, NextLabel, Places DEF FillLabels, SeedLabels
<1>4. CASE maker' = maker /\ cut' = (cut \/ Filling(n)) /\ x = "tenant"
  <2>1. "serving" \in (Labels \cup {"down"}) \ FillLabels
    BY NotFilling, LabelTypes
  <2> QED
    BY <1>1, <1>2, <1>4, <2>1, LeaveKeepsInv DEF stored, StartInv, TypeOK
<1>5. CASE /\ maker' = maker \/ (Insertable(x) /\ Insert(x, "system"))
           /\ cut' = TRUE
           /\ x = "tenant" => Insertable(x) /\ Insert(x, "system")
  <2>1. maker' = maker \/ maker' = [maker EXCEPT ![x] = "system"]
    BY <1>5 DEF Insert
  <2>2. TypeOK'
    BY <1>1, <1>2, <1>5, <2>1, LabelTypes DEF StartInv, TypeOK
  <2>3. /\ \A m \in Nodes : m # n => ~Filling(m)
        /\ \A y \in Rows : maker[y] = "system" => Index(y) < Index(x)
        /\ maker'["tenant"] = "system"
    <3>1. CASE x = "tenant"
      <4>1. maker["tenant"] = None /\ maker' = [maker EXCEPT !["tenant"] = "system"]
        BY <1>5, <3>1 DEF Insertable, Insert
      <4> QED
        BY <1>1, <3>1, <4>1, BeforeTheTenant DEF StartInv, TypeOK
    <3>2. CASE x # "tenant"
      <4>1. Filling(n)
        BY <1>0, <1>1, <3>2, FillingIs DEF FillLabels
      <4> QED
        BY <1>0, <2>1, <3>2, <4>1, OfTheFiller, SeedLabelsAre DEF StartInv, TypeOK
    <3> QED
      BY <3>1, <3>2
  <2>4. \A y \in Rows : y # x => maker'[y] = maker[y]
    BY <1>1, <2>1 DEF StartInv, TypeOK
  <2>5. \A y \in Rows : maker'[y] = "system" => Index(y) < Index(l)
    BY <1>1, <1>2, <1>3, <2>3, <2>4
  <2>6. FillingOK' /\ FilledOK'
    BY <1>1, <1>2, <1>5, <2>3, <2>5, MoveKeepsFilling DEF StartInv
  <2>7. \A y \in Rows : maker[y] = "system" => maker'[y] = "system"
    BY <1>1, <2>1 DEF StartInv, TypeOK
  <2>8. SeedNeverOverwrites'
    BY <1>1, <2>3, <2>7, SeedLabelsAre DEF StartInv, SeedNeverOverwrites
  <2> QED
    BY <2>2, <2>6, <2>8 DEF StartInv
<1>6. x # "tenant" => Filling(n)
  BY <1>0, <1>1, FillingIs DEF FillLabels
<1>7. cut' = TRUE \/ (maker' = maker /\ cut' = (cut \/ Filling(n)) /\ x = "tenant")
  <2>1. CASE x = "tenant"
    BY <1>0, <2>1 DEF FailRow
  <2>2. CASE x # "tenant"
    BY <1>0, <1>6, <2>2 DEF FailRow
  <2> QED
    BY <2>1, <2>2
<1> QED
  BY <1>0, <1>4, <1>5, <1>7 DEF FailRow

\* The commit of a demo item by seed: the item is seed's own, and has no value.
LEMMA CommitKeepsInv ==
  ASSUME NEW n \in Nodes, StartInv, CommitValue(n)
  PROVE  StartInv'
<1>0. PICK v, i, l : v = at[n] /\ i = ItemOf(v) /\ l = After(v, 1)
  OBVIOUS
<1>1. /\ v \in Values /\ v \in SeedLabels /\ Index(v) \in 5 .. 16 /\ v # "tenant"
      /\ UNCHANGED <<tries, dbUp, maker>> /\ at' = [at EXCEPT ![n] = l]
  BY <1>0, NextLabel, SeedLabelsAre DEF CommitValue, SeedLabels, Goto
<1>2. i \in DemoItems /\ Index(i) + 1 = Index(v) /\ v \notin DemoItems
  BY <1>0, <1>1, ItemOfValue, SeedLabelsAre
<1>3. l \in FillLabels \cup {"serving"} /\ l \notin Values /\ Index(l) = Index(v) + 1
  BY <1>0, <1>1, <1>2, NextLabel DEF FillLabels
<1>4. /\ Filling(n) /\ maker["tenant"] = "system" /\ maker[i] = "system"
      /\ \A m \in Nodes : m # n => ~Filling(m)
      /\ \A y \in Rows : maker[y] = "system" => Index(y) < Index(v)
      /\ maker["payment"] # "operator" /\ ~cut => FilledTo(Index(v))
  <2>1. Filling(n)
    BY <1>0, <1>1, FillingIs DEF FillLabels
  <2>2. maker[i] = "system"
    BY <1>0, <1>1, <2>1 DEF StartInv, FillingOK
  <2> QED
    BY <1>0, <2>1, <2>2, OfTheFiller
<1>5. /\ \/ written[i] = <<>> /\ written' = [written EXCEPT ![i] = Append(written[i], "system")]
         \/ written' = written
      /\ ~cut' => ~cut /\ written'[i] # <<>>
      /\ cut' \in BOOLEAN
  <2>1. written[i] \in Seq({"system", "operator"})
    BY <1>2 DEF StartInv, TypeOK
  <2>2. Append(written[i], "system") # <<>>
    BY <2>1, AppendProperties
  <2>3. /\ i \in DOMAIN written /\ cut \in BOOLEAN
        /\ \/ /\ written[i] = <<>> /\ cut' = cut
              /\ written' = [written EXCEPT ![i] = Append(written[i], "system")]
           \/ written[i] # <<>> /\ written' = written /\ cut' = cut
           \/ written' = written /\ cut' = TRUE
    BY <1>0, <1>2 DEF CommitValue, MayCommit, StartInv, TypeOK
  <2> QED
    BY <2>2, <2>3
<1>6. TypeOK'
  <2>1. written' \in [DemoItems -> Seq({"system", "operator"})]
    BY <1>2, <1>5 DEF StartInv, TypeOK
  <2> QED
    BY <1>1, <1>3, <1>5, <2>1, LabelTypes DEF StartInv, TypeOK
<1>7. \A y \in Rows : maker'[y] = "system" => Index(y) < Index(l)
  <2>1. \A y \in Rows : Index(y) \in Int
    BY NextLabel DEF SeedLabels
  <2> QED
    BY <1>1, <1>3, <1>4, <2>1
<1>8. maker'["payment"] # "operator" /\ ~cut' => FilledTo(Index(l))'
  <2> SUFFICES ASSUME maker["payment"] # "operator", ~cut' PROVE FilledTo(Index(l))'
    BY <1>1
  <2>1. FilledTo(Index(v)) /\ written'[i] # <<>>
    BY <1>4, <1>5
  <2>2. ASSUME NEW y \in Rows, Index(y) < Index(l) PROVE maker'[y] # None
    <3>1. y \in SeedLabels /\ Index(y) \in Int /\ y # v
      BY <1>1, NextLabel, SeedLabelsAre DEF SeedLabels
    <3>2. Index(y) < Index(v)
      BY <1>1, <1>3, <2>2, <3>1, IndexInjective
    <3> QED
      BY <1>1, <2>1, <3>2 DEF FilledTo
  <2>3. ASSUME NEW j \in DemoItems, Index(j) + 1 < Index(l), maker'[j] = "system"
        PROVE  written'[j] # <<>>
    <3>1. CASE j = i
      BY <2>1, <3>1
    <3>2. CASE j # i
      <4>1. Index(j) # Index(i) /\ Index(j) \in Int /\ Index(i) \in Int
        BY <1>2, <3>2, LabelAfterItem, IndexInjective
      <4>2. Index(j) + 1 < Index(v)
        BY <1>1, <1>2, <1>3, <2>3, <4>1
      <4>3. written[j] # <<>>
        BY <1>1, <2>1, <2>3, <4>2 DEF FilledTo
      <4>4. written'[j] = written[j]
        BY <1>5, <3>2 DEF StartInv, TypeOK
      <4> QED
        BY <4>3, <4>4
    <3> QED
      BY <3>1, <3>2
  <2> QED
    BY <2>2, <2>3 DEF FilledTo
<1>9. FillingOK' /\ FilledOK'
  BY <1>1, <1>3, <1>4, <1>7, <1>8, MoveKeepsFilling DEF StartInv
<1>10. SeedNeverOverwrites'
  <2>1. \A x \in Rows : maker'[x] = "system" => maker'["tenant"] = "system"
    BY <1>1 DEF StartInv, SeedNeverOverwrites
  <2>2. ASSUME NEW j \in DemoItems, NEW k \in DOMAIN written'[j], written'[j][k] = "system"
        PROVE  k = 1 /\ maker'[j] = "system"
    <3>1. CASE written'[j] = written[j]
      BY <1>1, <2>2, <3>1 DEF StartInv, SeedNeverOverwrites
    <3>2. CASE written'[j] # written[j]
      <4>1. j = i /\ written'[j] = Append(<<>>, "system")
        BY <1>2, <1>5, <3>2 DEF StartInv, TypeOK
      <4>2. DOMAIN written'[j] = {1}
        BY <4>1
      <4> QED
        BY <1>1, <1>4, <2>2, <4>1, <4>2
    <3> QED
      BY <3>1, <3>2
  <2> QED
    BY <2>1, <2>2 DEF SeedNeverOverwrites
<1> QED
  BY <1>6, <1>9, <1>10 DEF StartInv

\* Rows and values of operators, and the database's coming and going.
LEMMA OthersKeepInv ==
  ASSUME StartInv,
         \/ \E x \in Rows : OperatorInserts(x)
         \/ \E i \in DemoItems : OperatorCommits(i)
         \/ Environment
  PROVE  StartInv'
<1>1. UNCHANGED <<at, tries, cut>> /\ dbUp' \in BOOLEAN
  BY DEF OperatorInserts, OperatorCommits, Environment, StartInv, TypeOK
<1>2. /\ \A x \in Rows : maker[x] # None => maker'[x] = maker[x]
      /\ \A x \in Rows : maker[x] = None => maker'[x] \in {None, "operator"}
      /\ maker' \in [Rows -> {None, "system", "operator"}]
  BY DEF OperatorInserts, OperatorCommits, Environment, StartInv, TypeOK, Insertable, Insert, stored
<1>3. \A i \in DemoItems : \/ written'[i] = written[i]
                           \/ written'[i] = Append(written[i], "operator")
  BY DEF OperatorInserts, OperatorCommits, Environment, StartInv, TypeOK, stored
<1>4. written' \in [DemoItems -> Seq({"system", "operator"})]
  <2>1. CASE written' = written
    BY <2>1 DEF StartInv, TypeOK
  <2>2. CASE \E i \in DemoItems : OperatorCommits(i)
    <3>1. PICK i \in DemoItems : written' = [written EXCEPT ![i] = Append(written[i], "operator")]
      BY <2>2 DEF OperatorCommits
    <3>2. Append(written[i], "operator") \in Seq({"system", "operator"})
      BY DEF StartInv, TypeOK
    <3> QED
      BY <3>1, <3>2 DEF StartInv, TypeOK
  <2> QED
    BY <2>1, <2>2 DEF OperatorInserts, Environment, stored
<1>5. TypeOK'
  BY <1>1, <1>2, <1>4 DEF StartInv, TypeOK
<1>6. \A x \in Rows : maker'[x] = "system" <=> maker[x] = "system"
  BY <1>2, StartAssumption DEF StartInv, TypeOK
<1>7. \A v \in Values : ItemOf(v) \in Rows
  BY ItemOfValue, SeedLabelsAre
<1>8. \A m \in Nodes : Filling(m)' <=> Filling(m)
  BY <1>1 DEF Filling
<1>9. FillingOK'
  BY <1>1, <1>6, <1>7, <1>8, SeedLabelsAre DEF StartInv, FillingOK
<1>10. \A i \in DemoItems : written[i] # <<>> => written'[i] # <<>>
  <2>1. \A i \in DemoItems : Append(written[i], "operator") # <<>>
    BY DEF StartInv, TypeOK
  <2> QED
    BY <1>3, <2>1
<1>11. ASSUME NEW p \in Int, FilledTo(p) PROVE FilledTo(p)'
  BY <1>2, <1>6, <1>10, <1>11, SeedLabelsAre DEF FilledTo
<1>12. FilledOK'
  <2> SUFFICES ASSUME maker'["tenant"] = "system", maker'["payment"] # "operator", ~cut'
               PROVE  FilledTo(17)' \/ \E n \in Nodes : Filling(n)' /\ FilledTo(Index(at[n]))'
    BY DEF FilledOK
  <2>1. FilledTo(17) \/ \E n \in Nodes : Filling(n) /\ FilledTo(Index(at[n]))
    BY <1>1, <1>2, <1>6, SeedLabelsAre, StartAssumption DEF StartInv, FilledOK
  <2>2. CASE FilledTo(17)
    BY <1>11, <2>2
  <2>3. ASSUME NEW n \in Nodes, Filling(n), FilledTo(Index(at[n]))
        PROVE  FilledTo(Index(at[n]))'
    <3>1. PICK l : l = at[n]
      OBVIOUS
    <3>2. Index(l) \in Int
      BY <2>3, <3>1, FillingIs, NextLabel DEF FillLabels
    <3>3. FilledTo(Index(l))'
      BY <1>11, <2>3, <3>1, <3>2
    <3> QED
      BY <1>1, <3>1, <3>3
  <2> QED
    BY <1>8, <2>1, <2>2, <2>3
<1>13. SeedNeverOverwrites'
  <2>1. \A x \in Rows : maker'[x] = "system" => maker'["tenant"] = "system"
    BY <1>6, SeedLabelsAre DEF StartInv, SeedNeverOverwrites
  <2>2. ASSUME NEW i \in DemoItems, NEW k \in DOMAIN written'[i], written'[i][k] = "system"
        PROVE  k = 1 /\ maker'[i] = "system"
    <3>1. k \in DOMAIN written[i] /\ written[i][k] = "system"
      <4>1. written[i] \in Seq({"system", "operator"})
        BY DEF StartInv, TypeOK
      <4>2. CASE written'[i] = Append(written[i], "operator")
        <5>1. k \in 1 .. Len(written[i]) + 1 /\ DOMAIN written[i] = 1 .. Len(written[i])
          BY <2>2, <4>1, <4>2
        <5>2. k # Len(written[i]) + 1
          BY <2>2, <4>1, <4>2, AppendProperties
        <5> QED
          BY <2>2, <4>1, <4>2, <5>1, <5>2, AppendProperties
      <4> QED
        BY <1>3, <2>2, <4>2
    <3> QED
      BY <1>6, <3>1, SeedLabelsAre DEF StartInv, SeedNeverOverwrites
  <2> QED
    BY <2>1, <2>2 DEF SeedNeverOverwrites
<1> QED
  BY <1>5, <1>9, <1>12, <1>13 DEF StartInv

-----------------------------------------------------------------------------
\* Every step keeps the invariant.
LEMMA StepStart == StartInv /\ [Next]_vars => StartInv'
<1> SUFFICES ASSUME StartInv, [Next]_vars PROVE StartInv'
  OBVIOUS
<1>1. ASSUME NEW n \in Nodes, Start(n) \/ Boot(n) \/ Seed(n) \/ Die(n) PROVE StartInv'
  BY <1>1, BootKeepsInv, InsertKeepsInv, FailKeepsInv, CommitKeepsInv DEF Seed
<1>2. CASE UNCHANGED vars
  BY <1>2 DEF vars, StartInv, TypeOK, FillingOK, Filling, FilledOK, FilledTo, SeedNeverOverwrites
<1> QED
  BY <1>1, <1>2, OthersKeepInv DEF Next

\* The inductive invariant holds in every reachable state.
THEOREM StartInvariant == Spec => []StartInv
BY InitStart, StepStart, PTL DEF Spec

\* However many nodes seed while operators write, seed writes only into a tenant
\* it created, and gives a value only to its own items that have none
\* (cmd/server/main.go, seed).
THEOREM SeedIsSafe == Spec => []SeedNeverOverwrites
<1>1. StartInv => SeedNeverOverwrites
  BY DEF StartInv
<1> QED
  BY <1>1, StartInvariant, PTL

\* The demo tenant is whole once no node fills it, if its seed was not cut
\* short, by an interruption, a failing call or a refusal by quota or format,
\* and no operator took its namespace first (cmd/server/main.go).
THEOREM UninterruptedSeedIsWhole == Spec => []DemoIsWhole
<1>1. StartInv => DemoIsWhole
  <2> SUFFICES ASSUME StartInv, maker["tenant"] = "system", maker["payment"] # "operator",
                      ~cut, \A n \in Nodes : ~Filling(n)
               PROVE  /\ \A x \in Rows : maker[x] # None
                      /\ \A i \in DemoItems : maker[i] = "system" => written[i] # <<>>
    BY DEF DemoIsWhole
  <2>1. FilledTo(17)
    BY DEF StartInv, FilledOK
  <2>2. /\ \A x \in Rows : Index(x) < 17
        /\ \A i \in DemoItems : Index(i) + 1 < 17
    BY NextLabel, LabelAfterItem DEF SeedLabels
  <2> QED
    BY <2>1, <2>2 DEF FilledTo
<1> QED
  BY <1>1, StartInvariant, PTL
=============================================================================
