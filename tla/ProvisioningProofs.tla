-------------------------- MODULE ProvisioningProofs ---------------------------
(***************************************************************************)
(* Proofs about Provisioning: by how much concurrent handlers can exceed a   *)
(* quota, which namespaces lack their system group, and the formats of a     *)
(* key in the layers, for any number of concurrent requests.                *)
(***************************************************************************)
EXTENDS Provisioning, FiniteSetTheorems, TLAPS

-----------------------------------------------------------------------------
NsIds    == Namespaces \union {Public}
GroupIds == Groups \union {Public, Defaults}

JobType == [ns : NsIds \union {""}, group : GroupIds \union {""}, key : Keys \union {""},
            format : Formats \union {""}, max : Int, over : SUBSET (Formats \union {""})]

ItemType == [ns : NsIds \union {""}, group : GroupIds \union {""},
             layer : {"public", "namespace", "group", ""}, key : Keys \union {""},
             format : Formats \union {""}, over : SUBSET (Formats \union {""})]

Labels == {"idle", "createPublicNamespace", "createPublicGroup", "countNamespaces",
           "createNamespace", "createDefaults", "countItems", "checkPublic",
           "checkDefaults", "createItem"}

\* A handler that makes a namespace knows which.
Named(l, j) == l \in {"countNamespaces", "createNamespace", "createDefaults"} => j.ns \in NsIds

TypeOK ==
  /\ tenant \in Quotas \union {NoTenant}
  /\ namespaces \in SUBSET NsIds /\ IsFiniteSet(namespaces)
  /\ groups \in SUBSET (NsIds \X GroupIds)
  /\ items \in SUBSET ItemType /\ IsFiniteSet(items)
  /\ pc \in [Operators -> Labels]
  /\ job \in [Operators -> JobType]
  /\ \A o \in Operators : Named(pc[o], job[o])
  /\ peak \in [maxNamespaces : Nat, maxItemsPerGroup : Nat]

\* The quota in force, and every quota a handler has read, is below the peak.
PeakOK ==
  /\ tenant # NoTenant => /\ tenant.maxNamespaces <= peak.maxNamespaces
                          /\ tenant.maxItemsPerGroup <= peak.maxItemsPerGroup
  /\ \A o \in Operators :
       /\ pc[o] = "countNamespaces" => job[o].max <= peak.maxNamespaces
       /\ pc[o] = "countItems" => job[o].max <= peak.maxItemsPerGroup

\* The handlers that have counted, and may insert a namespace, or an item in
\* the container <<ns, g>>.
MayAddNamespace == {o \in Operators : pc[o] = "createNamespace"}
MayAddItem(ns, g) ==
  {o \in Operators : /\ pc[o] \in {"checkPublic", "checkDefaults", "createItem"}
                     /\ job[o].ns = ns /\ job[o].group = g}

\* What there is and what counted handlers may add stay within the bound.
QuotaOK ==
  /\ Cardinality(namespaces \ {Public}) + Cardinality(MayAddNamespace)
       <= peak.maxNamespaces + Cardinality(Operators)
  /\ \A ns, g : Cardinality(ItemsIn(ns, g)) + Cardinality(MayAddItem(ns, g))
                  <= peak.maxItemsPerGroup + Cardinality(Operators) - 1

\* The formats of weaker layers that the handler of o has still to compare with
\* are those of items that are there.
FormatsOK(o) ==
  LET j == job[o]
      Compared(l) == {u.format : u \in {x \in items : Above(x, j) /\ x.layer \in l}}
  IN  /\ pc[o] = "checkPublic" => j.over \subseteq Compared({"public", "namespace"})
      /\ pc[o] = "checkDefaults" => j.over \subseteq {j.format} \union Compared({"namespace"})
      /\ pc[o] = "createItem" => j.over \subseteq {j.format}

\* An item's layer is that of its container.
LayersOK == \A it \in items : it.layer = Layer(it.ns, it.group)

\* The inductive invariant.
ProvisioningInv ==
  /\ TypeOK /\ PeakOK /\ QuotaOK /\ ContainersComplete
  /\ LayersOK /\ LaterLayersFollowFormat /\ \A o \in Operators : FormatsOK(o)

-----------------------------------------------------------------------------
\* The next step of one handler changes its own state only.
LEMMA ContinueEffect ==
  ASSUME TypeOK, NEW o \in Operators, NEW l \in Labels, NEW j \in JobType, Named(l, j),
         Continue(o, l, j)
  PROVE  /\ pc' \in [Operators -> Labels] /\ job' \in [Operators -> JobType]
         /\ \A p \in Operators : Named(pc'[p], job'[p])
         /\ pc'[o] = l /\ job'[o] = j
         /\ \A p \in Operators : p # o => pc'[p] = pc[p] /\ job'[p] = job[p]
BY DEF TypeOK, Continue

\* No job is a job.
LEMMA NoJobType == NoJob \in JobType
BY DEF NoJob, JobType

\* A job with another quota or other weaker formats is a job.
LEMMA JobExcept ==
  ASSUME NEW j \in JobType, NEW m \in Int, NEW f \in SUBSET (Formats \union {""})
  PROVE  /\ [j EXCEPT !.max = m] \in JobType
         /\ [j EXCEPT !.max = m].ns = j.ns /\ [j EXCEPT !.max = m].max = m
         /\ [j EXCEPT !.max = m, !.over = f] \in JobType
         /\ [j EXCEPT !.max = m, !.over = f].ns = j.ns
         /\ [j EXCEPT !.max = m, !.over = f].group = j.group
         /\ [j EXCEPT !.max = m, !.over = f].key = j.key
         /\ [j EXCEPT !.max = m, !.over = f].format = j.format
         /\ [j EXCEPT !.max = m, !.over = f].over = f
BY DEF JobType

\* The formats of weaker layers are formats.
LEMMA OverType ==
  ASSUME TypeOK, NEW j
  PROVE  {u.format : u \in {x \in items : Above(x, j)}} \in SUBSET (Formats \union {""})
<1>1. \A u \in items : u.format \in Formats \union {""}
  BY DEF TypeOK, ItemType
<1> QED
  BY <1>1

\* The item of a job is an item.
LEMMA ItemOfJob ==
  ASSUME NEW j \in JobType
  PROVE  /\ Item(j) \in ItemType
         /\ Item(j).ns = j.ns /\ Item(j).group = j.group /\ Item(j).key = j.key
         /\ Item(j).format = j.format /\ Item(j).over = j.over
         /\ Item(j).layer = Layer(j.ns, j.group)
BY DEF JobType, ItemType, Item, Layer

\* The peak is a bound on the quotas.
LEMMA SetQuotaEffect ==
  ASSUME TypeOK, NEW q \in Quotas, SetQuota(q)
  PROVE  /\ tenant' = q /\ peak' \in [maxNamespaces : Nat, maxItemsPerGroup : Nat]
         /\ q.maxNamespaces <= peak'.maxNamespaces
         /\ q.maxItemsPerGroup <= peak'.maxItemsPerGroup
         /\ peak.maxNamespaces <= peak'.maxNamespaces
         /\ peak.maxItemsPerGroup <= peak'.maxItemsPerGroup
<1>1. /\ q.maxNamespaces \in Int /\ q.maxItemsPerGroup \in Int
      /\ peak.maxNamespaces \in Nat /\ peak.maxItemsPerGroup \in Nat
      /\ DOMAIN peak = {"maxNamespaces", "maxItemsPerGroup"}
  BY ProvisioningAssumption DEF TypeOK
<1>2. peak' = [f \in {"maxNamespaces", "maxItemsPerGroup"} |-> Larger(peak[f], q[f])]
  BY <1>1 DEF SetQuota
<1>3. /\ peak'.maxNamespaces = Larger(peak.maxNamespaces, q.maxNamespaces)
      /\ peak'.maxItemsPerGroup = Larger(peak.maxItemsPerGroup, q.maxItemsPerGroup)
  BY <1>2
<1>4. peak' \in [maxNamespaces : Nat, maxItemsPerGroup : Nat]
  BY <1>1, <1>2, <1>3 DEF Larger
<1> QED
  BY <1>1, <1>3, <1>4 DEF SetQuota, Larger

-----------------------------------------------------------------------------
\* Every step keeps the types.
LEMMA TypeStep == TypeOK /\ [Next]_vars => TypeOK'
<1> SUFFICES ASSUME TypeOK, [Next]_vars PROVE TypeOK'
  OBVIOUS
<1> USE ProvisioningAssumption, NoJobType
<1>1. ASSUME NEW o \in Operators, OperatorStep(o) PROVE TypeOK'
  <2>0. 0 \in Int
    OBVIOUS
  <2>1. /\ job[o] \in JobType /\ job[o].max \in Int /\ "idle" \in Labels
        /\ Named(pc[o], job[o])
    BY DEF TypeOK, JobType, Labels
  <2>2. ASSUME NEW q \in Quotas, CreateTenant(o, q) PROVE TypeOK'
    <3>1. /\ pc' \in [Operators -> Labels] /\ job' \in [Operators -> JobType]
          /\ \A p \in Operators : Named(pc'[p], job'[p])
      BY <2>2, ContinueEffect DEF Named, CreateTenant, Labels
    <3> QED
      BY <2>2, <3>1, SetQuotaEffect DEF CreateTenant, TypeOK
  <2>3. ASSUME NEW ns \in Namespaces \union {Public}, StartCreateNamespace(o, ns) PROVE TypeOK'
    <3>1. /\ [NoJob EXCEPT !.ns = ns, !.max = tenant.maxNamespaces] \in JobType
          /\ [NoJob EXCEPT !.ns = ns, !.max = tenant.maxNamespaces].ns \in NsIds
      BY <2>3 DEF StartCreateNamespace, TypeOK, JobType, NoJob, NsIds
    <3>2. /\ pc' \in [Operators -> Labels] /\ job' \in [Operators -> JobType]
          /\ \A p \in Operators : Named(pc'[p], job'[p])
      BY <2>3, <3>1, ContinueEffect DEF Named, StartCreateNamespace, Labels
    <3> QED
      BY <2>3, <3>2 DEF StartCreateNamespace, TypeOK, OnlyLocal, tables
  <2>4. ASSUME NEW c \in {x \in groups : x[1] \in Busy}, NEW key \in Keys, NEW f \in Formats,
               StartCreateItem(o, c[1], c[2], key, f)
        PROVE  TypeOK'
    <3>1. c[1] \in NsIds /\ c[2] \in GroupIds /\ tenant.maxItemsPerGroup \in Int
      BY <2>4 DEF TypeOK, StartCreateItem
    <3>2. [ns |-> c[1], group |-> c[2], key |-> key, format |-> f,
           max |-> tenant.maxItemsPerGroup, over |-> {}] \in JobType
      BY <3>1 DEF JobType
    <3>3. /\ pc' \in [Operators -> Labels] /\ job' \in [Operators -> JobType]
          /\ \A p \in Operators : Named(pc'[p], job'[p])
      BY <2>4, <3>2, ContinueEffect DEF Named, StartCreateItem, Labels
    <3> QED
      BY <2>4, <3>3 DEF StartCreateItem, TypeOK, OnlyLocal, tables
  <2>5. CASE CreatePublicNamespace(o)
    <3>1. /\ pc' \in [Operators -> Labels] /\ job' \in [Operators -> JobType]
          /\ \A p \in Operators : Named(pc'[p], job'[p])
      BY <2>5, ContinueEffect DEF Named, CreatePublicNamespace, Labels
    <3>2. IsFiniteSet(namespaces')
      BY <2>5, FS_AddElement DEF CreatePublicNamespace, AddNamespace, TypeOK
    <3> QED
      BY <2>5, <3>1, <3>2 DEF CreatePublicNamespace, AddNamespace, TypeOK, NsIds
  <2>6. CASE CreatePublicGroup(o)
    <3>1. /\ pc' \in [Operators -> Labels] /\ job' \in [Operators -> JobType]
          /\ \A p \in Operators : Named(pc'[p], job'[p])
      BY <2>1, <2>6, ContinueEffect DEF Named, CreatePublicGroup, Return
    <3> QED
      BY <2>6, <3>1 DEF CreatePublicGroup, AddGroup, TypeOK, NsIds, GroupIds
  <2>7. CASE CountNamespaces(o)
    <3>1. /\ pc' \in [Operators -> Labels] /\ job' \in [Operators -> JobType]
          /\ \A p \in Operators : Named(pc'[p], job'[p])
      <4>1. /\ [job[o] EXCEPT !.max = 0] \in JobType
            /\ Named("createNamespace", [job[o] EXCEPT !.max = 0])
        BY <2>0, <2>1, <2>7, JobExcept DEF Named, CountNamespaces
      <4>2. Named("idle", NoJob) /\ {"idle", "createNamespace"} \subseteq Labels
        BY DEF Named, Labels
      <4>3. CASE NamespaceFits(job[o].max)
        BY <2>7, <4>1, <4>2, <4>3, ContinueEffect DEF CountNamespaces
      <4>4. CASE ~NamespaceFits(job[o].max)
        BY <2>7, <4>2, <4>4, ContinueEffect DEF CountNamespaces, Return
      <4> QED
        BY <4>3, <4>4
    <3> QED
      BY <2>7, <3>1 DEF CountNamespaces, TypeOK, OnlyLocal, tables
  <2>8. CASE CreateNamespace(o)
    <3>1. /\ pc' \in [Operators -> Labels] /\ job' \in [Operators -> JobType]
          /\ \A p \in Operators : Named(pc'[p], job'[p])
      BY <2>1, <2>8, ContinueEffect DEF Named, CreateNamespace, Return, Labels
    <3>2. IsFiniteSet(namespaces')
      BY <2>8, FS_AddElement DEF CreateNamespace, AddNamespace, TypeOK
    <3> QED
      BY <2>1, <2>8, <3>1, <3>2 DEF CreateNamespace, AddNamespace, TypeOK, Named
  <2>9. CASE CreateDefaults(o)
    <3>1. /\ pc' \in [Operators -> Labels] /\ job' \in [Operators -> JobType]
          /\ \A p \in Operators : Named(pc'[p], job'[p])
      BY <2>1, <2>9, ContinueEffect DEF Named, CreateDefaults, Return
    <3> QED
      BY <2>1, <2>9, <3>1 DEF CreateDefaults, AddGroup, TypeOK, GroupIds, Named
  <2>10. CASE CountItems(o)
    <3>1. /\ pc' \in [Operators -> Labels] /\ job' \in [Operators -> JobType]
          /\ \A p \in Operators : Named(pc'[p], job'[p])
      <4> DEFINE f == {u.format : u \in {x \in items : Above(x, job[o])}}
      <4>1. [job[o] EXCEPT !.max = 0, !.over = f] \in JobType
        <5>1. f \in SUBSET (Formats \union {""})
          BY OverType
        <5> HIDE DEF f
        <5> QED
          BY <2>0, <2>1, <5>1, JobExcept
      <4>2. /\ {"idle", "checkPublic"} \subseteq Labels
            /\ \A j : Named("idle", j) /\ Named("checkPublic", j)
        BY DEF Named, Labels
      <4>3. CASE ItemFits(job[o])
        <5>1. Continue(o, "checkPublic", [job[o] EXCEPT !.max = 0, !.over = f])
          BY <2>10, <4>3 DEF CountItems
        <5> HIDE DEF f
        <5> QED
          BY <4>1, <4>2, <5>1, ContinueEffect
      <4>4. CASE ~ItemFits(job[o])
        BY <2>10, <4>2, <4>4, ContinueEffect DEF CountItems, Return
      <4> QED
        BY <4>3, <4>4
    <3> QED
      BY <2>10, <3>1 DEF CountItems, TypeOK, OnlyLocal, tables
  <2>11. CASE CheckPublic(o) \/ CheckDefaults(o)
    <3>1. /\ pc' \in [Operators -> Labels] /\ job' \in [Operators -> JobType]
          /\ \A p \in Operators : Named(pc'[p], job'[p])
      BY <2>1, <2>11, ContinueEffect DEF Named, CheckPublic, CheckDefaults, Return, Labels
    <3> QED
      BY <2>11, <3>1 DEF CheckPublic, CheckDefaults, TypeOK, OnlyLocal, tables
  <2>12. CASE InsertItem(o)
    <3>1. /\ pc' \in [Operators -> Labels] /\ job' \in [Operators -> JobType]
          /\ \A p \in Operators : Named(pc'[p], job'[p])
      BY <2>1, <2>12, ContinueEffect DEF Named, InsertItem, Return
    <3>2. items' \in {items, items \union {Item(job[o])}}
      BY <2>12 DEF InsertItem
    <3>3. items' \in SUBSET ItemType /\ IsFiniteSet(items')
      BY <2>1, <3>2, ItemOfJob, FS_AddElement DEF TypeOK
    <3> QED
      BY <2>12, <3>1, <3>3 DEF InsertItem, TypeOK
  <2>13. CASE Stop(o)
    <3>1. /\ pc' \in [Operators -> Labels] /\ job' \in [Operators -> JobType]
          /\ \A p \in Operators : Named(pc'[p], job'[p])
      BY <2>1, <2>13, ContinueEffect DEF Named, Stop, Return
    <3> QED
      BY <2>13, <3>1 DEF Stop, TypeOK, tables
  <2> QED
    BY <1>1, <2>2, <2>3, <2>4, <2>5, <2>6, <2>7, <2>8, <2>9, <2>10, <2>11, <2>12, <2>13
    DEF OperatorStep
<1>2. ASSUME NEW q \in Quotas, UpdateQuota(q) PROVE TypeOK'
  BY <1>2, SetQuotaEffect DEF UpdateQuota, TypeOK
<1>3. ASSUME NEW ns \in Busy, NEW g \in IF ns = Public THEN {Public} ELSE Groups \union {Defaults},
             CreateGroup(ns, g)
      PROVE  TypeOK'
  BY <1>3 DEF CreateGroup, AddGroup, TypeOK, NsIds, GroupIds
<1>4. CASE UNCHANGED vars
  BY <1>4 DEF vars, tables, TypeOK, Named
<1> QED
  BY <1>1, <1>2, <1>3, <1>4 DEF Next

-----------------------------------------------------------------------------
\* Every step keeps the quotas read below the peak.
LEMMA PeakStep == TypeOK /\ PeakOK /\ [Next]_vars => PeakOK'
<1> SUFFICES ASSUME TypeOK, PeakOK, [Next]_vars PROVE PeakOK'
  OBVIOUS
<1> USE ProvisioningAssumption
<1>0. /\ peak.maxNamespaces \in Nat /\ peak.maxItemsPerGroup \in Nat
      /\ \A o \in Operators : job[o].max \in Int
  BY DEF TypeOK, JobType
<1>1. ASSUME NEW o \in Operators, OperatorStep(o) PROVE PeakOK'
  <2>1. ASSUME NEW q \in Quotas, CreateTenant(o, q) PROVE PeakOK'
    <3>1. /\ pc'[o] = "createPublicNamespace"
          /\ \A p \in Operators : p # o => pc'[p] = pc[p] /\ job'[p] = job[p]
      BY <2>1 DEF CreateTenant, Continue, TypeOK
    <3>2. /\ tenant' = q /\ q.maxNamespaces <= peak'.maxNamespaces
          /\ q.maxItemsPerGroup <= peak'.maxItemsPerGroup
          /\ peak.maxNamespaces <= peak'.maxNamespaces
          /\ peak.maxItemsPerGroup <= peak'.maxItemsPerGroup
          /\ peak'.maxNamespaces \in Nat /\ peak'.maxItemsPerGroup \in Nat
      BY <2>1, SetQuotaEffect DEF CreateTenant
    <3> QED
      BY <1>0, <3>1, <3>2 DEF PeakOK
  <2>2. ASSUME NEW ns \in Namespaces \union {Public}, StartCreateNamespace(o, ns) PROVE PeakOK'
    <3>1. /\ pc'[o] = "countNamespaces" /\ job'[o].max = tenant.maxNamespaces
          /\ \A p \in Operators : p # o => pc'[p] = pc[p] /\ job'[p] = job[p]
          /\ tenant # NoTenant /\ tenant' = tenant /\ peak' = peak
      BY <2>2 DEF StartCreateNamespace, Continue, TypeOK, NoJob, OnlyLocal, tables
    <3> QED
      BY <3>1 DEF PeakOK
  <2>3. ASSUME NEW c \in {x \in groups : x[1] \in Busy}, NEW key \in Keys, NEW f \in Formats,
               StartCreateItem(o, c[1], c[2], key, f)
        PROVE  PeakOK'
    <3>1. /\ pc'[o] = "countItems" /\ job'[o].max = tenant.maxItemsPerGroup
          /\ \A p \in Operators : p # o => pc'[p] = pc[p] /\ job'[p] = job[p]
          /\ tenant # NoTenant /\ tenant' = tenant /\ peak' = peak
      BY <2>3 DEF StartCreateItem, Continue, TypeOK, OnlyLocal, tables
    <3> QED
      BY <3>1 DEF PeakOK
  <2>4. CASE \/ CreatePublicNamespace(o) \/ CreatePublicGroup(o) \/ CountNamespaces(o)
             \/ CreateNamespace(o) \/ CreateDefaults(o) \/ CountItems(o) \/ CheckPublic(o)
             \/ CheckDefaults(o) \/ InsertItem(o) \/ Stop(o)
    <3>1. /\ pc'[o] \notin {"countNamespaces", "countItems"}
          /\ \A p \in Operators : p # o => pc'[p] = pc[p] /\ job'[p] = job[p]
          /\ tenant' = tenant /\ peak' = peak
      BY <2>4 DEF CreatePublicNamespace, CreatePublicGroup, CountNamespaces, CreateNamespace,
                  CreateDefaults, CountItems, CheckPublic, CheckDefaults, InsertItem, Stop,
                  Continue, Return, OnlyLocal, tables, TypeOK
    <3> QED
      BY <3>1 DEF PeakOK
  <2> QED
    BY <1>1, <2>1, <2>2, <2>3, <2>4 DEF OperatorStep
<1>2. ASSUME NEW q \in Quotas, UpdateQuota(q) PROVE PeakOK'
  <2>1. /\ tenant' = q /\ q.maxNamespaces <= peak'.maxNamespaces
        /\ q.maxItemsPerGroup <= peak'.maxItemsPerGroup
        /\ peak.maxNamespaces <= peak'.maxNamespaces
        /\ peak.maxItemsPerGroup <= peak'.maxItemsPerGroup
        /\ peak'.maxNamespaces \in Nat /\ peak'.maxItemsPerGroup \in Nat
    BY <1>2, SetQuotaEffect DEF UpdateQuota
  <2> QED
    BY <1>0, <1>2, <2>1 DEF PeakOK, UpdateQuota
<1>3. ASSUME NEW ns \in Busy, NEW g, CreateGroup(ns, g) PROVE PeakOK'
  BY <1>3 DEF CreateGroup, PeakOK
<1>4. CASE UNCHANGED vars
  BY <1>4 DEF vars, tables, PeakOK
<1> QED
  BY <1>1, <1>2, <1>3, <1>4 DEF Next

-----------------------------------------------------------------------------
\* Every step leaves the containers complete, abandoned or in the making.
LEMMA ContainersStep == TypeOK /\ ContainersComplete /\ [Next]_vars => ContainersComplete'
<1> SUFFICES ASSUME TypeOK, ContainersComplete, [Next]_vars, NEW ns \in namespaces'
             PROVE  \/ HasSystemGroup(ns)' \/ ns \in abandoned'
                    \/ \E o \in Operators :
                         \/ pc'[o] = "createDefaults" /\ job'[o].ns = ns
                         \/ pc'[o] = "createPublicGroup" /\ ns = Public
  BY DEF ContainersComplete
<1>0. ns \in namespaces =>
        \/ HasSystemGroup(ns) \/ ns \in abandoned
        \/ \E o \in Operators : \/ pc[o] = "createDefaults" /\ job[o].ns = ns
                                \/ pc[o] = "createPublicGroup" /\ ns = Public
  BY DEF ContainersComplete
<1>1. ASSUME NEW m, NEW g, AddGroup(m, g)
      PROVE  /\ HasSystemGroup(ns) => HasSystemGroup(ns)'
             /\ ns \in abandoned => HasSystemGroup(ns)' \/ ns \in abandoned'
             /\ g \in {Public, Defaults} => HasSystemGroup(m)'
  BY <1>1 DEF AddGroup, HasSystemGroup
<1>2. ASSUME NEW o \in Operators, OperatorStep(o)
      PROVE  \/ HasSystemGroup(ns)' \/ ns \in abandoned'
             \/ \E p \in Operators : \/ pc'[p] = "createDefaults" /\ job'[p].ns = ns
                                     \/ pc'[p] = "createPublicGroup" /\ ns = Public
  <2>0. ASSUME NEW l, NEW j, Continue(o, l, j)
        PROVE  /\ pc'[o] = l /\ job'[o] = j
               /\ \A p \in Operators : p # o => pc'[p] = pc[p] /\ job'[p] = job[p]
    BY <2>0 DEF Continue, TypeOK
  <2>1. CASE CreatePublicNamespace(o)
    <3>1. pc[o] = "createPublicNamespace" /\ pc'[o] = "createPublicGroup" /\ groups' = groups
          /\ abandoned' = abandoned /\ namespaces' = namespaces \union {Public}
      BY <2>0, <2>1 DEF CreatePublicNamespace, AddNamespace
    <3> QED
      BY <1>0, <2>0, <2>1, <3>1 DEF CreatePublicNamespace, HasSystemGroup
  <2>2. CASE CreatePublicGroup(o)
    BY <1>0, <1>1, <2>0, <2>2 DEF CreatePublicGroup, Return
  <2>3. CASE CreateNamespace(o)
    <3>1. /\ pc[o] = "createNamespace" /\ groups' = groups /\ abandoned' = abandoned
          /\ namespaces' = namespaces \union {job[o].ns}
          /\ job[o].ns \notin namespaces => pc'[o] = "createDefaults" /\ job'[o] = job[o]
          /\ \A p \in Operators : p # o => pc'[p] = pc[p] /\ job'[p] = job[p]
      BY <2>0, <2>3 DEF CreateNamespace, AddNamespace, Return
    <3> QED
      BY <1>0, <3>1 DEF HasSystemGroup
  <2>4. CASE CreateDefaults(o)
    BY <1>0, <1>1, <2>0, <2>4 DEF CreateDefaults, Return
  <2>5. CASE Stop(o)
    <3>1. /\ namespaces' = namespaces /\ groups' = groups /\ abandoned \subseteq abandoned'
          /\ \A p \in Operators : p # o => pc'[p] = pc[p] /\ job'[p] = job[p]
          /\ pc[o] = "createDefaults" => HasSystemGroup(job[o].ns) \/ job[o].ns \in abandoned'
          /\ pc[o] = "createPublicGroup" => HasSystemGroup(Public) \/ Public \in abandoned'
      BY <2>0, <2>5 DEF Stop, Return, tables
    <3> QED
      BY <1>0, <3>1 DEF HasSystemGroup
  <2>6. CASE \/ \E q \in Quotas : CreateTenant(o, q)
             \/ \E m \in Namespaces \union {Public} : StartCreateNamespace(o, m)
             \/ \E c \in {x \in groups : x[1] \in Busy}, key \in Keys, f \in Formats :
                  StartCreateItem(o, c[1], c[2], key, f)
             \/ CountNamespaces(o) \/ CountItems(o) \/ CheckPublic(o) \/ CheckDefaults(o)
             \/ InsertItem(o)
    <3>1. /\ namespaces' = namespaces /\ groups' = groups /\ abandoned' = abandoned
          /\ pc[o] \notin {"createDefaults", "createPublicGroup"}
          /\ \A p \in Operators : p # o => pc'[p] = pc[p] /\ job'[p] = job[p]
      BY <2>0, <2>6 DEF CreateTenant, StartCreateNamespace, StartCreateItem, CountNamespaces,
             CountItems, CheckPublic, CheckDefaults, InsertItem, OnlyLocal, tables, Return
    <3> QED
      BY <1>0, <3>1 DEF HasSystemGroup
  <2> QED
    BY <1>2, <2>1, <2>2, <2>3, <2>4, <2>5, <2>6 DEF OperatorStep
<1>3. ASSUME NEW q \in Quotas, UpdateQuota(q)
      PROVE  \/ HasSystemGroup(ns)' \/ ns \in abandoned'
             \/ \E p \in Operators : \/ pc'[p] = "createDefaults" /\ job'[p].ns = ns
                                     \/ pc'[p] = "createPublicGroup" /\ ns = Public
  BY <1>0, <1>3 DEF UpdateQuota, HasSystemGroup
<1>4. ASSUME NEW m, NEW g, CreateGroup(m, g)
      PROVE  \/ HasSystemGroup(ns)' \/ ns \in abandoned'
             \/ \E p \in Operators : \/ pc'[p] = "createDefaults" /\ job'[p].ns = ns
                                     \/ pc'[p] = "createPublicGroup" /\ ns = Public
  BY <1>0, <1>1, <1>4 DEF CreateGroup
<1>5. CASE UNCHANGED vars
  BY <1>0, <1>5 DEF vars, tables, HasSystemGroup
<1> QED
  BY <1>2, <1>3, <1>4, <1>5 DEF Next

-----------------------------------------------------------------------------
\* What the two candidates of assertKeyFormat compare: every item of the public
\* layer, or of the namespace layer, above the job's.
LEMMA PublicCompared ==
  ASSUME LayersOK, NEW j, FormatFits(j, Public, Public),
         NEW u \in items, Above(u, j), u.layer = "public"
  PROVE  u.format = j.format
<1>1. u.ns = Public /\ u.group = Public /\ u.key = j.key
  BY DEF LayersOK, Layer, Above
<1>2. <<j.ns, j.group>> # <<Public, Public>>
  BY DEF Above
<1> QED
  BY <1>1, <1>2 DEF FormatFits, ItemsByKey, ItemsIn

LEMMA DefaultsCompared ==
  ASSUME LayersOK, NEW j, FormatFits(j, j.ns, Defaults),
         NEW u \in items, Above(u, j), u.layer = "namespace"
  PROVE  u.format = j.format
<1>1. u.group = Defaults /\ u.ns = j.ns /\ u.key = j.key /\ Layer(j.ns, j.group) = "group"
  BY DEF LayersOK, Layer, Above
<1>2. j.group # Defaults
  BY <1>1 DEF Layer, Public, Defaults
<1> QED
  BY <1>1, <1>2 DEF FormatFits, ItemsByKey, ItemsIn

\* What a handler has still to compare stays there.
LEMMA FormatsKept ==
  ASSUME NEW p \in Operators, FormatsOK(p), items \subseteq items',
         pc'[p] = pc[p], job'[p] = job[p]
  PROVE  FormatsOK(p)'
BY DEF FormatsOK

\* Every step keeps the formats of a key in order.
LEMMA FormatsStep ==
  TypeOK /\ LayersOK /\ LaterLayersFollowFormat /\ (\A o \in Operators : FormatsOK(o)) /\ [Next]_vars
    => LayersOK' /\ LaterLayersFollowFormat' /\ (\A o \in Operators : FormatsOK(o)')
<1> SUFFICES ASSUME TypeOK, LayersOK, LaterLayersFollowFormat,
                    \A o \in Operators : FormatsOK(o), [Next]_vars
             PROVE  /\ LayersOK' /\ LaterLayersFollowFormat'
                    /\ \A o \in Operators : FormatsOK(o)'
  OBVIOUS
<1>1. ASSUME items' = items PROVE LayersOK' /\ LaterLayersFollowFormat'
  BY <1>1 DEF LayersOK, LaterLayersFollowFormat
<1>2. ASSUME UNCHANGED <<items, pc, job>>
      PROVE  LayersOK' /\ LaterLayersFollowFormat' /\ \A o \in Operators : FormatsOK(o)'
  BY <1>1, <1>2, FormatsKept
<1>3. ASSUME NEW o \in Operators, OperatorStep(o)
      PROVE  LayersOK' /\ LaterLayersFollowFormat' /\ \A p \in Operators : FormatsOK(p)'
  <2>1. ASSUME NEW l, NEW j, Continue(o, l, j)
        PROVE  /\ pc'[o] = l /\ job'[o] = j
               /\ \A p \in Operators : p # o => pc'[p] = pc[p] /\ job'[p] = job[p]
    BY <2>1 DEF Continue, TypeOK
  <2>2. ASSUME items \subseteq items', FormatsOK(o)', NEW l, NEW j, Continue(o, l, j)
        PROVE  \A p \in Operators : FormatsOK(p)'
    BY <2>1, <2>2, FormatsKept
  <2>3. ASSUME pc'[o] \notin {"checkPublic", "checkDefaults", "createItem"}
        PROVE  FormatsOK(o)'
    BY <2>3 DEF FormatsOK
  <2>4. FormatsOK(o)
    OBVIOUS
  <2>5. CASE CountItems(o)
    <3>1. items' = items
      BY <2>5 DEF CountItems, OnlyLocal, tables
    <3>2. CASE ItemFits(job[o])
      <4> DEFINE f == {u.format : u \in {x \in items : Above(x, job[o])}}
                 k == [job[o] EXCEPT !.max = 0, !.over = f]
      <4>1. Continue(o, "checkPublic", k)
        BY <2>5, <3>2 DEF CountItems
      <4>2. /\ f \in SUBSET (Formats \union {""}) /\ job[o] \in JobType
        BY OverType DEF TypeOK
      <4>3. k.ns = job[o].ns /\ k.group = job[o].group /\ k.key = job[o].key /\ k.over = f
        <5> HIDE DEF f
        <5> QED
          BY <4>2 DEF JobType
      <4>4. pc'[o] = "checkPublic" /\ job'[o] = k
        BY <2>1, <4>1
      <4>5. \A u : Above(u, job[o]) => Above(u, k) /\ u.layer \in {"public", "namespace"}
        <5> HIDE DEF k
        <5> QED
          BY <4>3 DEF Above
      <4>6. f \subseteq {u.format : u \in {x \in items : Above(x, k) /\ x.layer \in {"public", "namespace"}}}
        <5> HIDE DEF k
        <5> QED
          BY <4>5
      <4>7. FormatsOK(o)'
        <5> HIDE DEF k, f
        <5> QED
          BY <3>1, <4>3, <4>4, <4>6 DEF FormatsOK
      <4> QED
        BY <1>1, <2>2, <3>1, <4>1, <4>7
    <3>3. CASE ~ItemFits(job[o])
      <4>1. Continue(o, "idle", NoJob)
        BY <2>5, <3>3 DEF CountItems, Return
      <4> QED
        BY <1>1, <2>1, <2>2, <2>3, <3>1, <4>1
    <3> QED
      BY <3>2, <3>3
  <2>6. CASE CheckPublic(o)
    <3>1. items' = items
      BY <2>6 DEF CheckPublic, OnlyLocal, tables
    <3>2. CASE FormatFits(job[o], Public, Public)
      <4>1. Continue(o, "checkDefaults", job[o]) /\ pc[o] = "checkPublic"
        BY <2>6, <3>2 DEF CheckPublic
      <4>2. pc'[o] = "checkDefaults" /\ job'[o] = job[o]
        BY <2>1, <4>1
      <4>3. FormatsOK(o)'
        BY <2>4, <3>1, <3>2, <4>1, <4>2, PublicCompared DEF FormatsOK
      <4> QED
        BY <1>1, <2>2, <3>1, <4>1, <4>3
    <3>3. CASE ~FormatFits(job[o], Public, Public)
      <4>1. Continue(o, "idle", NoJob)
        BY <2>6, <3>3 DEF CheckPublic, Return
      <4> QED
        BY <1>1, <2>1, <2>2, <2>3, <3>1, <4>1
    <3> QED
      BY <3>2, <3>3
  <2>7. CASE CheckDefaults(o)
    <3>1. items' = items
      BY <2>7 DEF CheckDefaults, OnlyLocal, tables
    <3>2. CASE FormatFits(job[o], job[o].ns, Defaults)
      <4>1. Continue(o, "createItem", job[o]) /\ pc[o] = "checkDefaults"
        BY <2>7, <3>2 DEF CheckDefaults
      <4>2. pc'[o] = "createItem" /\ job'[o] = job[o]
        BY <2>1, <4>1
      <4>3. FormatsOK(o)'
        BY <2>4, <3>1, <3>2, <4>1, <4>2, DefaultsCompared DEF FormatsOK
      <4> QED
        BY <1>1, <2>2, <3>1, <4>1, <4>3
    <3>3. CASE ~FormatFits(job[o], job[o].ns, Defaults)
      <4>1. Continue(o, "idle", NoJob)
        BY <2>7, <3>3 DEF CheckDefaults, Return
      <4> QED
        BY <1>1, <2>1, <2>2, <2>3, <3>1, <4>1
    <3> QED
      BY <3>2, <3>3
  <2>8. CASE InsertItem(o)
    <3>1. items' \in {items, items \union {Item(job[o])}} /\ pc[o] = "createItem"
      BY <2>8 DEF InsertItem
    <3>2. Continue(o, "idle", NoJob)
      BY <2>8 DEF InsertItem, Return
    <3>3. job[o] \in JobType /\ job[o].over \subseteq {job[o].format}
      BY <2>4, <3>1 DEF TypeOK, FormatsOK
    <3>4. LayersOK' /\ LaterLayersFollowFormat'
      BY <3>1, <3>3, ItemOfJob DEF LayersOK, LaterLayersFollowFormat
    <3> QED
      BY <2>1, <2>2, <2>3, <3>1, <3>2, <3>4
  <2>9. CASE \/ \E q \in Quotas : CreateTenant(o, q)
             \/ \E ns \in Namespaces \union {Public} : StartCreateNamespace(o, ns)
             \/ \E c \in {x \in groups : x[1] \in Busy}, key \in Keys, f \in Formats :
                  StartCreateItem(o, c[1], c[2], key, f)
             \/ CreatePublicNamespace(o) \/ CreatePublicGroup(o) \/ CountNamespaces(o)
             \/ CreateNamespace(o) \/ CreateDefaults(o) \/ Stop(o)
    <3>1. /\ items' = items
          /\ \E l \in Labels \ {"checkPublic", "checkDefaults", "createItem"} : \E j : Continue(o, l, j)
      BY <2>9 DEF CreateTenant, StartCreateNamespace, StartCreateItem, CreatePublicNamespace,
             CreatePublicGroup, CountNamespaces, CreateNamespace, CreateDefaults, Stop, Return,
             OnlyLocal, tables, Labels
    <3> QED
      BY <1>1, <2>1, <2>2, <2>3, <3>1
  <2> QED
    BY <1>3, <2>5, <2>6, <2>7, <2>8, <2>9 DEF OperatorStep
<1>4. CASE \/ \E q \in Quotas : UpdateQuota(q)
           \/ \E ns \in Busy : \E g \in IF ns = Public THEN {Public} ELSE Groups \union {Defaults} :
                CreateGroup(ns, g)
           \/ UNCHANGED vars
  BY <1>2, <1>4 DEF UpdateQuota, CreateGroup, vars, tables
<1> QED
  BY <1>3, <1>4 DEF Next

-----------------------------------------------------------------------------
\* A step of the handler of o leaves the state of the others.
OthersStay(o) == \A p \in Operators : p # o => pc'[p] = pc[p] /\ job'[p] = job[p]

\* Handlers are finitely many.
LEMMA SetsOfOperators ==
  ASSUME NEW S \in SUBSET Operators
  PROVE  /\ IsFiniteSet(S) /\ Cardinality(S) \in Nat /\ Cardinality(Operators) \in Nat
         /\ Cardinality(S) <= Cardinality(Operators) /\ Cardinality(Operators) >= 1
<1> USE ProvisioningAssumption
<1>1. IsFiniteSet(S) /\ Cardinality(S) <= Cardinality(Operators)
  BY FS_Subset
<1>2. Cardinality(S) \in Nat /\ Cardinality(Operators) \in Nat
  BY <1>1, FS_CardinalityType
<1>3. Cardinality(Operators) # 0
  BY FS_EmptySet
<1> QED
  BY <1>1, <1>2, <1>3

\* The items of a container, and the namespaces of its own a tenant has, are
\* finitely many.
LEMMA CountsAreNatural ==
  ASSUME TypeOK, NEW ns, NEW g
  PROVE  /\ IsFiniteSet(ItemsIn(ns, g)) /\ Cardinality(ItemsIn(ns, g)) \in Nat
         /\ IsFiniteSet(namespaces \ {Public}) /\ Cardinality(namespaces \ {Public}) \in Nat
<1>1. ItemsIn(ns, g) \in SUBSET items /\ IsFiniteSet(items) /\ IsFiniteSet(namespaces)
  BY DEF ItemsIn, TypeOK
<1>2. IsFiniteSet(ItemsIn(ns, g)) /\ IsFiniteSet(namespaces \ {Public})
  BY <1>1, FS_Subset, FS_RemoveElement
<1> QED
  BY <1>2, FS_CardinalityType

\* The namespaces' part of QuotaOK: the handler of o goes on to insert only
\* after it has counted few enough of them, and stops being about to insert
\* when it adds one.
LEMMA NamespaceQuota ==
  ASSUME TypeOK, TypeOK', QuotaOK, NEW o \in Operators, OthersStay(o),
         peak.maxNamespaces <= peak'.maxNamespaces,
         \/ /\ pc'[o] # "createNamespace"
            /\ \/ namespaces' \in {namespaces, namespaces \union {Public}}
               \/ pc[o] = "createNamespace" /\ \E ns : namespaces' = namespaces \union {ns}
         \/ Cardinality(namespaces' \ {Public}) <= peak'.maxNamespaces
  PROVE  Cardinality(namespaces' \ {Public}) + Cardinality(MayAddNamespace')
           <= peak'.maxNamespaces + Cardinality(Operators)
<1> DEFINE S == namespaces \ {Public}
           M == MayAddNamespace
<1>1. M \in SUBSET Operators /\ M' \in SUBSET Operators
  BY DEF MayAddNamespace
<1>2. /\ IsFiniteSet(M) /\ Cardinality(M) \in Nat /\ Cardinality(M') \in Nat
      /\ Cardinality(Operators) \in Nat /\ Cardinality(M') <= Cardinality(Operators)
  BY <1>1, SetsOfOperators
<1>3. /\ IsFiniteSet(S) /\ Cardinality(S) \in Nat
  BY CountsAreNatural
<1>4. Cardinality(S') \in Nat
  <2>1. IsFiniteSet(namespaces')
    BY DEF TypeOK
  <2> QED
    BY <2>1, FS_RemoveElement, FS_CardinalityType
<1>5. peak.maxNamespaces \in Nat /\ peak'.maxNamespaces \in Nat
  BY DEF TypeOK
<1>6. CASE pc'[o] # "createNamespace"
  <2>1. M' = M \ {o} /\ (o \in M <=> pc[o] = "createNamespace")
    BY <1>6 DEF MayAddNamespace, OthersStay
  <2>2. Cardinality(M') = IF pc[o] = "createNamespace" THEN Cardinality(M) - 1 ELSE Cardinality(M)
    BY <1>2, <2>1, FS_RemoveElement
  <2>3. Cardinality(S) + Cardinality(M) <= peak.maxNamespaces + Cardinality(Operators)
    BY DEF QuotaOK
  <2>4. CASE namespaces' \in {namespaces, namespaces \union {Public}}
    <3>1. S' = S
      BY <2>4
    <3>2. Cardinality(S') = Cardinality(S)
      BY <3>1
    <3> QED
      BY <1>2, <1>3, <1>4, <1>5, <2>2, <2>3, <3>2
  <2>5. CASE pc[o] = "createNamespace" /\ \E ns : namespaces' = namespaces \union {ns}
    <3>1. PICK ns : namespaces' = namespaces \union {ns}
      BY <2>5
    <3>2. S' = S \/ S' = S \union {ns}
      BY <3>1
    <3>3. Cardinality(S') <= Cardinality(S) + 1
      <4> HIDE DEF S
      <4> QED
        BY <1>3, <3>2, FS_AddElement
    <3> QED
      BY <1>2, <1>3, <1>4, <1>5, <2>2, <2>3, <2>5, <3>3
  <2>6. CASE Cardinality(S') <= peak'.maxNamespaces
    BY <1>2, <1>4, <1>5, <2>6
  <2> QED
    BY <2>4, <2>5, <2>6
<1>7. CASE Cardinality(S') <= peak'.maxNamespaces
  BY <1>2, <1>4, <1>5, <1>7
<1> QED
  BY <1>6, <1>7

\* The items' part, for one container.
LEMMA ItemQuota ==
  ASSUME TypeOK, TypeOK', QuotaOK, NEW o \in Operators, OthersStay(o), NEW ns, NEW g,
         peak.maxItemsPerGroup <= peak'.maxItemsPerGroup,
         \/ /\ o \notin MayAddItem(ns, g)'
            /\ \/ ItemsIn(ns, g)' = ItemsIn(ns, g)
               \/ o \in MayAddItem(ns, g) /\ \E it : ItemsIn(ns, g)' = ItemsIn(ns, g) \union {it}
         \/ /\ o \in MayAddItem(ns, g)
            /\ ItemsIn(ns, g)' = ItemsIn(ns, g)
         \/ Cardinality(ItemsIn(ns, g)') + 1 <= peak'.maxItemsPerGroup
  PROVE  Cardinality(ItemsIn(ns, g)') + Cardinality(MayAddItem(ns, g)')
           <= peak'.maxItemsPerGroup + Cardinality(Operators) - 1
<1> DEFINE S == ItemsIn(ns, g)
           M == MayAddItem(ns, g)
<1>1. M \in SUBSET Operators /\ M' \in SUBSET Operators
  BY DEF MayAddItem
<1>2. /\ IsFiniteSet(M) /\ Cardinality(M) \in Nat /\ Cardinality(M') \in Nat
      /\ Cardinality(Operators) \in Nat /\ Cardinality(M') <= Cardinality(Operators)
  BY <1>1, SetsOfOperators
<1>3. /\ IsFiniteSet(S) /\ Cardinality(S) \in Nat
  BY CountsAreNatural
<1>4. Cardinality(S') \in Nat
  <2>1. S' \in SUBSET items' /\ IsFiniteSet(items')
    BY DEF TypeOK, ItemsIn
  <2> QED
    BY <2>1, FS_Subset, FS_CardinalityType
<1>5. peak.maxItemsPerGroup \in Nat /\ peak'.maxItemsPerGroup \in Nat
  BY DEF TypeOK
<1>6. Cardinality(S) + Cardinality(M) <= peak.maxItemsPerGroup + Cardinality(Operators) - 1
  BY DEF QuotaOK
<1>7. o \notin M' => M' = M \ {o}
  BY DEF MayAddItem, OthersStay
<1>8. M' \subseteq M \union {o}
  BY DEF MayAddItem, OthersStay
<1> HIDE DEF S, M
<1>9. CASE o \notin M' /\ S' = S
  <2>1. Cardinality(M') <= Cardinality(M)
    BY <1>2, <1>7, <1>9, FS_Subset
  <2> QED
    BY <1>2, <1>3, <1>5, <1>6, <1>9, <2>1 DEF S, M
<1>10. CASE o \notin M' /\ o \in M /\ \E it : S' = S \union {it}
  <2>1. Cardinality(M') = Cardinality(M) - 1
    BY <1>2, <1>7, <1>10, FS_RemoveElement
  <2>2. PICK it : S' = S \union {it}
    BY <1>10
  <2>3. Cardinality(S') <= Cardinality(S) + 1
    BY <1>3, <2>2, FS_AddElement
  <2> QED
    BY <1>2, <1>3, <1>4, <1>5, <1>6, <2>1, <2>3 DEF S, M
<1>11. CASE o \in M /\ S' = S
  <2>1. Cardinality(M') <= Cardinality(M)
    BY <1>2, <1>8, <1>11, FS_Subset
  <2> QED
    BY <1>2, <1>3, <1>5, <1>6, <1>11, <2>1 DEF S, M
<1>12. CASE Cardinality(S') + 1 <= peak'.maxItemsPerGroup
  BY <1>2, <1>4, <1>5, <1>12 DEF S, M
<1> QED
  BY <1>9, <1>10, <1>11, <1>12 DEF S, M

\* Few enough namespaces are counted when those of its own a tenant has are
\* below the quota.
LEMMA NamespaceFitsMeans ==
  ASSUME TypeOK, NEW max \in Int, NamespaceFits(max)
  PROVE  Cardinality(namespaces \ {Public}) <= max
<1>1. /\ IsFiniteSet(namespaces)
      /\ Cardinality(namespaces) \in Nat
  BY FS_CardinalityType DEF TypeOK
<1>2. /\ Cardinality(namespaces \ {Public}) \in Nat
      /\ Cardinality(namespaces \ {Public}) <= Cardinality(namespaces)
  BY <1>1, CountsAreNatural, FS_Subset
<1> QED
  BY <1>1, <1>2 DEF NamespaceFits, CountedNamespaces, Larger

\* Adding the item of a job changes the items of its container only.
LEMMA AddedItem ==
  ASSUME NEW j \in JobType, items' = items \union {Item(j)}, NEW ns, NEW g
  PROVE  ItemsIn(ns, g)' = IF j.ns = ns /\ j.group = g THEN ItemsIn(ns, g) \union {Item(j)}
                                                       ELSE ItemsIn(ns, g)
<1>1. Item(j).ns = j.ns /\ Item(j).group = j.group
  BY ItemOfJob
<1> HIDE DEF Item
<1> QED
  BY <1>1 DEF ItemsIn

\* Every step keeps the overshoot of the quotas within its bound.
LEMMA QuotaStep == TypeOK /\ TypeOK' /\ PeakOK /\ QuotaOK /\ [Next]_vars => QuotaOK'
<1> SUFFICES ASSUME TypeOK, TypeOK', PeakOK, QuotaOK, [Next]_vars PROVE QuotaOK'
  OBVIOUS
<1>2. ASSUME UNCHANGED <<namespaces, items, pc, job>>,
             peak.maxNamespaces <= peak'.maxNamespaces,
             peak.maxItemsPerGroup <= peak'.maxItemsPerGroup
      PROVE  QuotaOK'
  <2>1. /\ peak.maxNamespaces \in Nat /\ peak.maxItemsPerGroup \in Nat
        /\ peak'.maxNamespaces \in Nat /\ peak'.maxItemsPerGroup \in Nat
    BY DEF TypeOK
  <2>2. Cardinality(MayAddNamespace) \in Nat /\ Cardinality(Operators) \in Nat
    BY SetsOfOperators DEF MayAddNamespace
  <2>3. Cardinality(namespaces \ {Public}) \in Nat
    BY CountsAreNatural
  <2>4. /\ Cardinality(namespaces' \ {Public}) = Cardinality(namespaces \ {Public})
        /\ Cardinality(MayAddNamespace') = Cardinality(MayAddNamespace)
    BY <1>2 DEF MayAddNamespace
  <2>5. Cardinality(namespaces \ {Public}) + Cardinality(MayAddNamespace)
          <= peak.maxNamespaces + Cardinality(Operators)
    BY DEF QuotaOK
  <2>6. Cardinality(namespaces' \ {Public}) + Cardinality(MayAddNamespace')
          <= peak'.maxNamespaces + Cardinality(Operators)
    BY <1>2, <2>1, <2>2, <2>3, <2>4, <2>5
  <2>7. ASSUME NEW ns, NEW g
        PROVE  Cardinality(ItemsIn(ns, g)') + Cardinality(MayAddItem(ns, g)')
                 <= peak'.maxItemsPerGroup + Cardinality(Operators) - 1
    <3>1. Cardinality(MayAddItem(ns, g)) \in Nat
      BY SetsOfOperators DEF MayAddItem
    <3>2. Cardinality(ItemsIn(ns, g)) \in Nat
      BY CountsAreNatural
    <3>3. /\ Cardinality(ItemsIn(ns, g)') = Cardinality(ItemsIn(ns, g))
          /\ Cardinality(MayAddItem(ns, g)') = Cardinality(MayAddItem(ns, g))
      BY <1>2 DEF MayAddItem, ItemsIn
    <3>4. Cardinality(ItemsIn(ns, g)) + Cardinality(MayAddItem(ns, g))
            <= peak.maxItemsPerGroup + Cardinality(Operators) - 1
      BY DEF QuotaOK
    <3> QED
      BY <1>2, <2>1, <2>2, <3>1, <3>2, <3>3, <3>4
  <2> QED
    BY <2>6, <2>7 DEF QuotaOK
<1>3. ASSUME NEW o \in Operators, OperatorStep(o) PROVE QuotaOK'
  <2>1. ASSUME NEW l, NEW j, Continue(o, l, j)
        PROVE  pc'[o] = l /\ job'[o] = j /\ OthersStay(o)
    BY <2>1 DEF Continue, TypeOK, OthersStay
  <2>2. job[o] \in JobType /\ job[o].max \in Int
    BY DEF TypeOK, JobType
  <2>3. /\ peak.maxNamespaces \in Nat /\ peak.maxItemsPerGroup \in Nat
        /\ peak'.maxNamespaces \in Nat /\ peak'.maxItemsPerGroup \in Nat
    BY DEF TypeOK
  <2>4. OthersStay(o)
    BY <1>3, <2>1 DEF OperatorStep, CreateTenant, StartCreateNamespace, StartCreateItem,
           CreatePublicNamespace, CreatePublicGroup, CountNamespaces, CreateNamespace,
           CreateDefaults, CountItems, CheckPublic, CheckDefaults, InsertItem, Stop, Return
  <2>5. /\ peak.maxNamespaces <= peak'.maxNamespaces
        /\ peak.maxItemsPerGroup <= peak'.maxItemsPerGroup
    <3>1. ASSUME NEW q \in Quotas, CreateTenant(o, q)
          PROVE  /\ peak.maxNamespaces <= peak'.maxNamespaces
                 /\ peak.maxItemsPerGroup <= peak'.maxItemsPerGroup
      BY <3>1, SetQuotaEffect DEF CreateTenant
    <3>2. CASE peak' = peak
      BY <2>3, <3>2
    <3> QED
      BY <1>3, <3>1, <3>2 DEF OperatorStep, StartCreateNamespace, StartCreateItem,
           CreatePublicNamespace, CreatePublicGroup, CountNamespaces, CreateNamespace,
           CreateDefaults, CountItems, CheckPublic, CheckDefaults, InsertItem, Stop,
           OnlyLocal, tables
  \* What the step does to the namespaces.
  <2>6. \/ /\ pc'[o] # "createNamespace"
           /\ \/ namespaces' \in {namespaces, namespaces \union {Public}}
              \/ pc[o] = "createNamespace" /\ \E ns : namespaces' = namespaces \union {ns}
        \/ Cardinality(namespaces' \ {Public}) <= peak'.maxNamespaces
    <3>1. CASE CountNamespaces(o)
      <4>1. namespaces' = namespaces /\ peak' = peak /\ pc[o] = "countNamespaces"
        BY <3>1 DEF CountNamespaces, OnlyLocal, tables
      <4>2. CASE NamespaceFits(job[o].max)
        <5>1. /\ Cardinality(namespaces \ {Public}) <= job[o].max
              /\ job[o].max <= peak.maxNamespaces
              /\ Cardinality(namespaces \ {Public}) \in Nat
          BY <2>2, <4>1, <4>2, NamespaceFitsMeans, CountsAreNatural DEF PeakOK
        <5> QED
          BY <2>2, <2>3, <4>1, <5>1
      <4>3. CASE ~NamespaceFits(job[o].max)
        BY <2>1, <3>1, <4>1, <4>3 DEF CountNamespaces, Return
      <4> QED
        BY <4>2, <4>3
    <3>2. CASE CreateNamespace(o) \/ CreatePublicNamespace(o)
      <4>1. pc'[o] \in {"idle", "createDefaults", "createPublicGroup"}
        BY <2>1, <3>2 DEF CreateNamespace, CreatePublicNamespace, Return
      <4>2. \/ namespaces' = namespaces \union {Public}
            \/ pc[o] = "createNamespace" /\ namespaces' = namespaces \union {job[o].ns}
        BY <3>2 DEF CreateNamespace, CreatePublicNamespace, AddNamespace
      <4> QED
        BY <4>1, <4>2
    <3>3. CASE \/ \E q \in Quotas : CreateTenant(o, q)
               \/ \E ns \in Namespaces \union {Public} : StartCreateNamespace(o, ns)
               \/ \E c \in {x \in groups : x[1] \in Busy}, key \in Keys, f \in Formats :
                    StartCreateItem(o, c[1], c[2], key, f)
               \/ CreatePublicGroup(o) \/ CreateDefaults(o) \/ CountItems(o) \/ CheckPublic(o)
               \/ CheckDefaults(o) \/ InsertItem(o) \/ Stop(o)
      <4>1. /\ namespaces' = namespaces
            /\ \E l \in Labels \ {"createNamespace"} : \E j : Continue(o, l, j)
        BY <3>3 DEF CreateTenant, StartCreateNamespace, StartCreateItem, CreatePublicGroup,
             CreateDefaults, CountItems, CheckPublic, CheckDefaults, InsertItem, Stop, Return,
             OnlyLocal, tables, Labels
      <4> QED
        BY <2>1, <4>1
    <3> QED
      BY <1>3, <3>1, <3>2, <3>3 DEF OperatorStep
  \* What it does to the items of a container.
  <2>7. ASSUME NEW ns, NEW g
        PROVE  \/ /\ o \notin MayAddItem(ns, g)'
                  /\ \/ ItemsIn(ns, g)' = ItemsIn(ns, g)
                     \/ /\ o \in MayAddItem(ns, g)
                        /\ \E it : ItemsIn(ns, g)' = ItemsIn(ns, g) \union {it}
               \/ /\ o \in MayAddItem(ns, g)
                  /\ ItemsIn(ns, g)' = ItemsIn(ns, g)
               \/ Cardinality(ItemsIn(ns, g)') + 1 <= peak'.maxItemsPerGroup
    <3>0. ASSUME items' = items PROVE ItemsIn(ns, g)' = ItemsIn(ns, g)
      BY <3>0 DEF ItemsIn
    <3>1. CASE CountItems(o)
      <4>1. items' = items /\ peak' = peak /\ pc[o] = "countItems"
        BY <3>1 DEF CountItems, OnlyLocal, tables
      <4>2. CASE ItemFits(job[o]) /\ job[o].ns = ns /\ job[o].group = g
        <5>1. /\ Cardinality(ItemsIn(ns, g)) + 1 <= job[o].max
              /\ job[o].max <= peak.maxItemsPerGroup
              /\ Cardinality(ItemsIn(ns, g)) \in Nat
          BY <4>1, <4>2, CountsAreNatural DEF PeakOK, ItemFits
        <5> QED
          BY <2>2, <2>3, <3>0, <4>1, <5>1
      <4>3. CASE ItemFits(job[o]) /\ ~(job[o].ns = ns /\ job[o].group = g)
        <5> DEFINE f == {u.format : u \in {x \in items : Above(x, job[o])}}
                   k == [job[o] EXCEPT !.max = 0, !.over = f]
        <5>1. Continue(o, "checkPublic", k)
          BY <3>1, <4>3 DEF CountItems
        <5>2. k.ns = job[o].ns /\ k.group = job[o].group
          BY <2>2 DEF JobType
        <5>3. job'[o] = k
          BY <2>1, <5>1
        <5> HIDE DEF k
        <5> QED
          BY <3>0, <4>1, <4>3, <5>2, <5>3 DEF MayAddItem
      <4>4. CASE ~ItemFits(job[o])
        BY <2>1, <3>0, <3>1, <4>1, <4>4 DEF CountItems, Return, MayAddItem
      <4> QED
        BY <4>2, <4>3, <4>4
    <3>2. CASE CheckPublic(o) \/ CheckDefaults(o)
      <4>1. /\ items' = items /\ pc[o] \in {"checkPublic", "checkDefaults"}
            /\ \/ pc'[o] \in {"checkDefaults", "createItem"} /\ job'[o] = job[o]
               \/ pc'[o] = "idle"
        BY <2>1, <3>2 DEF CheckPublic, CheckDefaults, OnlyLocal, tables, Return
      <4> QED
        BY <3>0, <4>1 DEF MayAddItem
    <3>3. CASE InsertItem(o)
      <4>1. /\ items' = items \/ items' = items \union {Item(job[o])}
            /\ pc[o] = "createItem" /\ pc'[o] = "idle"
        BY <2>1, <3>3 DEF InsertItem, Return
      <4> QED
        BY <2>2, <3>0, <4>1, AddedItem DEF MayAddItem
    <3>4. CASE \/ \E q \in Quotas : CreateTenant(o, q)
               \/ \E m \in Namespaces \union {Public} : StartCreateNamespace(o, m)
               \/ \E c \in {x \in groups : x[1] \in Busy}, key \in Keys, f \in Formats :
                    StartCreateItem(o, c[1], c[2], key, f)
               \/ CreatePublicNamespace(o) \/ CreatePublicGroup(o) \/ CountNamespaces(o)
               \/ CreateNamespace(o) \/ CreateDefaults(o) \/ Stop(o)
      <4>1. /\ items' = items
            /\ \E l \in Labels \ {"checkPublic", "checkDefaults", "createItem"} : \E j : Continue(o, l, j)
        BY <3>4 DEF CreateTenant, StartCreateNamespace, StartCreateItem, CreatePublicNamespace,
             CreatePublicGroup, CountNamespaces, CreateNamespace, CreateDefaults, Stop, Return,
             OnlyLocal, tables, Labels
      <4> QED
        BY <2>1, <3>0, <4>1 DEF MayAddItem
    <3> QED
      BY <1>3, <3>1, <3>2, <3>3, <3>4 DEF OperatorStep
  <2>8. Cardinality(namespaces' \ {Public}) + Cardinality(MayAddNamespace')
          <= peak'.maxNamespaces + Cardinality(Operators)
    BY <2>4, <2>5, <2>6, NamespaceQuota
  <2>9. ASSUME NEW ns, NEW g
        PROVE  Cardinality(ItemsIn(ns, g)') + Cardinality(MayAddItem(ns, g)')
                 <= peak'.maxItemsPerGroup + Cardinality(Operators) - 1
    BY <2>4, <2>5, <2>7, ItemQuota
  <2> QED
    BY <2>8, <2>9 DEF QuotaOK
<1>4. ASSUME NEW q \in Quotas, UpdateQuota(q) PROVE QuotaOK'
  BY <1>2, <1>4, SetQuotaEffect DEF UpdateQuota
<1>5. CASE \/ \E ns \in Busy : \E g \in IF ns = Public THEN {Public} ELSE Groups \union {Defaults} :
                CreateGroup(ns, g)
           \/ UNCHANGED vars
  <2>1. UNCHANGED <<namespaces, items, pc, job, peak>>
    BY <1>5 DEF CreateGroup, vars, tables
  <2>2. peak.maxNamespaces \in Nat /\ peak.maxItemsPerGroup \in Nat
    BY DEF TypeOK
  <2> QED
    BY <1>2, <2>1, <2>2
<1> QED
  BY <1>3, <1>4, <1>5 DEF Next

-----------------------------------------------------------------------------
\* The invariant holds initially.
LEMMA InitInv == Init => ProvisioningInv
<1> SUFFICES ASSUME Init PROVE ProvisioningInv
  OBVIOUS
<1>1. TypeOK
  BY NoJobType, FS_EmptySet DEF Init, TypeOK, Named, Labels
<1>2. PeakOK /\ ContainersComplete /\ LayersOK /\ LaterLayersFollowFormat
  BY DEF Init, PeakOK, ContainersComplete, LayersOK, LaterLayersFollowFormat
<1>3. \A o \in Operators : FormatsOK(o)
  BY DEF Init, FormatsOK
<1>4. QuotaOK
  <2>1. /\ namespaces \ {Public} = {} /\ MayAddNamespace = {}
        /\ \A ns, g : ItemsIn(ns, g) = {} /\ MayAddItem(ns, g) = {}
        /\ peak.maxNamespaces = 0 /\ peak.maxItemsPerGroup = 0
    BY DEF Init, MayAddNamespace, ItemsIn, MayAddItem
  <2>2. Cardinality({}) = 0 /\ Cardinality(Operators) \in Nat /\ Cardinality(Operators) >= 1
    BY FS_EmptySet, SetsOfOperators
  <2>3. /\ Cardinality(namespaces \ {Public}) = 0 /\ Cardinality(MayAddNamespace) = 0
        /\ \A ns, g : Cardinality(ItemsIn(ns, g)) = 0 /\ Cardinality(MayAddItem(ns, g)) = 0
    BY <2>1, <2>2
  <2> QED
    BY <2>1, <2>2, <2>3 DEF QuotaOK
<1> QED
  BY <1>1, <1>2, <1>3, <1>4 DEF ProvisioningInv

\* Every step keeps the invariant.
LEMMA StepInv == ProvisioningInv /\ [Next]_vars => ProvisioningInv'
BY TypeStep, PeakStep, ContainersStep, FormatsStep, QuotaStep DEF ProvisioningInv

\* The inductive invariant holds for any number of concurrent requests.
THEOREM ProvisioningInvariant == Spec => []ProvisioningInv
BY InitInv, StepInv, PTL DEF Spec

\* However many requests count before any of them inserts, a tenant exceeds
\* the quota of items by less than the number of requests at work, and that of
\* namespaces by no more than it (service.go:98-130, 166-222).
THEOREM OvershootAlwaysBounded == Spec => []QuotaOvershootBounded
<1>1. ProvisioningInv => QuotaOvershootBounded
  <2> SUFFICES ASSUME ProvisioningInv PROVE QuotaOvershootBounded
    OBVIOUS
  <2>1. TypeOK /\ QuotaOK
    BY DEF ProvisioningInv
  <2>2. peak.maxNamespaces \in Nat /\ peak.maxItemsPerGroup \in Nat
    BY <2>1 DEF TypeOK
  <2>3. Cardinality(MayAddNamespace) \in Nat /\ Cardinality(Operators) \in Nat
    BY SetsOfOperators DEF MayAddNamespace
  <2>4. Cardinality(namespaces \ {Public}) \in Nat
    BY <2>1, CountsAreNatural
  <2>5. Cardinality(namespaces \ {Public}) <= peak.maxNamespaces + Cardinality(Operators)
    BY <2>1, <2>2, <2>3, <2>4 DEF QuotaOK
  <2>6. ASSUME NEW c \in groups
        PROVE  Cardinality(ItemsIn(c[1], c[2])) <= peak.maxItemsPerGroup + Cardinality(Operators) - 1
    <3>1. Cardinality(MayAddItem(c[1], c[2])) \in Nat
      BY SetsOfOperators DEF MayAddItem
    <3>2. Cardinality(ItemsIn(c[1], c[2])) \in Nat
      BY <2>1, CountsAreNatural
    <3> QED
      BY <2>1, <2>2, <2>3, <3>1, <3>2 DEF QuotaOK
  <2> QED
    BY <2>5, <2>6 DEF QuotaOvershootBounded
<1> QED
  BY <1>1, ProvisioningInvariant, PTL

\* A namespace without its system group was left so by a handler that stopped,
\* or is still being made (service.go:77-85, 121-130).
THEOREM ContainersAlwaysComplete == Spec => []ContainersComplete
<1>1. ProvisioningInv => ContainersComplete
  BY DEF ProvisioningInv
<1> QED
  BY <1>1, ProvisioningInvariant, PTL

\* No item gets another format than an item of a weaker layer already had when
\* its handler began to look (service.go:195-198, assertKeyFormat).
THEOREM FormatAlwaysFollowed == Spec => []LaterLayersFollowFormat
<1>1. ProvisioningInv => LaterLayersFollowFormat
  BY DEF ProvisioningInv
<1> QED
  BY <1>1, ProvisioningInvariant, PTL
=============================================================================
