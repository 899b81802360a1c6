---------------------------- MODULE Provisioning ----------------------------
(***************************************************************************)
(* How a tenant's containers and keys come to be: CreateTenant,             *)
(* UpdateQuota, CreateNamespace, CreateGroup and CreateItem                 *)
(* (service/service.go) over the store's tables.                            *)
(*                                                                         *)
(* The service counts, compares and inserts in separate store calls; the    *)
(* handlers of concurrent requests interleave between them and may stop at  *)
(* any of them.  Nothing is ever deleted: a lookup that only asks whether a *)
(* namespace or a group exists is therefore taken together with the call    *)
(* that follows it (what it would have missed is a handler that stops).     *)
(* One tenant is modelled: every table is keyed by the tenant.              *)
(***************************************************************************)
EXTENDS Integers, FiniteSets

CONSTANTS
  Operators,    \* workers that execute one request after the other
  Namespaces,   \* ids of business namespaces
  Groups,       \* ids of business groups
  Keys,         \* keys of items
  Formats,      \* formats of items
  Quotas,       \* the quotas a tenant may be given
  NoTenant,
  Busy,         \* the namespaces asked for groups and items (a bound)
  MaxItems      \* bound on the number of items in all

Public   == "_public"     \* domain.PublicNamespaceID
Defaults == "_defaults"   \* domain.DefaultGroupID

ASSUME ProvisioningAssumption ==
  /\ IsFiniteSet(Operators) /\ Operators # {}
  /\ {Public, Defaults} \intersect (Namespaces \union Groups) = {}
  /\ \A q \in Quotas : q.maxNamespaces \in Int /\ q.maxItemsPerGroup \in Int
  /\ Busy \subseteq Namespaces \union {Public}
  /\ MaxItems \in Nat

VARIABLES
  tenant,       \* the tenant's quotas, or NoTenant
  namespaces,   \* ids of its namespaces
  groups,       \* its groups, each with its namespace
  items,        \* its items
  pc,           \* pc[o]: the store call operator o makes next
  job,          \* job[o]: the request and the values its handler holds
  peak,         \* history variable: the largest quotas the tenant ever had
  abandoned     \* history variable: the namespaces whose creator stopped early
                \* and that have had no group of their own since

tables == <<tenant, namespaces, groups, items>>
vars   == <<tables, pc, job, peak, abandoned>>

\* max is the quota read; over, a history variable, the formats weaker layers
\* had for the item's key when the handler began to look
NoJob == [ns |-> "", group |-> "", key |-> "", format |-> "", max |-> 0, over |-> {}]

Init ==
  /\ tenant = NoTenant /\ namespaces = {} /\ groups = {} /\ items = {}
  /\ pc  = [o \in Operators |-> "idle"]
  /\ job = [o \in Operators |-> NoJob]
  /\ peak = [maxNamespaces |-> 0, maxItemsPerGroup |-> 0]
  /\ abandoned = {}

Continue(o, l, j) ==
  /\ pc'  = [pc EXCEPT ![o] = l]
  /\ job' = [job EXCEPT ![o] = j]

\* The handler of o returns, with an error or because it is finished.
Return(o) == Continue(o, "idle", NoJob)

OnlyLocal == UNCHANGED <<tables, peak, abandoned>>

Larger(a, b) == IF a > b THEN a ELSE b

\* The tenant's quotas become q.
SetQuota(q) ==
  /\ tenant' = q
  /\ peak' = [f \in DOMAIN peak |-> Larger(peak[f], q[f])]

\* The store's CreateGroup; a group that exists is left as it is.
AddGroup(ns, g) ==
  /\ groups' = groups \union {<<ns, g>>}
  /\ abandoned' = IF g \in {Public, Defaults} THEN abandoned \ {ns} ELSE abandoned

\* The store's CreateNamespace.
AddNamespace(ns) == namespaces' = namespaces \union {ns}

HasSystemGroup(ns) == \E g \in {Public, Defaults} : <<ns, g>> \in groups

-----------------------------------------------------------------------------
\* CreateTenant; that the public namespace or group exists is no error.
CreateTenant(o, q) ==
  /\ pc[o] = "idle" /\ tenant = NoTenant
  /\ SetQuota(q)
  /\ Continue(o, "createPublicNamespace", NoJob)
  /\ UNCHANGED <<namespaces, groups, items, abandoned>>

CreatePublicNamespace(o) ==
  /\ pc[o] = "createPublicNamespace"
  /\ AddNamespace(Public)
  /\ Continue(o, "createPublicGroup", NoJob)
  /\ UNCHANGED <<tenant, groups, items, peak, abandoned>>

CreatePublicGroup(o) ==
  /\ pc[o] = "createPublicGroup"
  /\ AddGroup(Public, Public)
  /\ Return(o)
  /\ UNCHANGED <<tenant, namespaces, items, peak>>

UpdateQuota(q) ==
  /\ tenant # NoTenant
  /\ SetQuota(q)
  /\ UNCHANGED <<namespaces, groups, items, pc, job, abandoned>>

-----------------------------------------------------------------------------
\* CreateNamespace reads the quota, counts, and inserts.
StartCreateNamespace(o, ns) ==
  /\ pc[o] = "idle" /\ tenant # NoTenant
  /\ Continue(o, "countNamespaces", [NoJob EXCEPT !.ns = ns, !.max = tenant.maxNamespaces])
  /\ OnlyLocal

CountedNamespaces == Cardinality(namespaces)

\* The public namespace is taken off, whether it is there yet or not.
NamespaceFits(max) ==
  Larger(CountedNamespaces - 1, 0) + 1 <= max

CountNamespaces(o) ==
  /\ pc[o] = "countNamespaces"
  /\ IF NamespaceFits(job[o].max)
     THEN Continue(o, "createNamespace", [job[o] EXCEPT !.max = 0])
     ELSE Return(o)
  /\ OnlyLocal

\* wrong: the handler ends with the namespace
CreateNamespaceOnly(o) ==
  /\ pc[o] = "createNamespace"
  /\ AddNamespace(job[o].ns)
  /\ Return(o)
  /\ UNCHANGED <<tenant, groups, items, peak, abandoned>>

CreateNamespace(o) ==
  /\ pc[o] = "createNamespace"
  /\ AddNamespace(job[o].ns)
  /\ IF job[o].ns \in namespaces
     THEN Return(o)                               \* ErrDuplicate
     ELSE Continue(o, "createDefaults", job[o])
  /\ UNCHANGED <<tenant, groups, items, peak, abandoned>>

CreateDefaults(o) ==
  /\ pc[o] = "createDefaults"
  /\ AddGroup(job[o].ns, Defaults)
  /\ Return(o)
  /\ UNCHANGED <<tenant, namespaces, items, peak>>

\* No groups of one's own in the public namespace.
CreateGroup(ns, g) ==
  /\ ns \in {Public, Defaults} => g = Public
  /\ ns \in namespaces
  /\ AddGroup(ns, g)
  /\ UNCHANGED <<tenant, namespaces, items, pc, job, peak>>

-----------------------------------------------------------------------------
\* resolveLayer: the layer of the items of a container; "" has no items.
Layer(ns, g) ==
  CASE ns = Public /\ g = Public -> "public"
    [] g = Defaults -> "namespace"
    [] ns # Public /\ g \notin {Public, Defaults} -> "group"
    [] OTHER -> ""

\* assertContainer
HasContainer(ns, g) == ns \in namespaces /\ <<ns, g>> \in groups

ItemsIn(ns, g) == {it \in items : it.ns = ns /\ it.group = g}

\* GetItemByKey: the item of a key in a container, if there is one.
ItemsByKey(ns, g, key) == {it \in ItemsIn(ns, g) : it.key = key}

\* The layers merged for a group are the public one, its namespace's defaults
\* and its own: item u is in a weaker layer than an item of j's container.
Above(u, j) ==
  /\ u.key = j.key
  /\ \/ u.layer = "public" /\ <<j.ns, j.group>> # <<Public, Public>>
     \/ u.layer = "namespace" /\ u.ns = j.ns /\ Layer(j.ns, j.group) = "group"

\* CreateItem finds its container and reads the quota, counts the container's
\* items, compares formats with the two other layers a group's key may be in,
\* and inserts.
StartCreateItem(o, ns, g, key, f) ==
  /\ pc[o] = "idle" /\ tenant # NoTenant
  /\ Layer(ns, g) # "" /\ HasContainer(ns, g)
  /\ Continue(o, "countItems", [ns |-> ns, group |-> g, key |-> key, format |-> f,
                                max |-> tenant.maxItemsPerGroup, over |-> {}])
  /\ OnlyLocal

\* wrong: the item to come is not counted
ItemFitsOffByOne(j) == Cardinality(ItemsIn(j.ns, j.group)) <= j.max

ItemFits(j) == Cardinality(ItemsIn(j.ns, j.group)) + 1 <= j.max

CountItems(o) ==
  /\ pc[o] = "countItems"
  /\ IF ItemFits(job[o])
     THEN Continue(o, "checkPublic", [job[o] EXCEPT !.max = 0,
                                      !.over = {u.format : u \in {x \in items : Above(x, job[o])}}])
     ELSE Return(o)
  /\ OnlyLocal

\* wrong: the first container is looked at twice
FormatFitsPublicOnly(j, ns, g) ==
  \A it \in ItemsByKey(Public, Public, j.key) : it.format = j.format

\* assertKeyFormat, for one of its candidates: the item's own container is
\* skipped.
FormatFits(j, ns, g) ==
  \/ <<ns, g>> = <<j.ns, j.group>>
  \/ \A it \in ItemsByKey(ns, g, j.key) : it.format = j.format

CheckPublic(o) ==
  /\ pc[o] = "checkPublic"
  /\ IF FormatFits(job[o], Public, Public)
     THEN Continue(o, "checkDefaults", job[o])
     ELSE Return(o)
  /\ OnlyLocal

CheckDefaults(o) ==
  /\ pc[o] = "checkDefaults"
  /\ IF FormatFits(job[o], job[o].ns, Defaults)
     THEN Continue(o, "createItem", job[o])
     ELSE Return(o)
  /\ OnlyLocal

Item(j) == [ns |-> j.ns, group |-> j.group, layer |-> Layer(j.ns, j.group),
            key |-> j.key, format |-> j.format, over |-> j.over]

InsertItem(o) ==
  /\ pc[o] = "createItem" /\ Cardinality(items) < MaxItems
  /\ LET j == job[o]
     IN  IF ItemsByKey(j.ns, j.group, j.key) # {}
         THEN UNCHANGED items                     \* ErrDuplicate
         ELSE items' = items \union {Item(j)}
  /\ Return(o)
  /\ UNCHANGED <<tenant, namespaces, groups, peak, abandoned>>

-----------------------------------------------------------------------------
\* The handler of o stops: its request is cancelled, the store answers an
\* error, or the process dies.
Stop(o) ==
  /\ pc[o] # "idle"
  /\ LET unfinished == CASE pc[o] = "createDefaults"    -> {job[o].ns}
                           [] pc[o] = "createPublicGroup" -> {Public}
                           [] OTHER -> {}
     IN  abandoned' = abandoned \union {ns \in unfinished : ~HasSystemGroup(ns)}
  /\ Return(o)
  /\ UNCHANGED <<tables, peak>>

OperatorStep(o) ==
  \/ \E q \in Quotas : CreateTenant(o, q)
  \/ \E ns \in Namespaces \union {Public} : StartCreateNamespace(o, ns)
  \/ \E c \in {x \in groups : x[1] \in Busy}, key \in Keys, f \in Formats : StartCreateItem(o, c[1], c[2], key, f)
  \/ CreatePublicNamespace(o) \/ CreatePublicGroup(o)
  \/ CountNamespaces(o) \/ CreateNamespace(o) \/ CreateDefaults(o)
  \/ CountItems(o) \/ CheckPublic(o) \/ CheckDefaults(o) \/ InsertItem(o)
  \/ Stop(o)

Next ==
  \/ \E o \in Operators : OperatorStep(o)
  \/ \E q \in Quotas : UpdateQuota(q)
  \/ \E ns \in Busy : \E g \in IF ns = Public THEN {Public} ELSE Groups \union {Defaults} :
       CreateGroup(ns, g)

Spec == Init /\ [][Next]_vars

-----------------------------------------------------------------------------
\* "A separate quota per tenant; beyond it 402" (README 3.6), as far as
\* count-then-insert keeps it: every concurrent handler but one may exceed it
\* by one, and namespaces by one more, counted while the public namespace that
\* is taken off is not there yet (service.go:112-118).
QuotaOvershootBounded ==
  /\ Cardinality(namespaces \ {Public}) <= peak.maxNamespaces + Cardinality(Operators)
  /\ \A c \in groups :
       Cardinality(ItemsIn(c[1], c[2])) <= peak.maxItemsPerGroup + Cardinality(Operators) - 1

\* A namespace without its system group was left so by a handler that stopped,
\* or is still being made: no order of concurrent requests, duplicates
\* included, leaves one behind (service.go:121-130, 77-85).
ContainersComplete ==
  \A ns \in namespaces :
    \/ HasSystemGroup(ns)
    \/ ns \in abandoned
    \/ \E o \in Operators :
         \/ pc[o] = "createDefaults" /\ job[o].ns = ns
         \/ pc[o] = "createPublicGroup" /\ ns = Public

\* A key never gets another format than a weaker layer already had when its
\* creation began to look (service.go:195-198), however the handlers
\* interleave between the two lookups and the insert.  (A weaker layer created
\* afterwards is not compared with the stronger ones.)
LaterLayersFollowFormat == \A it \in items : it.over \subseteq {it.format}
=============================================================================
