----------------------------- MODULE ServerStart -----------------------------
(***************************************************************************)
(* The start of the server's nodes (cmd/server/main.go): connecting to the  *)
(* database with retries, applying its schema, connecting to Redis, and     *)
(* filling the demo tenant before requests are served.                      *)
(*                                                                         *)
(* Nodes start at the same time over one database, die anywhere and start   *)
(* again, while operators work in the demo tenant through nodes that serve. *)
(* Each store call that writes is a step; it may fail, or take effect with  *)
(* its answer lost.  The lookups of a service operation are taken together  *)
(* with the write they precede: nothing is deleted, so that a lookup fails  *)
(* means what a failing call means (so do an exceeded quota and the format  *)
(* of an operator's item).                                                  *)
(***************************************************************************)
EXTENDS Naturals, Sequences

CONSTANTS
  Nodes,        \* server processes
  Attempts,     \* of openPostgresWithRetry (30 in the code)
  MaxWrites,    \* bound on the versions operators write of an item
  None

ASSUME StartAssumption ==
  Attempts \in Nat \ {0} /\ MaxWrites \in Nat \ {0} /\ None \notin {"system", "operator"}

\* What a node does from its start on, in order; from "tenant" on, the rows
\* and values of the demo tenant.
Order == <<"connect", "applySchema", "pingRedis", "getTenant",
           "tenant", "publicNamespace", "publicGroup", "payment", "defaults", "gateway",
           "publicItem", "publicValue", "paymentItem", "paymentValue",
           "gatewayItem", "gatewayValue", "serving">>

\* The row each row needs: its tenant, namespace or group.
Parent == [publicNamespace |-> "tenant", publicGroup |-> "publicNamespace",
           payment |-> "tenant", defaults |-> "payment", gateway |-> "payment",
           publicItem |-> "publicGroup", paymentItem |-> "defaults",
           gatewayItem |-> "gateway"]

Rows     == {"tenant"} \cup DOMAIN Parent
DemoItems == {"publicItem", "paymentItem", "gatewayItem"}
Values   == {"publicValue", "paymentValue", "gatewayValue"}

VARIABLES
  at,           \* at[n]: what node n does next; "down" when it does not run
  tries,        \* tries[n]: failed attempts to connect
  dbUp,         \* the database answers
  maker,        \* maker[x]: who inserted row x, None while there is none
  written,      \* written[i]: the authors ("system" or "operator") of item i's
                \* versions in "dev"
  cut           \* history: a seed that had created the tenant was cut short

vars   == <<at, tries, dbUp, maker, written, cut>>
stored == <<maker, written>>

Init ==
  /\ at = [n \in Nodes |-> "down"]
  /\ tries = [n \in Nodes |-> 0]
  /\ dbUp = TRUE
  /\ maker = [x \in Rows |-> None]
  /\ written = [i \in DemoItems |-> <<>>]
  /\ cut = FALSE

Index(l)    == CHOOSE k \in DOMAIN Order : Order[k] = l
After(l, k) == Order[Index(l) + k]
Goto(n, l)  == at' = [at EXCEPT ![n] = l]

\* The node holds an unfinished demo tenant.
Filling(n) == at[n] \in (Rows \cup Values) \ {"tenant"}

-----------------------------------------------------------------------------
\* The process is started.
Start(n) ==
  /\ at[n] = "down"
  /\ Goto(n, "connect")
  /\ UNCHANGED <<tries, dbUp, stored, cut>>

\* wrong: retries for ever
RetryForEver(n) == at' = at /\ tries' = tries

\* An attempt failed; after the last one the process exits (log.Fatalf).
Retry(n) ==
  IF tries[n] + 1 < Attempts
  THEN tries' = [tries EXCEPT ![n] = @ + 1] /\ at' = at
  ELSE tries' = [tries EXCEPT ![n] = 0] /\ Goto(n, "down")

Connect(n) ==
  /\ at[n] = "connect"
  /\ \/ dbUp /\ Goto(n, "applySchema") /\ tries' = [tries EXCEPT ![n] = 0]
     \/ ~dbUp /\ Retry(n)
  /\ UNCHANGED <<dbUp, stored, cut>>

\* The schema is a script of CREATE ... IF NOT EXISTS: it leaves rows alone.
ApplySchema(n) ==
  /\ at[n] = "applySchema"
  /\ \/ dbUp /\ Goto(n, "pingRedis")
     \/ Goto(n, "down")
  /\ UNCHANGED <<tries, dbUp, stored, cut>>

\* Redis is asked once.
PingRedis(n) ==
  /\ at[n] = "pingRedis"
  /\ Goto(n, "getTenant") \/ Goto(n, "down")
  /\ UNCHANGED <<tries, dbUp, stored, cut>>

-----------------------------------------------------------------------------
\* seed returns at once when it finds the tenant, and goes on when the lookup
\* fails for whatever reason.
GetTenant(n) ==
  /\ at[n] = "getTenant"
  /\ \/ dbUp /\ maker["tenant"] # None /\ Goto(n, "serving")
     \/ dbUp /\ maker["tenant"] = None /\ Goto(n, "tenant")
     \/ Goto(n, "tenant")
  /\ UNCHANGED <<tries, dbUp, stored, cut>>

\* wrong: a group that exists ends it as well
AfterDuplicateStops(x) == IF x \in DemoItems THEN After(x, 2) ELSE "serving"

\* Where seed goes on when row x exists: a tenant or a namespace of the same
\* id ends it, an item is left alone, its value included.
AfterDuplicate(x) ==
  IF x \in {"tenant", "payment"} THEN "serving"
  ELSE After(x, IF x \in DemoItems THEN 2 ELSE 1)

\* And when its insertion fails: only a missing group or item is passed over.
AfterError(x) ==
  IF x \in DemoItems THEN After(x, 2)
  ELSE IF x = "gateway" THEN After(x, 1)
  ELSE "serving"

Insertable(x) == dbUp /\ maker[x] = None /\ (x # "tenant" => maker[Parent[x]] # None)
Insert(x, by) == maker' = [maker EXCEPT ![x] = by]

\* CreateTenant, CreateNamespace, CreateGroup and CreateItem of seed, by row.
InsertRow(n) ==
  /\ at[n] \in Rows
  /\ \/ /\ Insertable(at[n])
        /\ Insert(at[n], "system")
        /\ Goto(n, After(at[n], 1)) /\ cut' = cut
     \/ /\ dbUp /\ maker[at[n]] # None
        /\ Goto(n, AfterDuplicate(at[n]))
        /\ UNCHANGED <<maker, cut>>
  /\ UNCHANGED <<tries, dbUp, written>>

\* The insertion fails, or its answer is lost; or the service refuses the row,
\* because operators have used up a quota of the tenant or have given the key
\* another format on another layer (service.go:192-198).
FailRow(n) ==
  /\ at[n] \in Rows
  /\ \/ maker' = maker /\ cut' = (cut \/ Filling(n))
     \/ Insertable(at[n]) /\ Insert(at[n], "system") /\ cut' = TRUE
  /\ Goto(n, AfterError(at[n]))
  /\ UNCHANGED <<tries, dbUp, written>>

ItemOf(v) == Order[Index(v) - 1]

\* wrong: commits over the version it finds
MayCommitAny(i) == Len(written[i]) <= MaxWrites

\* Commit expects version 0, that of an item without a value.
MayCommit(i) == written[i] = <<>>

\* The Commit of a demo item; whatever it answers, seed goes on.
CommitValue(n) ==
  /\ at[n] \in Values
  /\ LET i == ItemOf(at[n])
     IN  \/ /\ dbUp /\ MayCommit(i)
            /\ written' = [written EXCEPT ![i] = Append(@, "system")]
            /\ cut' = cut
         \/ /\ dbUp /\ ~MayCommit(i) /\ UNCHANGED <<written, cut>>
         \/ /\ written' = written /\ cut' = TRUE
  /\ Goto(n, After(at[n], 1))
  /\ UNCHANGED <<tries, dbUp, maker>>

\* The process dies, or is told to stop: before it serves, a signal ends it.
Die(n) ==
  /\ at[n] # "down"
  /\ Goto(n, "down")
  /\ tries' = [tries EXCEPT ![n] = 0]
  /\ cut' = (cut \/ Filling(n))
  /\ UNCHANGED <<dbUp, stored>>

-----------------------------------------------------------------------------
\* Operators insert rows and commit values through a node that serves.
SomeNodeServes == dbUp /\ \E n \in Nodes : at[n] = "serving"

OperatorInserts(x) ==
  /\ SomeNodeServes
  /\ Insertable(x)
  /\ Insert(x, "operator")
  /\ UNCHANGED <<at, tries, dbUp, written, cut>>

OperatorCommits(i) ==
  /\ SomeNodeServes
  /\ maker[i] # None /\ Len(written[i]) < MaxWrites
  /\ written' = [written EXCEPT ![i] = Append(@, "operator")]
  /\ UNCHANGED <<at, tries, dbUp, maker, cut>>

\* The database comes and goes.
Environment ==
  /\ dbUp' = ~dbUp
  /\ UNCHANGED <<at, tries, stored, cut>>

Boot(n) == Connect(n) \/ ApplySchema(n) \/ PingRedis(n)
Seed(n) == GetTenant(n) \/ InsertRow(n) \/ FailRow(n) \/ CommitValue(n)

Next ==
  \/ \E n \in Nodes : Start(n) \/ Boot(n) \/ Seed(n) \/ Die(n)
  \/ \E x \in Rows : OperatorInserts(x)
  \/ \E i \in DemoItems : OperatorCommits(i)
  \/ Environment

\* A running process goes on, its store calls return; nobody has to start it again.
Fairness == \A n \in Nodes : WF_vars(Boot(n) \/ Seed(n))

Spec == Init /\ [][Next]_vars /\ Fairness

-----------------------------------------------------------------------------
\* "It never overwrites data" (main.go:162): however many nodes seed at the
\* same time as operators write, seed writes only into a tenant it created
\* itself, and gives a value only to an item it created and that has none.
SeedNeverOverwrites ==
  /\ \A x \in Rows : maker[x] = "system" => maker["tenant"] = "system"
  /\ \A i \in DemoItems : \A k \in DOMAIN written[i] :
       written[i][k] = "system" => k = 1 /\ maker[i] = "system"

\* The demo tenant is whole once no node is filling it, unless the seed that
\* created it was cut short or an operator took its namespace first.  A seed is
\* cut short by more than an interruption of its node: by any call that returns
\* an error other than a duplicate, an item refused by a quota or by its format
\* (service.go:192-198) included.  (No later start repairs such a tenant: seed
\* finds it.)
DemoIsWhole ==
  /\ maker["tenant"] = "system" /\ maker["payment"] # "operator"
  /\ ~cut /\ \A n \in Nodes : ~Filling(n)
  => /\ \A x \in Rows : maker[x] # None
     /\ \A i \in DemoItems : maker[i] = "system" => written[i] # <<>>

\* A start ends: the node serves or exits, whether or not the database and
\* Redis ever answer and whatever another node leaves half done.
StartEnds ==
  \A n \in Nodes : at[n] # "down" ~> at[n] \in {"serving", "down"}
=============================================================================
