---------------------------- MODULE ItemSchemas ----------------------------
(***************************************************************************)
(* Schemas of items, over the store of VersionStore: CreateItem with a     *)
(* schema, UpdateSchema, and the two handlers that write a value           *)
(* (service.go).  Commit validates a text against the schema it read with  *)
(* the item and writes it in a later store call; Rollback writes an old    *)
(* text again without validating it.  The schema may be replaced at any    *)
(* moment, and is that of the item, not of a version.                      *)
(*                                                                         *)
(* Texts and schemas are opaque: AcceptedBy says which texts the validator *)
(* lets pass under a schema.                                               *)
(***************************************************************************)
EXTENDS VersionStore

CONSTANTS
  Callers,      \* requests being handled
  Schemas,      \* schema texts that ValidateSchemaText accepts
  AcceptedBy    \* AcceptedBy[x]: the texts valid under schema x

ASSUME SchemaAssumption == AcceptedBy \in [Schemas -> SUBSET Vals]

VARIABLES
  schema,       \* schema[i]: item.Schema, None before the item is created
  call,         \* call[c]: the locals of a handler between two store calls
  everSchema    \* history: the schemas each item has had

schemaVars == <<storeVars, schema, call, everSchema>>

\* A handler that has a text to write and knows which version to expect, and
\* a Rollback that has only read its text.
NoCall         == [at |-> "none"]
Found(s, v)    == [at |-> "found", slot |-> s, value |-> v]
Ready(s, v, n) == [at |-> "ready", slot |-> s, value |-> v, expected |-> n]

Calls == [at : {"none"}]
         \cup [at : {"found"}, slot : Slots, value : Vals]
         \cup [at : {"ready"}, slot : Slots, value : Vals, expected : Nat]

SchemaInit ==
  /\ StoreInit
  /\ schema     = [i \in Items |-> None]
  /\ call       = [c \in Callers |-> NoCall]
  /\ everSchema = [i \in Items |-> {}]

\* The schema of item i becomes x.
SetSchema(i, x) ==
  /\ schema'     = [schema EXCEPT ![i] = x]
  /\ everSchema' = [everSchema EXCEPT ![i] = @ \cup {x}]

\* Service.CreateItem for an accepted schema (an empty one included).
CreateWithSchema(t, i, x) ==
  /\ CreateItem(t, i)
  /\ SetSchema(i, x)
  /\ UNCHANGED call

\* Service.UpdateSchema: looks neither at the values nor at the calls under
\* way, and takes effect in all environments.
UpdateSchema(i, x) ==
  /\ owner[i] # None
  /\ SetSchema(i, x)
  /\ UNCHANGED <<storeVars, call>>

\* wrong: validates against no schema, as for a format that has none
ValidSyntaxOnly(i, v) == v \in Vals

\* validator.Validate of text v for the item just read.
Valid(i, v) == v \in AcceptedBy[schema[i]]

\* Commit up to GetTenant: reads the item and validates.  An invalid text
\* ends the call with nothing changed.
ValidateCommit(c, s, v, n) ==
  /\ call[c].at = "none"
  /\ owner[s[1]] # None
  /\ Valid(s[1], v)
  /\ call' = [call EXCEPT ![c] = Ready(s, v, n)]
  /\ UNCHANGED <<storeVars, schema, everSchema>>

\* Rollback, first call: GetVersion of the target.
ReadOldVersion(c, s, n) ==
  /\ call[c].at = "none"
  /\ Retained(s, n)
  /\ call' = [call EXCEPT ![c] = Found(s, GetVersion(s, n).value)]
  /\ UNCHANGED <<storeVars, schema, everSchema>>

\* Rollback, second call: GetItem, for the version to expect.
ReadCurrent(c) ==
  /\ call[c].at = "found"
  /\ call' = [call EXCEPT
                ![c] = Ready(@.slot, @.value, values[@.slot].version)]
  /\ UNCHANGED <<storeVars, schema, everSchema>>

\* Both: CommitValue, with whatever retention the tenant has, and the end of
\* the call.  The change type recorded plays no part here.
Write(c) ==
  /\ call[c].at = "ready"
  /\ \E kind \in Kinds, r \in Retentions :
       CommitValue([tenant |-> owner[call[c].slot[1]], slot |-> call[c].slot,
                    expected |-> call[c].expected, value |-> call[c].value,
                    kind |-> kind, retention |-> r])
  /\ call' = [call EXCEPT ![c] = NoCall]
  /\ UNCHANGED <<schema, everSchema>>

\* The call ends without a write: its version is stale (ErrConflict), a store
\* call fails, or the server stops.
GiveUp(c) ==
  /\ call[c].at # "none"
  /\ call' = [call EXCEPT ![c] = NoCall]
  /\ UNCHANGED <<storeVars, schema, everSchema>>

HandlerStep(c) ==
  \/ \E s \in Slots, v \in Vals, n \in 0 .. MaxVersion : ValidateCommit(c, s, v, n)
  \/ \E s \in Slots, n \in 1 .. MaxVersion : ReadOldVersion(c, s, n)
  \/ ReadCurrent(c)
  \/ Write(c)
  \/ GiveUp(c)

SchemaNext ==
  \/ \E t \in Tenants, i \in Items, x \in Schemas : CreateWithSchema(t, i, x)
  \/ \E i \in Items, x \in Schemas : UpdateSchema(i, x)
  \/ \E c \in Callers : HandlerStep(c)

SchemaSpec == SchemaInit /\ [][SchemaNext]_schemaVars

-----------------------------------------------------------------------------
\* Some schema of item i's own past or present accepts text v.
WasAccepted(i, v) == \E x \in everSchema[i] : v \in AcceptedBy[x]

\* "Invalid content never reaches the DB" (service.go:317), as far as the code
\* keeps it: every stored version was acceptable to its item at some moment,
\* however UpdateSchema falls between a validation and its write, and although
\* Rollback does not validate.  (It need not be acceptable now.)
EveryVersionWasAccepted ==
  \A s \in Slots : \A k \in DOMAIN versions[s] :
    WasAccepted(s[1], versions[s][k].value)
=============================================================================
