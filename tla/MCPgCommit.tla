----------------------------- MODULE MCPgCommit -----------------------------
(***************************************************************************)
(* TLC instance of PgCommit: three concurrent transactions on one slot.    *)
(***************************************************************************)
EXTENDS PgCommit
=============================================================================
