---------------------------- MODULE MCServerStart ----------------------------
(***************************************************************************)
(* The TLC instance of ServerStart: two nodes, two attempts to connect, and *)
(* operators that write each item once, before or after seed does.          *)
(***************************************************************************)
EXTENDS ServerStart
=============================================================================
