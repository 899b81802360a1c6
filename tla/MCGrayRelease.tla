---------------------------- MODULE MCGrayRelease ---------------------------
(***************************************************************************)
(* TLC instance of GrayRelease: one item, two operators, a client instance. *)
(***************************************************************************)
EXTENDS GrayRelease, TLC

Symmetry == Permutations(Operators) \cup Permutations(Vals)
=============================================================================
