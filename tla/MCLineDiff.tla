----------------------------- MODULE MCLineDiff -----------------------------
(* The TLC instance of LineDiff: every pair of texts of a few lines. *)
EXTENDS LineDiff
=============================================================================
