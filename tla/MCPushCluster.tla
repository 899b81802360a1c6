---------------------------- MODULE MCPushCluster ----------------------------
(***************************************************************************)
(* The TLC instance of PushCluster: two nodes, one instance that goes from  *)
(* one to the other, two operators, a channel of one event.                 *)
(***************************************************************************)
EXTENDS PushCluster, TLC

CONSTANTS n1, n2, i1, o1, o2

Symmetry == Permutations({n1, n2}) \cup Permutations({o1, o2})
=============================================================================
