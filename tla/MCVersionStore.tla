--------------------------- MODULE MCVersionStore ---------------------------
(***************************************************************************)
(* TLC instance of VersionStore and ItemSchemas: one item in two           *)
(* environments, two tenants of which one owns the item, retentions that   *)
(* keep everything, one or two versions, two requests under way, and two   *)
(* schemas that accept different texts.                                    *)
(***************************************************************************)
EXTENDS ItemSchemas, TLC

CONSTANTS t1, t2, a, b, c1, c2, forA, forB

MCAcceptedBy == forA :> {a} @@ forB :> {b}

\* Nothing tells the tenants, nor the requests, apart; the two texts may change
\* places together with the schemas that accept them.
Symmetry ==
  Permutations({t1, t2}) \cup Permutations({c1, c2})
  \cup {a :> b @@ b :> a @@ forA :> forB @@ forB :> forA}
=============================================================================
