----------------------------- MODULE MCLongPoll -----------------------------
(***************************************************************************)
(* TLC instances of LongPoll.  Two clients of one business namespace, one  *)
(* scoped to a group and one to the whole namespace; slots in the group    *)
(* and in the public layer, whose events are fanned out.                   *)
(***************************************************************************)
EXTENDS LongPoll, TLC

CONSTANTS p1, p2, k1, k2, sGroup, sPublic, shop, svc, prod

\* Two instances, each under its own key.
TwoInstances ==
  (p1 :> [key |-> k1, ns |-> shop, group |-> svc, env |-> prod]) @@
  (p2 :> [key |-> k2, ns |-> shop, group |-> All, env |-> prod])

\* Both clients come from one address and send no instance id.
SharedKey ==
  (p1 :> [key |-> k1, ns |-> shop, group |-> svc, env |-> prod]) @@
  (p2 :> [key |-> k1, ns |-> shop, group |-> All, env |-> prod])

Layers ==
  (sGroup  :> [ns |-> shop,   group |-> svc,    env |-> prod]) @@
  (sPublic :> [ns |-> Public, group |-> Public, env |-> prod])
=============================================================================
