----------------------------- MODULE MCWsSession ----------------------------
(***************************************************************************)
(* A TLC instance of WsSession: clients of one business namespace under     *)
(* keys of their own, and an item of the public layer, whose events are     *)
(* fanned out.                                                             *)
(***************************************************************************)
EXTENDS WsSession, TLC

CONSTANTS p1, p2, k1, k2, sPublic, shop, svc, prod

Sessions ==
  (p1 :> [key |-> k1, ns |-> shop, group |-> svc, env |-> prod]) @@
  (p2 :> [key |-> k2, ns |-> shop, group |-> All, env |-> prod])

Layers == sPublic :> [ns |-> Public, group |-> Public, env |-> prod]
=============================================================================
