--------------------------- MODULE MCProvisioning ---------------------------
(* The TLC instances of Provisioning: quotas of none or one namespace. *)
EXTENDS Provisioning, TLC

CONSTANT n1

BusyNamespaces == {n1, Public}

SmallQuotas == {[maxNamespaces |-> n, maxItemsPerGroup |-> n] : n \in {0, 1}}

Symmetric ==
  Permutations(Operators) \union Permutations(Namespaces \ {n1})
    \union Permutations(Keys) \union Permutations(Formats)
=============================================================================
