\* Two concurrent requests, two items of two keys in two formats.
SPECIFICATION Spec
CONSTANTS
  Operators = {o1, o2}
  Namespaces = {n1, n2, n3}
  n1 = n1
  Busy <- BusyNamespaces
  Groups = {g1}
  Keys = {k1, k2}
  Formats = {f1, f2}
  Quotas <- SmallQuotas
  NoTenant = NoTenant
  MaxItems = 2
SYMMETRY Symmetric
INVARIANTS QuotaOvershootBounded ContainersComplete LaterLayersFollowFormat
