SPECIFICATION Spec
CONSTANTS
  Tenants = {t1}
  Items = {i1}
  Envs = {prod}
  Vals = {a, b}
  Kinds = {"create", "update", "rollback", "gray_rollback"}
  Retentions = {2}
  MaxVersion = 3
  None = None
  Operators = {o1, o2}
  Instances = {n1}
  MaxReleases = 2
CHECK_DEADLOCK FALSE
INVARIANT
  PromotedIsNotWithdrawn
