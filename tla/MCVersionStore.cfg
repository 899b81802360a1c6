SPECIFICATION SchemaSpec
CONSTANTS
  t1 = t1
  t2 = t2
  a = a
  b = b
  c1 = c1
  c2 = c2
  forA = forA
  forB = forB
  Tenants = {t1, t2}
  Items = {i1}
  Envs = {prod, dev}
  Vals = {a, b}
  Kinds = {update}
  Retentions = {0, 1, 2}
  MaxVersion = 4
  None = None
  Callers = {c1, c2}
  Schemas = {forA, forB}
  AcceptedBy <- MCAcceptedBy
SYMMETRY Symmetry
INVARIANTS
  TypeOK
  HistoryContiguous
  LiveIsNewest
  EveryVersionWasAccepted
PROPERTIES
  VersionsNeverReassigned
  SupersededStaysReachable
CHECK_DEADLOCK FALSE
