SPECIFICATION PgSpec
CONSTANTS
  Tenants = {t1}
  Items = {i1}
  Envs = {prod}
  Vals = {a, b}
  Kinds = {update}
  Retentions = {0, 1}
  MaxVersion = 3
  None = None
  Txs = {x1, x2, x3}
INVARIANTS
  TypeOK
  OneWinnerPerVersion
PROPERTIES
  Refines
  EveryCallReturns
CHECK_DEADLOCK FALSE
