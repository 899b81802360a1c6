SPECIFICATION SessionSpec
CONSTANTS
  p1 = p1
  p2 = p2
  k1 = k1
  k2 = k2
  sPublic = sPublic
  shop = shop
  svc = svc
  prod = prod
  Clients = {p1}
  Client <- Sessions
  Namespaces = {shop}
  Public = public
  Defaults = defaults
  All = all
  BusCap = 1
  QueueCap = 1
  None = None
  Slots = {sPublic}
  Loc <- Layers
  Written = {sPublic}
  Retention = 2
  MaxVersion = 3
  Operators = {o1}
INVARIANTS
  TypeOK
  NothingFallsBetween
PROPERTIES
  RecallReachesPushed
  SessionsEnd
CHECK_DEADLOCK FALSE
