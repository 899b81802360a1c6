SPECIFICATION Spec
CONSTANTS
  p1 = p1
  p2 = p2
  k1 = k1
  k2 = k2
  sGroup = sGroup
  sPublic = sPublic
  shop = shop
  svc = svc
  prod = prod
  Clients = {p1, p2}
  Client <- SharedKey
  Namespaces = {shop}
  Public = public
  Defaults = defaults
  All = all
  BusCap = 1
  None = None
  Slots = {sPublic}
  Loc <- Layers
  Written = {sPublic}
  Retention = 2
  MaxVersion = 3
  Operators = {o1}
INVARIANTS
  NoLostWakeup
PROPERTIES
  EventuallyCaughtUp
CHECK_DEADLOCK FALSE
