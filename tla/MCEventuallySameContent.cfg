SPECIFICATION Spec
CONSTANTS
  p1 = p1
  p2 = p2
  k1 = k1
  k2 = k2
  sGroup = sGroup
  sPublic = sPublic
  shop = shop
  svc = svc
  prod = prod
  Clients = {p1}
  Client <- TwoInstances
  Namespaces = {shop}
  Public = public
  Defaults = defaults
  All = all
  BusCap = 1
  None = None
  Slots = {sGroup, sPublic}
  Loc <- Layers
  Written = {sGroup}
  Retention = 2
  MaxVersion = 2
  Operators = {}
PROPERTIES
  EventuallySameContent
CHECK_DEADLOCK FALSE
