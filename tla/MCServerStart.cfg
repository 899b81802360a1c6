\* Two nodes over one database.
SPECIFICATION Spec
CONSTANTS
  Nodes = {n1, n2}
  Attempts = 2
  MaxWrites = 1
  None = None
INVARIANTS SeedNeverOverwrites DemoIsWhole
PROPERTIES StartEnds
