\* Nodes and operators are interchangeable.
SPECIFICATION Spec
CONSTANTS
  n1 = n1
  n2 = n2
  i1 = i1
  o1 = o1
  o2 = o2
  Nodes = {n1, n2}
  Instances = {i1}
  Operators = {o1, o2}
  ChanCap = 1
  None = None
SYMMETRY Symmetry
INVARIANTS EveryNodeHears RecallCrossesNodes HeardOnce CountCoversPushed
