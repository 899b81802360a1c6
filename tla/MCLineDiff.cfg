\* Every pair of texts of at most five lines over two lines and the empty one.
SPECIFICATION Spec
CONSTANTS
  Lines = {x, y}
  Empty = Empty
  MaxLines = 5
INVARIANTS NothingLost EqualRowsAreLongest HunksAreCollapsed ChangesAreChanges
