SPECIFICATION Spec
CONSTANTS
  Plain = {leaf}
  Entry = {e1, e2, e3}
  Item = {i1, i2}
  Library = {lib}
  None = None
  MaxItems = 2
SYMMETRY Symmetry
INVARIANTS
  RootReachesTheTree
  NothingIsLost
PROPERTIES
  OrderIsKept
CHECK_DEADLOCK FALSE
