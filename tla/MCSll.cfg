SPECIFICATION FairSpec
CONSTANTS
  Elems = {e1, e2, e3}
  Lists = {p, q}
  NULL = NULL
  MaxSlots = 3
INVARIANTS Circle
PROPERTIES StopsAtHead CallsEnd ImplementsSet
CHECK_DEADLOCK FALSE
