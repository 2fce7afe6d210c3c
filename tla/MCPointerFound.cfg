SPECIFICATION Spec
CONSTANTS
  NodeKinds = {"A", "B"}
  TokenKinds = {"t"}
  Trees <- MCTrees
  Depth = 3
INVARIANTS PointerFound
CHECK_DEADLOCK FALSE
