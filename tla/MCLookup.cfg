SPECIFICATION Spec
CONSTANTS
  NodeKinds = {"A", "B"}
  TokenKinds = {"t"}
  Trees <- MCTrees
  Depth = 3
INVARIANTS CoversDeepest PointerResolves TokensFound TokensInOrder
CHECK_DEADLOCK FALSE
