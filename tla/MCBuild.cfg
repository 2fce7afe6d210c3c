SPECIFICATION Spec
CONSTANTS
  Greens = {1, 2, 3}
  NodeKinds = {"Z", "N"}
  TokenKinds = {"t"}
  Vacant = "vacant"
  Texts = {1}
  ZeroKinds = {"Z"}
  NoTree = NoTree
  Few = 2
  MaxStack = 4
  MaxBuilders = 1
INVARIANTS TypeOK Nested ChildrenInterned EqualIsSame BuilderOwns
PROPERTIES Transparent
CHECK_DEADLOCK FALSE
