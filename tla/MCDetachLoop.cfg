SPECIFICATION WalkSpec
CONSTANTS
  Handles <- MCHandles
  Reds = {1, 2, 3, 4, 5, 6, 7, 8}
  Greens <- MCGreens
  NodeKinds <- MCKinds
  TokenKinds <- MCTokenKinds
  Vacant = "vacant"
  NULL = NULL
  InitHeap <- Four
  Root = 1
  Matchers <- MCMatchers
  Replacing = FALSE
  RootSorts = {TRUE}
  MaxRoots = 6
  MaxEdits = 4
  Loops <- DetachLoop
  NodeVar = "node"
  ParentVar = "parent"
  NextVar = "next"
  ItemVar = "item"
  MaxSkips = 0
INVARIANTS DetachesAll
CHECK_DEADLOCK FALSE
