SPECIFICATION Spec
CONSTANTS
  Handles = {h1, h2}
  Reds = {1, 2, 3}
  GreenBound = 5
  Greens <- MCGreens
  NodeKinds <- MCKinds
  TokenKinds <- MCTokenKinds
  Vacant = "vacant"
  NULL = NULL
  InitHeap <- Nested
  Root = 1
  Matchers <- MCMatchers
  Replacing = FALSE
  RootSorts = {FALSE}
  MaxRoots = 1
  MaxEdits = 0
SYMMETRY Symmetry
INVARIANTS RcAsDocumented
CHECK_DEADLOCK FALSE
