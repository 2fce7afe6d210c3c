SPECIFICATION Spec
CONSTANTS
  Handles = {h1, h2, h3}
  Reds = {1, 2, 3, 4}
  GreenBound = 8
  Greens <- MCGreens
  NodeKinds <- MCKinds
  TokenKinds <- MCTokenKinds
  Vacant = "vacant"
  NULL = NULL
  InitHeap <- Nested
  Root = 1
  Matchers <- MCMatchers
  Replacing = FALSE
  RootSorts = {TRUE}
  MaxRoots = 1
  MaxEdits = 3
SYMMETRY Symmetry
INVARIANTS RcExact LinksExact GreenMatches GreenOwned NoDangling
CHECK_DEADLOCK FALSE
