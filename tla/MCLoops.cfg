SPECIFICATION FairWalkSpec
CONSTANTS
  Handles <- MCHandles
  Reds = {1, 2, 3, 4, 5, 6, 7, 8}
  Greens <- MCGreens
  NodeKinds <- MCKinds
  TokenKinds <- MCTokenKinds
  Vacant = "vacant"
  NULL = NULL
  InitHeap <- Four
  Root = 1
  Matchers <- MCMatchers
  Replacing = FALSE
  RootSorts = {TRUE, FALSE}
  MaxRoots = 6
  MaxEdits = 2
  Loops <- MCLoops
  NodeVar = "node"
  ParentVar = "parent"
  NextVar = "next"
  ItemVar = "item"
  MaxSkips = 2
INVARIANTS VisitsAll VisitsWhole Nests
PROPERTIES SkipsWhatWasEntered Ends
CHECK_DEADLOCK FALSE
