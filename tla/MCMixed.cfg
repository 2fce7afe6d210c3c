SPECIFICATION FairSpec
CONSTANTS
  Handles = {h1, h2}
  Reds = {1, 2, 3, 4}
  GreenBound = 9
  Greens <- MCGreens
  NodeKinds <- MCKinds
  TokenKinds <- MCTokenKinds
  Vacant = "vacant"
  NULL = NULL
  InitHeap <- Around
  Root = 1
  Matchers <- MCMatchers
  Replacing = TRUE
  RootSorts = {TRUE, FALSE}
  MaxRoots = 2
  MaxEdits = 1
INVARIANTS TypeOK OneMutability OffsetExact EqTellsApart NothingLeaks
PROPERTIES LoopsEnd
CHECK_DEADLOCK FALSE
