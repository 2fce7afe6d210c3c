SPECIFICATION FairSpec
CONSTANTS
  Nodes = {"m", "n"}
  Editable = {"m"}
  Texts <- MCTexts
  Tails = {"c'"}
  Documents <- MCDocuments
  Starts = {0, 1}
  Views = {v, w}
  NULL = NULL
  MaxEdits = 1
INVARIANTS ShowsText CharsFound ComparesTexts ComparesStrings
PROPERTIES ZipEnds
CHECK_DEADLOCK FALSE
