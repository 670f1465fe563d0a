SPECIFICATION Spec
CONSTANTS
  Trees <- MCTrees
  Hits <- MCHits
  Texts <- MCTexts
  maxFilterLen = 2
  Heights = {9, 13, 16, 17}
  WastedFiles <- MCWastedFiles
  CleanupRows <- MCCleanupRows
  wasteDefaultLimit = 1
  wasteMaxRows = 2
  MaxKeys = 6
INVARIANTS
  CursorSeen
  ListsFresh
PROPERTIES
  JumpsLand
  KeepsPlace
  NoRowSkipped
CHECK_DEADLOCK FALSE
