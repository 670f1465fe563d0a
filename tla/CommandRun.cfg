SPECIFICATION Spec
CONSTANTS
  Images <- MCImages
  Scenarios <- MCScenarios
  EngineCodes <- MCEngineCodes
  MaxInt64 = 255
  MaxLevels = 3
  Unit = 1024
  Ulp = 2
  Gaps <- MCGaps
  Decimals = 100
INVARIANTS
  NothingSilent
  NoHalfFiles
  PairsFair
  DiffsAddUp
PROPERTIES
  KeepsItsWord
CHECK_DEADLOCK FALSE
