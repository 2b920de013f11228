SPECIFICATION Spec
CONSTANTS
  Kinds = {"plain", "spaced", "huge"}
  OwnKinds = {"plain", "spaced"}
  LineLen <- MCLineLen
  EncSize <- MCEncSize
  MaxPageRecords = 2
  MaxPageBytes = 4
  MaxCells = 7
  MaxOpens = 2
INVARIANTS ReadsExactly ClientAccepts OneByOneAdvances
CHECK_DEADLOCK FALSE
