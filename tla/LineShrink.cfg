SPECIFICATION Spec
CONSTANTS
  Messages <- MCMessages
  MarkSize <- MCMarkSize
  FieldSizes = {0, 1, 4}
  Caps = {0, 3, 4, 5, 6, 7, 8, 10, 13}
  DefaultMaxLine = 9
  BaseSize = 2
INVARIANTS LossIsNamed EvidenceKept
PROPERTY LadderDescends
CHECK_DEADLOCK FALSE
