SPECIFICATION Spec
CONSTANTS
  MaxRecords = 1
  MaxDials = 1
PROPERTY CloseEnds
CHECK_DEADLOCK FALSE
