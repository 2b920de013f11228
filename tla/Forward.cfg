SPECIFICATION Spec
CONSTANTS
  MaxRecords = 3
  MaxDials = 2
INVARIANT InOrderOrFallback
PROPERTIES SubmittedArrives CloseEndsOnceTracked
CHECK_DEADLOCK FALSE
