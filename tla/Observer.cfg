SPECIFICATION Spec
CONSTANTS
  Clients = {c1, c2, c3}
  MaxHistoryWaiters = 2
  MaxSize = 2
INVARIANTS WaitersCounted WakeupsExact
PROPERTIES NotifiedEnds ObservationEnds
CHECK_DEADLOCK FALSE
