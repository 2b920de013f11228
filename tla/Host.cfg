SPECIFICATION Spec
CONSTANTS
  c1 = c1
  c2 = c2
  c3 = c3
  Conns = {c1, c2, c3}
  Asks <- MCAsks
  MaxCalls = 2
  MaxObservers = 1
INVARIANTS SlotsExact ShutdownIsOrdered PagesAreAuthorized
PROPERTY ServeEnds
CHECK_DEADLOCK FALSE
