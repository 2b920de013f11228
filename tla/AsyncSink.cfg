SPECIFICATION Spec
CONSTANTS
  OptCapacity = 1
  Closers = {c1}
  MaxRecords = 4
INVARIANTS
  TypeOK Accounting CloseCountsFinal NeverWaitsOnInner
  CallbacksAlternate OverflowOncePerRun LateStartsBounded
  CloseNumberWithinOne
PROPERTIES ImplementsLedger CloseReturns AcceptedSettles
CHECK_DEADLOCK FALSE
