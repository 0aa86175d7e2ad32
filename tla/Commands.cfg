SPECIFICATION CSpec
CONSTANTS
  Runs = {r1}
  Options <- AnyKind
  MaxAttempts = 2
  Graceful = TRUE
  MaxIncidents = 2
  Concurrent = TRUE
  MaxPasses = 1
  None = None
INVARIANTS
  SuccessKept
PROPERTIES
  AcceptedReturns
CHECK_DEADLOCK FALSE
