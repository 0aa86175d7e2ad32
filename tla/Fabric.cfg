SPECIFICATION MCSpec
CONSTANTS
  Runs = {r1, r2}
  Options <- MixedCalls
  MaxAttempts = 2
  Graceful = TRUE
  MaxIncidents = 2
  None = None
INVARIANTS
  LaunchedOnce
  EffectVisible
  SuccessIsBacked
  ReportedIsDurable
  HonestFailure
  UnknownClosesSlot
PROPERTIES
  DurableTerminalFinal
SYMMETRY RunSymmetry
CHECK_DEADLOCK FALSE
