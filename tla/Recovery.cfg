SPECIFICATION RSpec
CONSTANTS
  Runs = {r1, r2}
  Options <- InProcessKinds
  MaxAttempts = 1
  Graceful = FALSE
  MaxIncidents = 2
  Concurrent = FALSE
  MaxPasses = 1
  None = None
INVARIANTS
  RunningDecided
  CancelBlocksResume
PROPERTIES
  UnsafeNeverResumedInProcess
SYMMETRY RunSymmetry
CHECK_DEADLOCK FALSE
