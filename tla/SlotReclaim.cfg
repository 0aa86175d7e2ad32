SPECIFICATION Spec
CONSTANTS
  Runs = {r1, r2, r3}
  Options <- UnsafeKeyed
  MaxAttempts = 1
  Graceful = FALSE
  MaxIncidents = 0
  None = None
INVARIANTS
  NoBlindReplay
SYMMETRY RunSymmetry
CHECK_DEADLOCK FALSE
