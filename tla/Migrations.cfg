SPECIFICATION Spec
CONSTANTS
  Procs = {p, q, r}
  Pids = {x, y, z}
  Latest = 2
  Stale = 1
  Patience = 2
  MaxCrashes = 2
  MaxBusy = 3
  None = None
SYMMETRY Alike
INVARIANTS
  TypeOK
  LockHolds
  NotWedged
CHECK_DEADLOCK FALSE
