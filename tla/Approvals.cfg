SPECIFICATION LiveSpec
CONSTANTS
  Procs = {p, q}
  Approvals = {a, b}
  Waiters = {w1, w2}
  MaxCrashes = 1
  None = None
INVARIANTS
  TypeOK
  QueueFollowsRow
PROPERTIES
  ImplementsConsent
  AlwaysSettles
CHECK_DEADLOCK FALSE
