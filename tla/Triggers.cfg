SPECIFICATION LiveSpec
CONSTANTS
  Ids = {a, b}
  Ticks = {k1, k2}
  MaxTime = 3
  PerMinute = 2
  CronMinutes = {0, 1}
  Every = 2
  Quiet = {2}
  MaxEdits = 1
  MaxFaults = 1
  None = None
INVARIANTS
  OneInFlight
PROPERTIES
  OncePerOccurrence
  ChangeSeen
CHECK_DEADLOCK FALSE
