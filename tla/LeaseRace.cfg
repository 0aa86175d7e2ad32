SPECIFICATION Spec
CONSTANTS
  Proc = {p1, p2, p3}
  Pid = {d1, d2, d3}
  MaxLeases = 3
  PidReuse = FALSE
  NoRow = NoRow
INVARIANTS LeaseExclusive
CHECK_DEADLOCK FALSE
