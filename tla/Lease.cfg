SPECIFICATION Spec
CONSTANTS
  Proc = {p1, p2, p3}
  Pid = {d1, d2, d3}
  MaxLeases = 3
  PidReuse = FALSE
  NoRow = NoRow
INVARIANTS TypeOK ExclusiveUnlessRaced OwnerHasRow
PROPERTIES AbandonedReclaimed
CHECK_DEADLOCK FALSE
