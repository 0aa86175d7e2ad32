SPECIFICATION LiveSpec
CONSTANTS
  Definitions <- AllDefinitions
  Loops = {l1, l2, l3}
  MaxPauses = 2
  MaxCrashes = 1
  None = None
INVARIANTS
  TypeOK
  RestIsSaved
  HumanWaitOpen
  NeverRerun
  NeverStranded
PROPERTIES
  ApprovalGates
  CancelWins
  ComesToRest
CHECK_DEADLOCK FALSE
