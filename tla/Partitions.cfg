SPECIFICATION Spec
CONSTANTS
  c1 = c1
  c2 = c2
  Children = {c1, c2}
  Weight <- MCWeight
  RootCaps <- MCRootCaps
  Floor <- MCFloor
  Estimates <- MCEstimates
  Uses <- MCUses
  MaxOver = 1
  Res = {1, 2, 3}
  MaxAged = 1
  MaxCrashes = 1
  None = None
INVARIANTS
  LedgerHonest
  WithinEnvelope
  CapsFit
CHECK_DEADLOCK FALSE
