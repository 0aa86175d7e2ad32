SPECIFICATION Spec
CONSTANTS
  Updaters = {u1, u2, u3}
  Installed = old
  None = none
  Layouts = {"binary", "git", "npm", "manager"}
  Latest = 3
  MaxFaults = 2
INVARIANTS AlwaysACopy LiveBoots
PROPERTIES ReportIsTrue
CHECK_DEADLOCK FALSE
