SPECIFICATION Spec
CONSTANTS
  CountCap = 3
  MaxThreshold = 2
  MaxHistory = 6
INVARIANT VerdictMatchesHistory
CHECK_DEADLOCK FALSE
