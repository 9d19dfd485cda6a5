SPECIFICATION Spec
CONSTANTS
  Caller = {c1, c2}
  EarlyWrites = TRUE
  Removable = FALSE
  MaxWrites = 2
  MaxFaults = 0
INVARIANTS NoPanic
CHECK_DEADLOCK FALSE
