SPECIFICATION FairSpec
CONSTANTS
  Caller = {c1, c2}
  EarlyWrites = TRUE
  Removable = TRUE
  MaxWrites = 2
  MaxFaults = 1
INVARIANTS TypeOK SameClient
PROPERTIES NeverOlder CallsEnd RefreshEnds EventuallyFresh StoreSpec
CHECK_DEADLOCK FALSE
