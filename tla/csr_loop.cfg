SPECIFICATION FairSpec
CONSTANTS
  alpha = alpha
  beta = beta
  pubIP = pubIP
  privIP = privIP
  None = None
  CSR = {c1}
  Name = {alpha, beta}
  IP = {pubIP, privIP}
  Requests <- NodeRequests
  Fleets <- Machines
  MaxTouches = 1
  MaxChanges = 2
  MaxFaults = 1
INVARIANTS TypeOK Justified
PROPERTIES NeverOverrules MissedAreReevaluated
CHECK_DEADLOCK FALSE
