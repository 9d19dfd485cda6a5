SPECIFICATION FairSpec
CONSTANTS
  alpha = alpha
  beta = beta
  pubIP = pubIP
  privIP = privIP
  None = None
  CSR = {c1}
  Name = {alpha, beta}
  IP = {pubIP, privIP}
  Requests <- NodeRequests
  Fleets <- Machines
  MaxTouches = 1
  MaxChanges = 1
  MaxFaults = 0

PROPERTIES ShutsDown
CHECK_DEADLOCK FALSE
