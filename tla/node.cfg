SPECIFICATION FairSpec
CONSTANTS
  alpha = alpha
  beta = beta
  u1 = u1
  u2 = u2
  re = re
  x1 = x1
  pubIP = pubIP
  privIP = privIP
  None = None
  Node = {alpha, beta}
  UUID = {u1, u2}
  Pattern = {re}
  ExternalID = {x1}
  Address = {pubIP, privIP}
  NodeIP <- MCNodeIP
  Deployed = {u1}
  Matches <- MCMatches
  SystemUUID <- MCSystemUUID
  Attr <- MCAttr
  Label <- MCLabel
  zone = "ch-gva-2"
  Configs <- MCConfigs
  MaxRestarts = 1
  MaxChanges = 1
  MaxFaults = 1
INVARIANTS TypeOK UniqueIDs AgreesButForZone
PROPERTIES ExternalLeftAlone DeletedIfGone OrphansGo NodesConverge
CHECK_DEADLOCK FALSE
