SPECIFICATION FairSpec
CONSTANTS
  web = web
  mail = mail
  http = http
  dns = dns
  ssh = ssh
  blue = blue
  green = green
  front = front
  Service = {web}
  Key = {http, dns}
  Pool = {blue, green}
  Name = {front}
  Desc = {"d"}
  Cfg = {"sourcehash", "bad"}
  Invalid = {"bad"}
  None = None
  Other = Other
  Manifests <- EditManifests
  Clusters <- BlueNodesGreenSKS
  Provisioned = 0
  Preset <- NoPreset
  PresetSid = 0
  Reliable = {}
  ListerLag = FALSE
  MaxNLB = 5
  MaxSid = 10
  MaxEdits = 2
  MaxFaults = 1
  MaxCrashes = 1
  MaxNodeSyncs = 0
  MaxDrift = 0
INVARIANTS TypeOK EnsuredIsSynced DuplicatesPaidFor
PROPERTIES Converges DeletionCompletes
CHECK_DEADLOCK FALSE
