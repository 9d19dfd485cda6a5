SPECIFICATION FairSpec
CONSTANTS
  web = web
  mail = mail
  http = http
  dns = dns
  ssh = ssh
  blue = blue
  green = green
  front = front
  Service = {web}
  Key = {http, dns}
  Pool = {blue, green}
  Name = {front}
  Desc = {"d"}
  Cfg = {"sourcehash", "bad"}
  Invalid = {"bad"}
  None = None
  Other = Other
  Manifests <- PoolManifests
  Clusters <- BlueNodes
  Provisioned = 0
  Preset <- NoPreset
  PresetSid = 0
  Reliable = {}
  ListerLag = FALSE
  MaxNLB = 2
  MaxSid = 6
  MaxEdits = 1
  MaxFaults = 0
  MaxCrashes = 0
  MaxNodeSyncs = 1
  MaxDrift = 0
PROPERTIES Converges
CHECK_DEADLOCK FALSE
