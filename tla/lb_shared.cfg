SPECIFICATION Spec
CONSTANTS
  web = web
  mail = mail
  http = http
  dns = dns
  ssh = ssh
  blue = blue
  green = green
  front = front
  Service = {web, mail}
  Key = {http, dns}
  Pool = {blue, green}
  Name = {front}
  Desc = {"d"}
  Cfg = {"sourcehash", "bad"}
  Invalid = {"bad"}
  None = None
  Other = Other
  Manifests <- SharedManifests
  Clusters <- BlueNodes
  Provisioned = 0
  Preset <- NoPreset
  PresetSid = 0
  Reliable = {}
  ListerLag = FALSE
  MaxNLB = 2
  MaxSid = 5
  MaxEdits = 1
  MaxFaults = 0
  MaxCrashes = 0
  MaxNodeSyncs = 0
  MaxDrift = 0
INVARIANT SafelyDeleted
CHECK_DEADLOCK FALSE
