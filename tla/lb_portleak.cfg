SPECIFICATION Spec
CONSTANTS
  web = web
  mail = mail
  http = http
  dns = dns
  ssh = ssh
  blue = blue
  green = green
  front = front
  Service = {web}
  Key = {http, dns}
  Pool = {blue, green}
  Name = {front}
  Desc = {"d"}
  Cfg = {"sourcehash", "bad"}
  Invalid = {"bad"}
  None = None
  Other = Other
  Manifests <- PortManifests
  Clusters <- BlueNodes
  Provisioned = 0
  Preset <- NoPreset
  PresetSid = 0
  Reliable = {}
  ListerLag = FALSE
  MaxNLB = 2
  MaxSid = 6
  MaxEdits = 2
  MaxFaults = 0
  MaxCrashes = 0
  MaxNodeSyncs = 0
  MaxDrift = 0
INVARIANTS NoLeak
CHECK_DEADLOCK FALSE
