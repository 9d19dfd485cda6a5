SPECIFICATION Spec
CONSTANTS
  web = web
  mail = mail
  http = http
  dns = dns
  ssh = ssh
  blue = blue
  green = green
  front = front
  Service = {web, mail}
  Key = {http, dns, ssh}
  Pool = {blue, green}
  Name = {front}
  Desc = {"d"}
  Cfg = {"sourcehash", "bad"}
  Invalid = {"bad"}
  None = None
  Other = Other
  Manifests <- ExternalManifests
  Clusters <- BlueNodes
  Provisioned = 2
  Preset <- TwoNLBs
  PresetSid = 1
  Reliable = {}
  ListerLag = TRUE
  MaxNLB = 2
  MaxSid = 5
  MaxEdits = 1
  MaxFaults = 0
  MaxCrashes = 0
  MaxNodeSyncs = 1
  MaxDrift = 0
INVARIANTS ExternalUntouched ForeignServicesKept
PROPERTIES Uninterrupted
CHECK_DEADLOCK FALSE
