SPECIFICATION FairSpec
CONSTANTS
  web = web
  mail = mail
  http = http
  dns = dns
  ssh = ssh
  blue = blue
  green = green
  front = front
  Service = {web}
  Key = {http, dns}
  Pool = {blue, green}
  Name = {front}
  Desc = {"d"}
  Cfg = {"sourcehash", "bad"}
  Invalid = {"bad"}
  None = None
  Other = Other
  Manifests <- LifeManifests
  Clusters <- BlueOrGreen
  Provisioned = 0
  Preset <- NoPreset
  PresetSid = 0
  Reliable = {"create", "adopt"}
  ListerLag = FALSE
  MaxNLB = 3
  MaxSid = 8
  MaxEdits = 1
  MaxFaults = 2
  MaxCrashes = 1
  MaxNodeSyncs = 1
  MaxDrift = 1
INVARIANTS OneNLB NoLeak PersistedBeforeUse
PROPERTIES Uninterrupted DeletionCompletes
CHECK_DEADLOCK FALSE
