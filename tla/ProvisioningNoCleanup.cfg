SPECIFICATION FairSpec
CONSTANTS
  Volumes = {v1}
  UUIDVolumes = {}
  VDIs = {d1, d2, d3, d4, d5}
  Handlers = {h1}
  NoVolume = NoVolume
  NoVDI = NoVDI
  MaxFaults = 4
  CleanupEnabled = FALSE
  SerialCO = TRUE
CHECK_DEADLOCK FALSE
INVARIANTS
  BoundSurvives
  GoneLeavesNothing
  LeaksAreFaults
PROPERTIES
  ProvisioningSucceeds
  DeletionSucceeds
  KeepsRegistry
