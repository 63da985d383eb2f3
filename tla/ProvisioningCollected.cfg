SPECIFICATION FairSpec
CONSTANTS
  Volumes = {v1}
  UUIDVolumes = {v1}
  VDIs = {d1, d2, d3}
  Handlers = {h1}
  NoVolume = NoVolume
  NoVDI = NoVDI
  MaxFaults = 2
  CleanupEnabled = TRUE
  SerialCO = TRUE
INVARIANTS
  TypeOK
  UniqueFinal
  BoundKeepsMetadata
PROPERTIES
  LeaksAreCollected
  ProvisioningSucceeds
