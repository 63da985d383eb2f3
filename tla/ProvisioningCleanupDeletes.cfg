SPECIFICATION CalmSpec
CONSTANTS
  Volumes = {v1}
  UUIDVolumes = {}
  VDIs = {d1, d2}
  Handlers = {h1}
  NoVolume = NoVolume
  NoVDI = NoVDI
  MaxFaults = 1
  CleanupEnabled = TRUE
  SerialCO = TRUE
INVARIANTS
  BoundSurvives
