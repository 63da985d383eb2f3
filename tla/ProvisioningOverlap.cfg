SPECIFICATION Spec
CONSTANTS
  Volumes = {v1}
  UUIDVolumes = {}
  VDIs = {d1, d2}
  Handlers = {h1, h2}
  NoVolume = NoVolume
  NoVDI = NoVDI
  MaxFaults = 2
  CleanupEnabled = TRUE
  SerialCO = FALSE
SYMMETRY FullSymmetry
INVARIANTS
  NoFinalCandidate
