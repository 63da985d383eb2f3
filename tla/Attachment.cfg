SPECIFICATION FairSpec
CONSTANTS
  n1 = n1
  n2 = n2
  n3 = n3
  s1 = s1
  s2 = s2
  Nodes = {n1, n2, n3, n4}
  SRs = {s1, s2}
  VDIs = {d1, d2, d3}
  VBDs = {b1, b2}
  NoSR = NoSR
  NoVDI = NoVDI
  NoVBD = NoVBD
  NoNode = NoNode
  AllNodes = AllNodes
  ValidSRs <- LocalSRs
  HostSRs <- LocalSRs
  Migrating = TRUE
  MaxFaults = 3
INVARIANTS
  TypeOK
  AttachedOnce
  MovingIsDetached
  PublishedIsAttached
PROPERTIES
  PublishSucceeds
  UnpublishSucceeds
  KeepsAttachment
