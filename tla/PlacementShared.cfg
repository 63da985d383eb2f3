SPECIFICATION Spec
CONSTANTS
  h1 = h1
  h2 = h2
  h3 = h3
  p1 = p1
  p2 = p2
  s1 = s1
  s2 = s2
  s3 = s3
  s4 = s4
  n1 = n1
  n2 = n2
  n3 = n3
  SRs = {s1, s2, s3, s4}
  Hosts = {h1, h2, h3}
  Pools = {p1, p2}
  NoSR = NoSR
  Unset = Unset
  Shared <- MCShared
  SRHost <- MCHost
  SRPool <- MCPool
  Size <- MCSize
  MaxInt = 4
  Nodes = {n1, n2, n3}
  NoNode = NoNode
  Registered <- MCRegistered
  Requests <- MCRequests
  Capacities = {1}
  UsageSamples <- MCUsages
PROPERTY
  MigratesWhereItCan
