SPECIFICATION FairSpec
CONSTANTS
  Calls = {c1, c2}
  Conns = {k1, k2, k3, k4}
  NoConn = NoConn
  NoCall = NoCall
  MaxDrops = 2
CHECK_DEADLOCK FALSE
INVARIANTS
  TypeOK
  NoLeakedConnection
  RepeatedOnlyAfterDrop
PROPERTIES
  CallsAreKept
  CallReturns
