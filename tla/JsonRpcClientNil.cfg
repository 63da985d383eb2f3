SPECIFICATION Spec
CONSTANTS
  Calls = {c1, c2}
  Conns = {k1, k2, k3}
  NoConn = NoConn
  NoCall = NoCall
  MaxDrops = 1
CHECK_DEADLOCK FALSE
INVARIANT
  EnsuredIsConnected
