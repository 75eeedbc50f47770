CONSTANTS
  NumSessions = 2
  NumFrames = 2
  NumExtras = 1
  c1 = c1
  c2 = c2
  Conns <- MCConns
  NoConn = NoConn
  Timestamps = "later"
  FaultKinds = {"break"}
  MaxFaults = 2
SYMMETRY Symmetry
SPECIFICATION Spec
INVARIANTS
  NothingLost
  FinalDirComplete
  DeliveredInOrder
