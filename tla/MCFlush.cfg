CONSTANTS
  NumSessions = 1
  NumFrames = 2
  NumExtras = 1
  c1 = c1
  c2 = c2
  Conns <- MCOneConn
  NoConn = NoConn
  Timestamps = "later"
  FaultKinds = {"flush"}
  MaxFaults = 1
SPECIFICATION Spec
INVARIANT
  RemovedOnlyAfterWritten
