CONSTANTS
  NumSessions = 2
  NumFrames = 2
  NumExtras = 1
  c1 = c1
  c2 = c2
  Conns <- MCOneConn
  NoConn = NoConn
  Timestamps = "own"
  FaultKinds = {}
  MaxFaults = 0
SPECIFICATION Spec
INVARIANT
  RemovedOnlyAfterWritten
