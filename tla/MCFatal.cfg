CONSTANTS
  NumSessions = 1
  NumFrames = 1
  NumExtras = 1
  c1 = c1
  c2 = c2
  Conns <- MCOneConn
  NoConn = NoConn
  Timestamps = "later"
  FaultKinds = {}
  MaxFaults = 0
SPECIFICATION Spec
INVARIANT
  NoFatalError
