CONSTANTS
  NumSessions = 2
  NumFrames = 2
  NumExtras = 2
  c1 = c1
  c2 = c2
  Conns <- MCConns
  NoConn = NoConn
  Timestamps = "later"
  FaultKinds = {"break", "connect", "write", "crash", "logger", "popen"}
  MaxFaults = 1
SYMMETRY Symmetry
SPECIFICATION Spec
INVARIANTS
  TypeOK
  RemovedOnlyAfterWritten
PROPERTIES
  NoCopyRewritten
  HandsOver
