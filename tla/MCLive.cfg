CONSTANTS
  NumSessions = 2
  NumFrames = 1
  NumExtras = 1
  c1 = c1
  c2 = c2
  Conns <- MCOneConn
  NoConn = NoConn
  Timestamps = "own"
  FaultKinds = {"break", "connect", "flush", "logger"}
  MaxFaults = 1
SPECIFICATION FairSpec
PROPERTIES
  StopHonoured
  TransmissionEnds
