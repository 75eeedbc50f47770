CONSTANTS
  Clients = {k1, k2}
  Conns = {c1, c2}
  NoConn = NoConn
  Loggers = {l1, l2}
  PromptExec = TRUE
  FaultKinds = {"link", "child", "fork", "popen"}
  MaxFaults = 1
SPECIFICATION FairSpec
CHECK_DEADLOCK FALSE
INVARIANT
  TypeOK
PROPERTY
  WaitEnds
