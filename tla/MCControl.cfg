CONSTANTS
  Clients = {k1}
  Conns = {c1, c2}
  NoConn = NoConn
  Loggers = {l1, l2}
  PromptExec = TRUE
  FaultKinds = {"child", "fork", "popen"}
  MaxFaults = 2
SPECIFICATION FairSpec
CHECK_DEADLOCK FALSE
INVARIANTS
  
  AtMostOneLogger
  StopAnswerTrue
PROPERTY
  StopTakesEffect
