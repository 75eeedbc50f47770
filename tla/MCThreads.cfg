CONSTANTS
  Threads = {t1, t2}
  NoThread = NoThread
  PromptStart = TRUE
  CreateMayFail = TRUE
  MaxLosses = 2
SPECIFICATION FairSpec
INVARIANTS
  TypeOK
  AtMostOneThread
  ExitJoinsThread
PROPERTIES
  QuitEnds
  LostThreadResumed
CHECK_DEADLOCK FALSE
