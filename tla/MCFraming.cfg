CONSTANTS
  BUFSIZ = 3
  Bodies <- MCBodies
  CutEnd = FALSE
SPECIFICATION FairSpec
INVARIANTS
  TypeOK
  LineIntact
  BodyIntact
  LossReported
PROPERTY
  CallReturns
