CONSTANTS
  Last = 4
  HasStray = FALSE
  Shift = 0
  MaxNew = 1
SPECIFICATION Spec
INVARIANTS
  TypeOK
  OldestFound
  SeveralMeansFinished
  NothingOverlooked
