SPECIFICATION Spec
CONSTANTS
  N = 4
  Mortal = {0, 3}
  Readers = {0, 1, 3}
  MaxWrites = 2
  MaxReads = 3
  MaxRunning = 1
INVARIANT TypeOK
PROPERTIES ReadsLatest OperationsReturn
CHECK_DEADLOCK FALSE
