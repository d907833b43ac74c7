SPECIFICATION Spec
CONSTANTS
  BufSize = 4
  ReadSize = 2
  EagerReads = 1
  MaxBytes = 8
  ShortWrites = FALSE
INVARIANTS RunOutWritesTheRest
CHECK_DEADLOCK FALSE
