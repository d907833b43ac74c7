SPECIFICATION MCSpec
CONSTANTS
  BufSize = 4
  ReadSize = 2
  EagerReads = 1
  MaxBytes = 6
  ShortWrites = TRUE
  LastDevice = 1
  MuxThreads = {1, 2}
  FdLimit = 4
  MaxKeys = 2
  KeyCalls = 3
INVARIANTS FileIsWhole FailureIsReported KeysArrive
PROPERTIES RequestsAreAnswered
CHECK_DEADLOCK FALSE
