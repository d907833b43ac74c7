SPECIFICATION Spec
CONSTANTS
  Files <- AllFiles
  Readers = {r1}
  MaxCalls = 3
INVARIANTS ListedIsRead
CHECK_DEADLOCK FALSE
