SPECIFICATION Spec
CONSTANTS
  MaxSessions = 1
  MaxAborts = 1
INVARIANTS UsedContextIsOpen
CHECK_DEADLOCK FALSE
