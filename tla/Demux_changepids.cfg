SPECIFICATION Spec
CONSTANTS
  Ports = {"arm", "spark"}
  Devices = {0, 1}
  Audio = {"a", "b"}
  FdLimit = 3
  MaxCalls = 6
INVARIANTS FirstPidIsVideo
CHECK_DEADLOCK FALSE
