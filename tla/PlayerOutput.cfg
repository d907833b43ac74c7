SPECIFICATION FairSpec
CONSTANTS
  Outputs <- MC_Outputs
  MaxCommands = 2
  Commands = {"speed 0", "speed 1", "speed 2", "speed -2", "slow", "seek", "audio", "stop"}
  DeviceSize = 1
  QueueSize = 1
INVARIANTS DecodersFollowFlags SeekLeavesOldDataBehind
PROPERTIES NothingAfterStop CommandComesBack
CHECK_DEADLOCK FALSE
