SPECIFICATION MCSpec
CONSTANTS
  Slots = {0}
  Tps = {1}
  Sids = {1, 2}
  Sources = {0, 1}
  MaxMulti = 2
  CamMatches <- AnyModule
  Blacklist = {2}
  Multi = {TRUE, FALSE}
  CheckLive = {TRUE, FALSE}
  MaxActive = 2
  None = None
  NullPmt = NullPmt
 
PROPERTIES RecordingUndisturbed LiveSlotIsKept
CHECK_DEADLOCK FALSE
