SPECIFICATION FairSpec
CONSTANTS
  Slots = {0}
  Tps = {1}
  Sids = {1, 2}
  Sources = {0}
  MaxMulti = 1
  CamMatches <- AnyModule
  Blacklist = {}
  Multi = {FALSE}
  CheckLive = {}
  MaxActive = 2
  None = None
  NullPmt = NullPmt
PROPERTY ArrivedCapmtIsSent
CHECK_DEADLOCK FALSE
