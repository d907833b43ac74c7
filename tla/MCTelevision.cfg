SPECIFICATION MCSpec
CONSTANTS
  Modules = {m1, m2}
  Tries = 3
  MaxChallenges = 3
  MaxCuts = 1
  None = None
  MaxSessions = 4
  Kinds = {"rm", "am", "ca", "dt", "mmi", "hc"}
  Closes = {"dt"}
  MaxQueue = 3
  MaxCommands = 3
  Devices = {0, 1}
  Audio = {"a", "b", "c"}
  FdLimit = 3
  DmxCalls = 7
  Keys = {"up"}
  LiveCalls = 3
  MaxBus = 2
  MaxTries = 2
  VDEC_MAXBUFS = 4
  Threads = {1, 2}
  DecoderCalls = 5
INVARIANTS
  SidesShareKeys KnownModuleIsRecognised ProofIsAccepted StoredPairsAreOfOneChallenge
  NumbersAgree ReadHasItsObject  PlayingUnitDecodes StillIsMarked KeysFollowRemote
   OneDecoder
   
CHECK_DEADLOCK FALSE
