SPECIFICATION Spec
CONSTANTS
  Playlists <- AllPlaylists
  Wrap = 2
  SelProgram = 0
  MaxCalls = 3
  MaxStreams = 4
INVARIANTS CustomIOIsClosed
CHECK_DEADLOCK FALSE
