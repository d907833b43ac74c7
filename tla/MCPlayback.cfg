SPECIFICATION MCSpec
CONSTANTS
  MaxSessions = 2
  MaxAborts = 0
  Files <- SampleOfFiles
  Sh4Readers = {r1}
  Sh4Calls = 3
INVARIANTS
    DecodedWithOwnConfiguration SelectedIsRead ListIsWhole
  ReaderReadsItsFile SeekIsTaken SoundComesBack
 
CHECK_DEADLOCK FALSE
