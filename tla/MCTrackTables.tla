--------------------------- MODULE MCTrackTables ---------------------------
EXTENDS TrackTables, SampleFiles
=============================================================================
