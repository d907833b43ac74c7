---------------------------- MODULE MCPlayerSH4 ----------------------------
EXTENDS PlayerSH4, SampleFiles
=============================================================================
