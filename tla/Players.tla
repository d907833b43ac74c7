------------------------------- MODULE Players -------------------------------
(***************************************************************************)
(* The two players side by side: the playbacks of libeplayer3              *)
(* (PlaybackThreads) and the player of the sh4 boxes (PlayerSH4).  They    *)
(* are built for different boxes and share nothing, so a behaviour is one  *)
(* of the one or one of the other.  `part' is chosen once; MCPlayback has  *)
(* parts besides, in which neither player moves.                           *)
(***************************************************************************)
EXTENDS PlaybackThreads

CONSTANTS Files, Sh4Readers, Sh4Calls   \* of PlayerSH4

VARIABLES
  part,
  place, mode, threads, avfc, codecs, readerOf, seek, tracks, device, cp, ui, calls, history  \* of PlayerSH4

sh4     == <<place, mode, threads, avfc, codecs, readerOf, seek, tracks, device, cp, ui, calls, history>>
players == <<part, vars, sh4>>

PlayerSh4 == INSTANCE PlayerSH4 WITH
  pc <- place, flags <- mode, Readers <- Sh4Readers, MaxCalls <- Sh4Calls

ASSUME PlayersAssumption == PlayerSh4!Assumptions

ZeroSh4 == /\ place = 0 /\ mode = 0 /\ threads = 0 /\ avfc = 0 /\ codecs = 0 /\ readerOf = 0
           /\ seek = 0 /\ tracks = 0 /\ device = 0 /\ cp = 0 /\ ui = 0 /\ calls = 0 /\ history = 0

PlayersInit ==
  /\ Init
  /\ \/ part = "sh4" /\ PlayerSh4!Init
     \/ part \in {"threads", "writers", "tracks"} /\ ZeroSh4

PlayersNext ==
  /\ UNCHANGED part
  /\ \/ part = "threads" /\ Next /\ UNCHANGED sh4
     \/ part = "sh4"     /\ PlayerSh4!Next /\ UNCHANGED vars

PlayersSpec == PlayersInit /\ [][PlayersNext]_players

-----------------------------------------------------------------------------
(* The properties of PlayerSH4, explained there; that of PlaybackThreads,  *)
(* ReaderIsAlone, is stated as it stands.                                  *)

\* PlayerSH4: a reader reads the file it was made for, and a context that is lent stays.
ReaderReadsItsFile == part = "sh4" => PlayerSh4!ReaderReadsItsFile /\ PlayerSh4!LentContextStays

\* PlayerSH4: the last seek that was asked for is the one the reader finds.
SeekIsTaken == part = "sh4" => PlayerSh4!SeekIsTaken

\* PlayerSH4: once rewinding is over the sound is back.
SoundComesBack == part = "sh4" => PlayerSh4!SoundComesBack
=============================================================================
