----------------------------- MODULE MCPlayback -----------------------------
(***************************************************************************)
(* The parts of the players, checked side by side: a behaviour is one of   *)
(* Players, or of one of the parts below, none of which shares anything    *)
(* with another.  `part' is chosen once.                                   *)
(***************************************************************************)
EXTENDS Players

VARIABLES v1, v2, v3, v4, v5, v6, v7, v8, v9, v10, v11, v12, v13   \* of Writers or TrackTables

low  == <<v1, v2, v3, v4, v5, v6, v7, v8, v9, v10>>
high == <<v11, v12, v13>>
all  == <<players, low, high>>

Sample == INSTANCE SampleFiles
SampleOfFiles == Sample!AllFiles   \* a stream of two programs, a film and a text

\* Every encoding that has a writer, on the boxes the writers tell apart.
Write == INSTANCE Writers WITH
  box <- v1, enc <- v2, stream <- v3, restart <- v4, st <- v5, call <- v6, out <- v7, sent <- v8,
  old <- v9, cut <- v10,
  Boxes <- {"dreambox", "vuplus", "other", "sh4", "sh4, divx2"},
  Encodings <- {"A_AAC", "A_AAC_PLUS", "A_AAC_LATM", "A_AC3", "A_EAC3", "A_MP3", "A_MPEG/L3", "A_PCM",
                "A_IPCM", "A_LPCM", "A_DTS", "A_WMA", "A_WMA/PRO", "A_VORBIS", "V_MPEG4/ISO/AVC",
                "V_HEVC", "V_MPEG4", "V_H263", "V_MPEG2", "V_VC1", "V_WMV", "V_DIVX3", "V_MJPEG",
                "V_VP6", "V_VP8", "V_VP9", "V_FLV", "V_MKV/XVID"},
  LatmMod <- 3

\* Two, three or four streams, and tables of two entries.
Tables == INSTANCE TrackTables WITH
  avContextTab <- v1, use_custom_io <- v2, tracks <- v3, terminating <- v4, isPlaying <- v5,
  playing <- v6, list <- v7, calls <- v8, opened <- v9, wrongClose <- v10, fresh <- v11, lost <- v12,
  stale <- v13,
  Playlists <- Sample!AllPlaylists, Wrap <- 2, SelProgram <- 0, MaxCalls <- 3, MaxStreams <- 4

ASSUME PartsAssumption == Tables!Assumptions

ZeroLow  == /\ v1 = 0 /\ v2 = 0 /\ v3 = 0 /\ v4 = 0 /\ v5 = 0
            /\ v6 = 0 /\ v7 = 0 /\ v8 = 0 /\ v9 = 0 /\ v10 = 0
ZeroHigh == v11 = 0 /\ v12 = 0 /\ v13 = 0

MCInit ==
  /\ PlayersInit
  /\ \/ part \in {"threads", "sh4"} /\ ZeroLow /\ ZeroHigh
     \/ part = "writers" /\ Write!Init /\ ZeroHigh
     \/ part = "tracks"  /\ Tables!Init

MCNext ==
  \/ PlayersNext /\ UNCHANGED <<low, high>>
  \/ part = "writers" /\ Write!Next /\ UNCHANGED <<players, high>>
  \/ part = "tracks"  /\ Tables!Next /\ UNCHANGED players

MCSpec == MCInit /\ [][MCNext]_all

-----------------------------------------------------------------------------
(* The properties of the parts, each stated and explained in its module;   *)
(* those of the players come from Players.                                 *)

\* Writers: what is written is the packet, once and in order, and its length field says how long it is.
PacketGoesOutWhole == part = "writers" => Write!PacketOnce /\ Write!LengthFieldExact

\* Writers: after a seek or in the next playback the decoder gets the configuration of its track first.
DecodedWithOwnConfiguration == part = "writers" => Write!DecodedWithOwnConfiguration

\* Writers: samples kept from before a seek are never played after it.
NoOldSamples == [][part = "writers" => Write!SendsNoOldSamples]_all

\* TrackTables: the reader is given what is selected.
SelectedIsRead == part = "tracks" => Tables!SelectedIsRead

\* TrackTables: the list of audio tracks is complete and written throughout.
ListIsWhole == part = "tracks" => Tables!ListIsWhole
=============================================================================
