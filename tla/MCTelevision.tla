---------------------------- MODULE MCTelevision ----------------------------
(***************************************************************************)
(* The parts of live television, checked side by side: a behaviour is one  *)
(* of CCAuthentication, or of one of the parts below, none of which shares *)
(* anything with another.  `part' is chosen once.                          *)
(***************************************************************************)
EXTENDS CCAuthentication

CONSTANTS MaxSessions, Kinds, Closes, MaxQueue, MaxCommands,  \* of CISessions
          Devices, Audio, FdLimit, DmxCalls,                  \* of Demux; MaxCalls of it
          Keys, LiveCalls, MaxBus, MaxTries,                  \* of LiveVideo; MaxCalls of it
          VDEC_MAXBUFS, Threads, DecoderCalls                 \* of PcDecoder; MaxCalls of it

VARIABLES
  part,
  v1, v2, v3, v4, v5, v6, v7, v8, v9, v10, v11, v12, v13, v14,      \* of CISessions or PcDecoder
  library, dmx_source, init, dmx, files, reader, got, dmxCalls,     \* of Demux
  shut, moved, doubled,
  port, stillpicture, units, cec, rx, pressedkey, keys, bus, tv,    \* of LiveVideo
  waking, calls, cleared, missed, woken, told

low    == <<v1, v2, v3, v4, v5, v6, v7>>
high   == <<v8, v9, v10, v11, v12, v13, v14>>
demux  == <<library, dmx_source, init, dmx, files, reader, got, dmxCalls, shut, moved, doubled>>
live   == <<port, stillpicture, units, cec, rx, pressedkey, keys, bus, tv, waking, calls, cleared,
            missed, woken, told>>
all    == <<part, vars, low, high, demux, live>>

Sessions == INSTANCE CISessions_proofs WITH
  status <- v1, host <- v2, mod <- v3, opening <- v4, owes <- v5, asked <- v6, data <- v7

Dmx == INSTANCE Demux WITH
  port <- library, file <- files, calls <- dmxCalls,
  Ports <- {"arm", "spark", "pc"}, MaxCalls <- DmxCalls

Live == INSTANCE LiveVideo WITH Ports <- {"arm", "vu", "spark"}, MaxCalls <- LiveCalls

Decoder == INSTANCE PcDecoder_proofs WITH
  kind <- v1, app <- v2, thread <- v3, tid <- v4, thread_running <- v5, ring <- v6, buffers <- v7,
  buf_m <- v8, still_m <- v9, f <- v10, stillpicture <- v11, screen <- v12, calls <- v13,
  history <- v14, MaxCalls <- DecoderCalls

ASSUME PartsAssumption ==
  Sessions!Assumptions /\ Dmx!Assumptions /\ Live!Assumptions /\ Decoder!Assumptions

ZeroLow   == v1 = 0 /\ v2 = 0 /\ v3 = 0 /\ v4 = 0 /\ v5 = 0 /\ v6 = 0 /\ v7 = 0
ZeroHigh  == v8 = 0 /\ v9 = 0 /\ v10 = 0 /\ v11 = 0 /\ v12 = 0 /\ v13 = 0 /\ v14 = 0
ZeroDemux == /\ library = 0 /\ dmx_source = 0 /\ init = 0 /\ dmx = 0 /\ files = 0 /\ reader = 0
             /\ got = 0 /\ dmxCalls = 0 /\ shut = 0 /\ moved = 0 /\ doubled = 0
ZeroLive  == /\ port = 0 /\ stillpicture = 0 /\ units = 0 /\ cec = 0 /\ rx = 0 /\ pressedkey = 0
             /\ keys = 0 /\ bus = 0 /\ tv = 0 /\ waking = 0 /\ calls = 0 /\ cleared = 0
             /\ missed = 0 /\ woken = 0 /\ told = 0

MCInit ==
  /\ Init
  /\ \/ part = "control"  /\ ZeroLow /\ ZeroHigh /\ ZeroDemux /\ ZeroLive
     \/ part = "sessions" /\ Sessions!Init /\ ZeroHigh /\ ZeroDemux /\ ZeroLive
     \/ part = "demux"    /\ Dmx!Init /\ ZeroLow /\ ZeroHigh /\ ZeroLive
     \/ part = "live"     /\ Live!Init /\ ZeroLow /\ ZeroHigh /\ ZeroDemux
     \/ part = "decoder"  /\ Decoder!Init /\ ZeroDemux /\ ZeroLive

MCNext ==
  /\ UNCHANGED part
  /\ \/ part = "control"  /\ Next /\ UNCHANGED <<low, high, demux, live>>
     \/ part = "sessions" /\ Sessions!Next /\ UNCHANGED <<vars, high, demux, live>>
     \/ part = "demux"    /\ Dmx!Next /\ UNCHANGED <<vars, low, high, live>>
     \/ part = "live"     /\ Live!Next /\ UNCHANGED <<vars, low, high, demux>>
     \/ part = "decoder"  /\ Decoder!Next /\ UNCHANGED <<vars, demux, live>>

MCSpec == MCInit /\ [][MCNext]_all

-----------------------------------------------------------------------------
(* The properties of the parts, each stated and explained in its module.   *)

\* StoreSpec of CCAuthentication: read as one store, the file is always the newest
\* pairs, newest first, none twice; only a writing that is cut off loses more.
StoreIsKept ==
  /\ AbstractStore!Init
  /\ [][part = "control" => AbstractStore!Next]_<<StoredPairs, cuts>>

\* CISessions: host and module mean the same session by a number.
NumbersAgree == part = "sessions" => Sessions!NumbersAgree

\* CISessions: what the host sends on a session arrives while it is open and is for its resource.
CommandReachesItsSession == [][part = "sessions" => Sessions!SendsToItsSession]_all

\* Demux: a Read returns data of its own object, and the destructor waits for it.
ReadHasItsObject == part = "demux" => Dmx!ReadGivesOwnData /\ Dmx!DestructorWaitsForRead

\* Demux: the pids of the recording are in the stream of its device.
PidsAreFiltered == part = "demux" => Dmx!PidsAreFiltered

\* LiveVideo: a unit that says it plays has a decoder that runs.
PlayingUnitDecodes == part = "live" => Live!PlayingUnitDecodes

\* LiveVideo: a picture on the screen has the flag that keeps it there.
StillIsMarked == part = "live" => Live!StillIsMarked

\* LiveVideo: the keys that are down are the one that is held on the remote control.
KeysFollowRemote == part = "live" => Live!KeysFollowRemote

\* LiveVideo: the television is told the power status the box has.
StatusIsTrue == [][part = "live" => Live!TellsTrue]_all

\* PcDecoder: the counters of the ring agree, a buffer that is drawn is left alone, and a
\* still picture waits until it was drawn.
RingIsSound == part = "decoder" => Decoder!RingIsSound /\ Decoder!PictureStays

\* PcDecoder: one decoder thread at a time, none after Stop.
OneDecoder == part = "decoder" => Decoder!OneDecoder
=============================================================================
