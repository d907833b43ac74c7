------------------------------ MODULE MCEndings ------------------------------
(***************************************************************************)
(* What must come to an end, checked side by side: a behaviour is one of   *)
(* Recording, or of one of the parts below, which share nothing with it    *)
(* or with each other.  `part' is chosen once, and with it `watched', the  *)
(* request that the behaviour is watched for.  A fairness condition here   *)
(* is one condition of every part: as `part' stays as it is, it says of a  *)
(* behaviour of a part what the part's own FairSpec says.                  *)
(***************************************************************************)
EXTENDS Recording

CONSTANTS LastDevice, MuxThreads, FdLimit, MaxKeys, KeyCalls   \* of InputMux: Top, Threads, and MaxCalls

VARIABLES part, watched,
          v1, v2, v3, v4, v5, v6, v7, v8, v9, v10, v11, v12, v13, v14, v15, v16, v17

low    == <<v1, v2, v3, v4, v5, v6, v7>>
high   == <<v8, v9, v10, v11, v12, v13>>
top    == <<v14, v15, v16, v17>>
choice == <<part, watched>>
all    == <<choice, vars, low, high, top>>

Sample == INSTANCE SampleFiles

\* Four kinds of session of which one can be closed, and no commands of the application.
Sessions == INSTANCE CISessions WITH
  status <- v1, host <- v2, mod <- v3, opening <- v4, owes <- v5, asked <- v6, data <- v7,
  MaxSessions <- 4, Kinds <- {"rm", "am", "ca", "dt"}, Closes <- {"dt"}, MaxQueue <- 3, MaxCommands <- 0

\* One playback, with one RequestAbort.
Playback == INSTANCE PlaybackThreads WITH
  pc <- v1, session <- v2, playing <- v3, isHttp <- v4, isPlaying <- v5, abortRequested <- v6,
  isCreationPhase <- v7, dieNow <- v8, hasThreadStarted <- v9, selected <- v10,
  hasPlayThreadStarted <- v11, ctx <- v12, apiMutex <- v13, aborts <- v14, caller <- v15,
  uses <- v16, freed <- v17, MaxSessions <- 1, MaxAborts <- 1

\* A stream and a film, two calls.
PlayerSh4 == INSTANCE PlayerSH4 WITH
  pc <- v1, flags <- v2, threads <- v3, avfc <- v4, codecs <- v5, readerOf <- v6, seek <- v7,
  tracks <- v8, device <- v9, cp <- v10, ui <- v11, calls <- v12, history <- v13,
  Files <- Sample!LiveFiles, Readers <- {"r1"}, MaxCalls <- 2

\* A decoder with a ring of two buffers.
Decoder == INSTANCE PcDecoder WITH
  kind <- v1, app <- v2, thread <- v3, tid <- v4, thread_running <- v5, ring <- v6, buffers <- v7,
  buf_m <- v8, still_m <- v9, f <- v10, stillpicture <- v11, screen <- v12, calls <- v13,
  history <- v14, VDEC_MAXBUFS <- 2, Threads <- {1, 2}, MaxCalls <- 3

Keys == INSTANCE InputMux WITH
  initialized <- v1, inmux_thread_running <- v2, fd <- v3, app <- v4, mux <- v5, file <- v6,
  plugged <- v7, pressed <- v8, written <- v9, calls <- v10, two <- v11, again <- v12,
  broken <- v13, Top <- LastDevice, Threads <- MuxThreads, MaxCalls <- KeyCalls

ASSUME PartsAssumption ==
  Sessions!Assumptions /\ PlayerSh4!Assumptions /\ Decoder!Assumptions /\ Keys!Assumptions

Watches == [record |-> {"stop"}, sessions |-> {"dt", "closing", "ready"},
            playback |-> {"close"}, sh4 |-> {"abort", "close"}, pc |-> {"stop"},
            keys |-> {"gone", "exit"}]

ZeroLow  == v1 = 0 /\ v2 = 0 /\ v3 = 0 /\ v4 = 0 /\ v5 = 0 /\ v6 = 0 /\ v7 = 0
ZeroHigh == v8 = 0 /\ v9 = 0 /\ v10 = 0 /\ v11 = 0 /\ v12 = 0 /\ v13 = 0
ZeroTop  == v14 = 0 /\ v15 = 0 /\ v16 = 0 /\ v17 = 0

MCInit ==
  /\ part \in DOMAIN Watches /\ watched \in Watches[part]
  /\ Init
  /\ \/ part = "record"   /\ ZeroLow /\ ZeroHigh /\ ZeroTop
     \/ part = "sessions" /\ Sessions!Init /\ ZeroHigh /\ ZeroTop
     \/ part = "playback" /\ Playback!Init
     \/ part = "sh4"      /\ PlayerSh4!Init /\ ZeroTop
     \/ part = "pc"       /\ Decoder!Init /\ v15 = 0 /\ v16 = 0 /\ v17 = 0
     \/ part = "keys"     /\ Keys!Init /\ ZeroTop

InRecord   == part = "record"   /\ UNCHANGED <<choice, low, high, top>>
InSessions == part = "sessions" /\ UNCHANGED <<choice, vars, high, top>>
InPlayback == part = "playback" /\ UNCHANGED <<choice, vars>>
InSh4      == part = "sh4"      /\ UNCHANGED <<choice, vars, top>>
InPc       == part = "pc"       /\ UNCHANGED <<choice, vars, v15, v16, v17>>
InKeys     == part = "keys"     /\ UNCHANGED <<choice, vars, top>>

MCNext ==
  \/ InRecord   /\ Next
  \/ InSessions /\ Sessions!Next
  \/ InPlayback /\ Playback!Next
  \/ InSh4      /\ PlayerSh4!Next
  \/ InPc       /\ Decoder!Next
  \/ InKeys     /\ Keys!Next

\* The strongly fair steps need a mutex, or answer the host.
Strong1 == \/ InSessions /\ \E q \in v5 : Sessions!ModReplies(q)
           \/ InSh4      /\ PlayerSh4!AppStep
           \/ InPc       /\ Decoder!AppStep
Strong2 == \/ InSessions /\ \E k \in {"rm", "am", "ca"} : Sessions!ModOpens(k)
           \/ InSh4      /\ PlayerSh4!ReaderStep("r1")
           \/ InPc       /\ \E t \in {1, 2} : Decoder!Run(t)
Strong3 == InPc /\ Decoder!Display

Weak1 == \/ InRecord   /\ RecordThread
         \/ InSessions /\ (Sessions!Thread \/ Sessions!ResetEnds)
         \/ InPlayback /\ (Playback!ApiStep \/ Playback!PlaybackStop(Playback!Api)
                           \/ Playback!ContainerStop(Playback!Api))
         \/ InSh4      /\ PlayerSh4!UiStep
         \/ InKeys     /\ Keys!AppStep
Weak2 == \/ InRecord   /\ AioEnds
         \/ InPlayback /\ (Playback!PlaybackStop(Playback!Abort) \/ Playback!ContainerStop(Playback!Abort))
         \/ InKeys     /\ Keys!Mux(1)
Weak3 == \/ InRecord   /\ StopJoin
         \/ InPlayback /\ \E t \in Playback!Supervisors : Playback!SuperStep(t) \/ Playback!ContainerStop(t)
         \/ InKeys     /\ Keys!Mux(2)
Weak4 == InPlayback /\ \E t \in Playback!Readers : Playback!ReaderStep(t) \/ Playback!ContainerStop(t)

MCSpec == /\ MCInit /\ [][MCNext]_all
          /\ WF_all(Weak1) /\ WF_all(Weak2) /\ WF_all(Weak3) /\ WF_all(Weak4)
          /\ SF_all(Strong1) /\ SF_all(Strong2) /\ SF_all(Strong3)

-----------------------------------------------------------------------------
Asked ==
  \/ part = "record"   /\ control = "join"
  \/ part = "playback" /\ Playback!CloseAsked
  \/ watched = "abort" /\ PlayerSh4!AbortAsked
  \/ part = "sh4"      /\ watched = "close" /\ PlayerSh4!CloseAsked
  \/ part = "pc"       /\ Decoder!StopAsked
  \/ watched = "gone" /\ Keys!IsGone(1)
  \/ watched = "exit" /\ Keys!ExitAsked
  \/ watched = "dt" /\ Sessions!Asking(watched)
  \/ watched = "closing" /\ Sessions!ModHas("closing")
  \/ watched = "ready"   /\ Sessions!Arrived

Answered ==
  \/ part = "record"   /\ control = "stopped"
  \/ part = "playback" /\ Playback!AllEnded
  \/ watched = "abort" /\ PlayerSh4!AbortDone
  \/ part = "sh4"      /\ watched = "close" /\ PlayerSh4!CloseDone
  \/ part = "pc"       /\ Decoder!StopDone
  \/ watched = "gone" /\ ~Keys!IsGone(1)
  \/ watched = "exit" /\ ~Keys!ExitAsked
  \/ watched = "dt" /\ ~Sessions!Asking(watched)
  \/ watched = "closing" /\ ~Sessions!ModHas("closing")
  \/ watched = "ready"   /\ Sessions!ReadyOrGone

(* Who asks for an end gets it, and who asks a question an answer:         *)
(* Recording!StopReturns, PlaybackThreads!ClosedPlaybackEnds, the two of   *)
(* PlayerSH4!RequestsEnd, PcDecoder!StopComesBack, of CISessions           *)
(* EnquiryIsAnswered, CloseIsAnswered and ModuleGetsReady, and of InputMux *)
(* GoneIsClosed and ExitEndsThread.                                        *)
RequestsAreAnswered == Asked ~> Answered

\* InputMux: the keys of a device come in order, each once.
KeysArrive == part = "keys" => Keys!KeysArrive
=============================================================================
