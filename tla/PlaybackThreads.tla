---------------------------- MODULE PlaybackThreads ----------------------------
(***************************************************************************)
(* The life of a playback in one process: cPlayback (the two threads of    *)
(* the application that call it), playback.c with its supervisor threads,  *)
(* and container_ffmpeg.c with its reader threads.  They share flags that  *)
(* no lock protects, the table of avformat contexts, and one mutex.        *)
(*                                                                         *)
(* A step has at most one access that another thread can come in front of, *)
(* and a section between a lock and an unlock of the container mutex is    *)
(* one step.                                                               *)
(* Trick modes, seeking and the data path are left out; a wait loop with a *)
(* counter may give up in any pass.                                        *)
(***************************************************************************)
EXTENDS Naturals, FiniteSets

CONSTANTS MaxSessions,   \* bound: calls of cPlayback::Start
          MaxAborts      \* bound: calls of RequestAbort by a second thread

ASSUME SessionsAssumption == MaxSessions \in Nat \ {0}
ASSUME AbortsAssumption   == MaxAborts \in Nat

VARIABLES
  pc,                      \* where each thread is
  session,                 \* the running number of the playback last opened
  playing,                 \* cPlayback::playing
  isHttp, isPlaying, abortRequested, isCreationPhase,   \* PlaybackHandler
  dieNow, hasThreadStarted,                             \* playback.c
  selected,                \* is selectedContainer set?
  hasPlayThreadStarted,    \* container_ffmpeg.c
  ctx,                     \* avContextTab[0]: 0, or the session it was opened for
  apiMutex,                \* cPlayback::mutex: is it held?
  aborts,                  \* calls of RequestAbort so far
  caller,                  \* the call in which Api stops a playback: "open", "play", "close"
  uses,                    \* the context each thread works with outside any lock
  freed                    \* history: how container_ffmpeg_stop closed each context

flags     == <<isHttp, isPlaying, abortRequested, isCreationPhase>>
container == <<hasPlayThreadStarted, ctx, uses, freed>>
api       == <<session, playing, selected, apiMutex, aborts, caller>>
life      == <<dieNow, hasThreadStarted>>
vars == <<pc, flags, container, api, life>>

Sessions == 1 .. MaxSessions
Api    == [kind |-> "api",    no |-> 0]    \* calls Start and Close
Abort  == [kind |-> "abort",  no |-> 0]    \* calls RequestAbort
Sup(g) == [kind |-> "super",  no |-> g]    \* the supervisor started for session g
FF(g)  == [kind |-> "ffmpeg", no |-> g]    \* the reader started for session g
Supervisors == {Sup(g) : g \in Sessions}
Readers     == {FF(g) : g \in Sessions}
Threads == {Api, Abort} \cup Supervisors \cup Readers

\* The playback a thread belongs to.
SessionOf(t) == IF t \in {Api, Abort} THEN session ELSE t.no

Goto(t, l) == pc' = [pc EXCEPT ![t] = l]
At(t, l)   == pc[t] = l

Init ==
  /\ pc = [t \in Threads |-> IF t \in {Api, Abort} THEN "idle" ELSE "none"]
  /\ session = 0 /\ playing = FALSE /\ selected = FALSE /\ apiMutex = FALSE /\ aborts = 0
  /\ caller = "close"
  /\ isHttp = FALSE /\ isPlaying = FALSE /\ abortRequested = FALSE
  /\ isCreationPhase = FALSE
  /\ dieNow = FALSE /\ hasThreadStarted = 0
  /\ hasPlayThreadStarted = FALSE /\ ctx = 0 /\ freed = {}
  /\ uses = [t \in Threads |-> 0]

\* PlaybackDieNow(1); what its callbacks do is in BufferingQueue.
DieNow ==
  /\ dieNow' = TRUE
  /\ UNCHANGED hasThreadStarted

-----------------------------------------------------------------------------
(* container_ffmpeg_stop, by any thread t: the label "cs.begin" is the     *)
(* CONTAINER_STOP command, which does nothing without a context; the       *)
(* reader calls the function itself ("cs.call").  AfterStop(t) is where    *)
(* the caller goes on.                                                     *)

AfterStop(t) == CASE t.kind = "ffmpeg"                -> "done"
                  [] t.kind = "super"                 -> "term.flags"
                  [] t = Api /\ caller = "play"       -> "idle"
                  [] OTHER                            -> "stop.wait"

StopCommand(t) ==
  /\ At(t, "cs.begin")
  /\ Goto(t, IF ctx = 0 THEN AfterStop(t) ELSE "cs.call")
  /\ UNCHANGED <<flags, container, api, life>>

StopCall(t) ==
  /\ At(t, "cs.call")
  /\ isPlaying' = FALSE
  /\ Goto(t, "cs.wait")
  /\ UNCHANGED <<isHttp, abortRequested, isCreationPhase, container, api, life>>

StopWait(t) ==
  /\ At(t, "cs.wait")
  /\ ~hasPlayThreadStarted
  /\ hasPlayThreadStarted' = FALSE
  /\ Goto(t, "cs.lock")
  /\ UNCHANGED <<flags, ctx, uses, freed, api, life>>

\* Five seconds are over: the contexts stay open.
StopTimeout(t) ==
  /\ At(t, "cs.wait") /\ hasPlayThreadStarted
  /\ Goto(t, AfterStop(t))
  /\ UNCHANGED <<flags, container, api, life>>

\* Under the container mutex.  A play whose output failed takes this for success.
StopClose(t) ==
  /\ At(t, "cs.lock")
  /\ freed' = freed \cup {[ctx |-> c, by |-> SessionOf(t)] : c \in {ctx} \ {0}}
  /\ ctx' = 0
  /\ Goto(t, IF t = Api /\ caller = "play" THEN "pause" ELSE AfterStop(t))
  /\ UNCHANGED <<flags, hasPlayThreadStarted, uses, api, life>>

ContainerStop(t) ==
  \/ StopCommand(t) \/ StopCall(t) \/ StopWait(t) \/ StopTimeout(t) \/ StopClose(t)

-----------------------------------------------------------------------------
(* PlaybackStop, by the application's threads.                             *)

Stop(t) ==
  /\ At(t, "stop")
  /\ DieNow
  /\ Goto(t, "stop.check")
  /\ UNCHANGED <<flags, container, api>>

StopCheck(t) ==
  /\ At(t, "stop.check")
  /\ isPlaying' = FALSE
  /\ Goto(t, IF isPlaying /\ selected THEN "cs.begin" ELSE "stop.wait")
  /\ UNCHANGED <<isHttp, abortRequested, isCreationPhase, container, api, life>>

\* "Waiting for supervisor thread to terminate itself", two seconds at most.
StopReturn(t) ==
  /\ At(t, "stop.wait") /\ hasThreadStarted # 1
  /\ Goto(t, IF t = Api /\ caller = "open" THEN "open.check" ELSE "close")
  /\ UNCHANGED <<flags, container, api, life>>

StopGivesUp(t) ==
  /\ At(t, "stop.wait") /\ hasThreadStarted = 1
  /\ Goto(t, IF t = Api /\ caller = "open" THEN "open.check" ELSE "close")
  /\ UNCHANGED <<flags, container, api, life>>

\* PlaybackClose, and around it the rest of cPlayback::Stop.  RequestAbort
\* raises abortRequested when its Stop is done.
Close(t) ==
  /\ At(t, "close")
  /\ selected' = FALSE /\ isPlaying' = FALSE
  /\ Goto(t, "close.die")
  /\ UNCHANGED <<isHttp, abortRequested, isCreationPhase, container, session, playing,
                 apiMutex, aborts, caller, life>>

CloseDie(t) ==
  /\ At(t, "close.die")
  /\ dieNow' = FALSE
  /\ playing' = FALSE /\ apiMutex' = FALSE
  /\ abortRequested' = (abortRequested \/ t = Abort)
  /\ Goto(t, "idle")
  /\ UNCHANGED <<isHttp, isPlaying, isCreationPhase, container, session, selected, aborts,
                 caller, hasThreadStarted>>

PlaybackStop(t) == Stop(t) \/ StopCheck(t) \/ StopReturn(t) \/ StopGivesUp(t) \/ Close(t) \/ CloseDie(t)

-----------------------------------------------------------------------------
(* The application: Start (PLAYMODE_FILE), Close and RequestAbort.         *)

\* The application starts a playback when the last one is closed for it.
Start ==
  /\ At(Api, "idle") /\ ~playing /\ session < MaxSessions
  /\ session' = session + 1
  /\ isHttp' \in BOOLEAN
  /\ caller' = "open"
  /\ Goto(Api, IF isPlaying THEN "stop" ELSE "open.check")
  /\ UNCHANGED <<isPlaying, abortRequested, isCreationPhase, container, playing, selected,
                 apiMutex, aborts, life>>

\* PlaybackOpen up to the blocking call: the context enters the table first.
Open ==
  /\ At(Api, "open.check")
  /\ IF isPlaying
       THEN /\ Goto(Api, "idle")
            /\ UNCHANGED <<selected, abortRequested, ctx, uses>>
       ELSE /\ Goto(Api, "opening")
            /\ selected' = TRUE /\ abortRequested' = FALSE
            /\ ctx' = session /\ uses' = [uses EXCEPT ![Api] = session]
  /\ UNCHANGED <<isHttp, isPlaying, isCreationPhase, hasPlayThreadStarted, freed, session,
                 playing, apiMutex, aborts, caller, life>>

\* The blocking calls of ffmpeg in container_ffmpeg_init_av_context: they fail
\* when interrupt_cb says so, and may fail by themselves; avformat_open_input
\* closes the context on failure, avformat_find_stream_info leaves it.
OpenFails ==
  /\ At(Api, "opening")
  /\ ctx' \in {0, ctx}
  /\ uses' = [uses EXCEPT ![Api] = 0]
  /\ Goto(Api, "idle")
  /\ UNCHANGED <<flags, hasPlayThreadStarted, freed, api, life>>

OpenDone ==
  /\ At(Api, "opening") /\ ~abortRequested /\ ~dieNow
  /\ playing' = TRUE
  /\ uses' = [uses EXCEPT ![Api] = 0]
  /\ Goto(Api, "play")
  /\ UNCHANGED <<flags, hasPlayThreadStarted, ctx, freed, session, selected, apiMutex,
                 aborts, caller, life>>

\* PlaybackPlay up to OUTPUT_PLAY.
Play ==
  /\ At(Api, "play")
  /\ isCreationPhase' = (isCreationPhase \/ ~isPlaying)
  /\ Goto(Api, IF isPlaying THEN "idle" ELSE "play.output")
  /\ UNCHANGED <<isHttp, isPlaying, abortRequested, container, api, life>>

OutputPlayFails ==
  /\ At(Api, "play.output")
  /\ isCreationPhase' = FALSE /\ isPlaying' = FALSE
  /\ caller' = "play"
  /\ Goto(Api, IF selected THEN "cs.begin" ELSE "idle")
  /\ UNCHANGED <<isHttp, abortRequested, container, session, playing, selected, apiMutex,
                 aborts, life>>

OutputPlayDone ==
  /\ At(Api, "play.output")
  /\ isPlaying' = TRUE
  /\ Goto(Api, "play.super")
  /\ UNCHANGED <<isHttp, abortRequested, isCreationPhase, container, api, life>>

StartSupervisor ==
  /\ At(Api, "play.super")
  /\ isCreationPhase' = FALSE
  /\ pc' = [pc EXCEPT ![Api] = "play.command",
                      ![Sup(session)] = IF hasThreadStarted = 0 THEN "start" ELSE @]
  /\ UNCHANGED <<isHttp, isPlaying, abortRequested, container, api, life>>

\* The CONTAINER_PLAY command is refused without a container or a context.
PlayCommand ==
  /\ At(Api, "play.command")
  /\ Goto(Api, CASE ~selected            -> "pause"
                 [] selected /\ ctx = 0   -> "idle"
                 [] OTHER                 -> "play.create")
  /\ UNCHANGED <<flags, container, api, life>>

\* Slip: a reader is created next to one that still runs.
CreateReader_always ==
  /\ At(Api, "play.create")
  /\ pc' = [pc EXCEPT ![Api] = "play.mark", ![FF(session)] = "start"]
  /\ UNCHANGED <<flags, container, api, life>>

\* container_ffmpeg_play: create the reader, then mark it as started.
CreateReader ==
  /\ At(Api, "play.create")
  /\ pc' = IF hasPlayThreadStarted THEN [pc EXCEPT ![Api] = "idle"]
           ELSE [pc EXCEPT ![Api] = "play.mark", ![FF(session)] = "start"]
  /\ UNCHANGED <<flags, container, api, life>>

MarkReader ==
  /\ At(Api, "play.mark")
  /\ hasPlayThreadStarted' = TRUE
  /\ Goto(Api, "pause")
  /\ UNCHANGED <<flags, ctx, uses, freed, api, life>>

\* A file is opened paused; a pause that finds it stopped clears playing.
PauseFile ==
  /\ At(Api, "pause")
  /\ playing' = (IF isHttp THEN playing ELSE isPlaying)
  /\ Goto(Api, "idle")
  /\ UNCHANGED <<flags, container, session, selected, apiMutex, aborts, caller, life>>

CloseCall ==
  /\ At(Api, "idle") /\ ~apiMutex /\ playing
  /\ apiMutex' = TRUE /\ caller' = "close"
  /\ Goto(Api, "stop")
  /\ UNCHANGED <<flags, container, session, playing, selected, aborts, life>>

\* RequestAbort stops what plays, and interrupts a stream that is being opened.
RequestAbort ==
  /\ At(Abort, "idle") /\ ~apiMutex /\ aborts < MaxAborts
  /\ aborts' = aborts + 1
  /\ \/ /\ isPlaying
        /\ apiMutex' = TRUE /\ Goto(Abort, "stop")
        /\ UNCHANGED abortRequested
     \/ /\ ~isPlaying
        /\ abortRequested' = (abortRequested \/ isHttp)
        /\ UNCHANGED <<apiMutex, pc>>
  /\ UNCHANGED <<isHttp, isPlaying, isCreationPhase, container, session, playing, selected,
                 caller, life>>

ApiStep == \/ Open \/ OpenFails \/ OpenDone \/ Play \/ OutputPlayFails \/ OutputPlayDone
           \/ StartSupervisor \/ PlayCommand \/ CreateReader \/ MarkReader \/ PauseFile

-----------------------------------------------------------------------------
(* SupervisorThread and PlaybackTerminate                                  *)

SuperStart(t) ==
  /\ At(t, "start")
  /\ hasThreadStarted' = 1
  /\ Goto(t, "poll")
  /\ UNCHANGED <<flags, container, api, dieNow>>

SuperPoll(t) ==
  /\ At(t, "poll") /\ (~isPlaying \/ abortRequested)
  /\ Goto(t, "ending")
  /\ UNCHANGED <<flags, container, api, life>>

SuperEnding(t) ==
  /\ At(t, "ending")
  /\ hasThreadStarted' = 2
  /\ Goto(t, "term")
  /\ UNCHANGED <<flags, container, api, dieNow>>

Terminate(t) ==
  /\ At(t, "term")
  /\ DieNow
  /\ Goto(t, "term.check")
  /\ UNCHANGED <<flags, container, api>>

TerminateCheck(t) ==
  /\ At(t, "term.check")
  /\ Goto(t, IF isPlaying THEN "term.container" ELSE "term.wait")
  /\ UNCHANGED <<flags, container, api, life>>

\* selectedContainer is used without a test; OUTPUT_FLUSH lies in between.
TerminateContainer(t) ==
  /\ At(t, "term.container")
  /\ Goto(t, IF selected THEN "cs.begin" ELSE "crashed")
  /\ UNCHANGED <<flags, container, api, life>>

TerminateFlags(t) ==
  /\ At(t, "term.flags")
  /\ isPlaying' = FALSE
  /\ Goto(t, "term.wait")
  /\ UNCHANGED <<isHttp, abortRequested, isCreationPhase, container, api, life>>

\* The wait is left when hasThreadStarted is not 1, or after two seconds.
TerminateReturn(t) ==
  /\ At(t, "term.wait")
  /\ Goto(t, "end")
  /\ UNCHANGED <<flags, container, api, life>>

SuperEnds(t) ==
  /\ At(t, "end")
  /\ hasThreadStarted' = 0
  /\ Goto(t, "done")
  /\ UNCHANGED <<flags, container, api, dieNow>>

SuperStep(t) == \/ SuperStart(t) \/ SuperPoll(t) \/ SuperEnding(t) \/ Terminate(t)
                \/ TerminateCheck(t) \/ TerminateContainer(t) \/ TerminateFlags(t)
                \/ TerminateReturn(t) \/ SuperEnds(t)

-----------------------------------------------------------------------------
(* FFMPEGThread.  av_read_frame and the writers run outside the mutex.     *)

ReaderStart(t) ==
  /\ At(t, "start") /\ ~isCreationPhase
  /\ Goto(t, "loop")
  /\ UNCHANGED <<flags, container, api, life>>

ReaderLoop(t) ==
  /\ At(t, "loop")
  /\ Goto(t, IF isPlaying THEN "lock" ELSE "end")
  /\ UNCHANGED <<flags, container, api, life>>

ReaderLock(t) ==
  /\ At(t, "lock")
  /\ \/ /\ ~isPlaying
        /\ Goto(t, "loop")
        /\ UNCHANGED uses
     \/ /\ isPlaying
        /\ uses' = [uses EXCEPT ![t] = ctx]
        /\ Goto(t, "reading")
  /\ UNCHANGED <<flags, hasPlayThreadStarted, ctx, freed, api, life>>

\* av_read_frame returns: with a packet that goes to a writer or to nobody, or
\* with an error, after which the thread tries again until its end timeout.
ReaderRead(t) ==
  /\ At(t, "reading")
  /\ \/ /\ Goto(t, "writing")
        /\ UNCHANGED uses
     \/ /\ uses' = [uses EXCEPT ![t] = 0]
        /\ \/ Goto(t, "loop")
           \/ Goto(t, "end")
  /\ UNCHANGED <<flags, hasPlayThreadStarted, ctx, freed, api, life>>

ReaderWrote(t) ==
  /\ At(t, "writing")
  /\ uses' = [uses EXCEPT ![t] = 0]
  /\ Goto(t, "loop")
  /\ UNCHANGED <<flags, hasPlayThreadStarted, ctx, freed, api, life>>

ReaderEnds(t) ==
  /\ At(t, "end")
  /\ hasPlayThreadStarted' = FALSE
  /\ Goto(t, "end.playing")
  /\ UNCHANGED <<flags, ctx, uses, freed, api, life>>

ReaderEndsPlaying(t) ==
  /\ At(t, "end.playing")
  /\ isPlaying' = FALSE
  /\ Goto(t, "end.die")
  /\ UNCHANGED <<isHttp, abortRequested, isCreationPhase, container, api, life>>

ReaderDies(t) ==
  /\ At(t, "end.die")
  /\ DieNow
  /\ Goto(t, "cs.call")
  /\ UNCHANGED <<flags, container, api>>

ReaderStep(t) == \/ ReaderStart(t) \/ ReaderLoop(t) \/ ReaderLock(t) \/ ReaderRead(t)
                 \/ ReaderWrote(t) \/ ReaderEnds(t) \/ ReaderEndsPlaying(t) \/ ReaderDies(t)

-----------------------------------------------------------------------------
Next ==
  \/ Start \/ CloseCall \/ RequestAbort
  \/ ApiStep
  \/ \E t \in {Api, Abort} : PlaybackStop(t)
  \/ \E t \in Threads : ContainerStop(t)
  \/ \E t \in Supervisors : SuperStep(t)
  \/ \E t \in Readers : ReaderStep(t)

Spec == Init /\ [][Next]_vars

\* Every thread gets its turn, and what ffmpeg and the drivers are asked for
\* returns at some time.  Nothing makes the application call.
Fairness ==
  /\ WF_vars(ApiStep \/ PlaybackStop(Api) \/ ContainerStop(Api))
  /\ WF_vars(PlaybackStop(Abort) \/ ContainerStop(Abort))
  /\ \A t \in Supervisors : WF_vars(SuperStep(t) \/ ContainerStop(t))
  /\ \A t \in Readers : WF_vars(ReaderStep(t) \/ ContainerStop(t))

FairSpec == Spec /\ Fairness

-----------------------------------------------------------------------------
(* Properties *)

ContainerStopLabels == {"cs.begin", "cs.call", "cs.wait", "cs.lock"}
StopLabels   == {"stop", "stop.check", "stop.wait"} \cup ContainerStopLabels
CallLabels   == {"idle", "close", "close.die"} \cup StopLabels
ApiLabels    == {"open.check", "opening", "play", "play.output", "play.super", "play.command",
                 "play.create", "play.mark", "pause"} \cup CallLabels
SuperLabels  == {"none", "start", "poll", "ending", "term", "term.check", "term.container",
                 "term.flags", "term.wait", "end", "done", "crashed"} \cup ContainerStopLabels
ReaderLabels == {"none", "start", "loop", "lock", "reading", "writing", "end", "end.playing",
                 "end.die", "done"} \cup ContainerStopLabels

FlagsTyped ==
  /\ playing \in BOOLEAN /\ selected \in BOOLEAN /\ apiMutex \in BOOLEAN
  /\ isHttp \in BOOLEAN /\ isPlaying \in BOOLEAN /\ abortRequested \in BOOLEAN
  /\ isCreationPhase \in BOOLEAN /\ dieNow \in BOOLEAN /\ hasPlayThreadStarted \in BOOLEAN

\* Every thread is at a place of its own code, and the flags, counters and
\* contexts keep their types.
TypeOK ==
  /\ pc \in [Threads -> ApiLabels \cup SuperLabels \cup ReaderLabels]
  /\ pc[Api] \in ApiLabels /\ pc[Abort] \in CallLabels
  /\ \A g \in Sessions : pc[Sup(g)] \in SuperLabels /\ pc[FF(g)] \in ReaderLabels
  /\ FlagsTyped
  /\ session \in 0 .. MaxSessions /\ aborts \in 0 .. MaxAborts
  /\ hasThreadStarted \in 0 .. 2 /\ caller \in {"open", "play", "close"}
  /\ ctx \in 0 .. MaxSessions /\ uses \in [Threads -> 0 .. MaxSessions]
  /\ freed \subseteq [ctx : Sessions, by : 0 .. MaxSessions]

\* The avformat context that av_read_frame or the opening of a stream works
\* with, outside the mutex, has not been closed by container_ffmpeg_stop.
UsedContextIsOpen ==
  \A t \in Threads : uses[t] \notin {f.ctx : f \in freed}

\* With several playbacks one after the other, a context is closed under its
\* user by nobody but a thread that an earlier playback left behind.
OnlyLeftoversCloseUsedContexts ==
  \A t \in Threads : \A f \in freed : f.ctx = uses[t] => f.by < f.ctx

\* The reader calls av_read_frame on a context, not on an empty table, for it has
\* tested isPlaying again after it got the mutex; only a thread of a playback before
\* the reader's own can have closed the context, its own or a later one, before that.
ReaderHasContext ==
  \A t \in Readers : At(t, "reading") /\ uses[t] = 0 =>
    \E f \in freed : f.by < t.no /\ t.no <= f.ctx

\* A playback that starts while the reader of the one before still runs does
\* not add a second reader: one thread at a time is inside av_read_frame.
OneReaderReads ==
  \A t, u \in Readers : At(t, "reading") /\ At(u, "reading") => t = u

\* One thread at a time is inside av_read_frame; and as long as nobody calls
\* RequestAbort, only a thread that an earlier playback left behind closes a context
\* under its user, or leaves the reader with an empty table.
ReaderIsAlone ==
  /\ OneReaderReads
  /\ aborts = 0 => OnlyLeftoversCloseUsedContexts /\ ReaderHasContext

\* When the last playback is closed and nobody has called RequestAbort, every
\* thread it started comes to its end.
CloseAsked == At(Api, "close.die") /\ session = MaxSessions /\ aborts = 0
AllEnded   == aborts > 0 \/ \A t \in Supervisors \cup Readers : pc[t] \in {"none", "done"}
ClosedPlaybackEnds == CloseAsked ~> AllEnded

=============================================================================
