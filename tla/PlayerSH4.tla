------------------------------- MODULE PlayerSH4 -------------------------------
(***************************************************************************)
(* The player of the sh4 boxes (libeplayer3-sh4) under cPlayback of the    *)
(* spark boxes.  Three kinds of threads use it without a common lock: the  *)
(* application's, which opens, steers and closes; one reader for each      *)
(* playback (Player::playthread), which at the end of the file stops the   *)
(* player itself; and another thread of the application, which aborts and  *)
(* looks at the context of ffmpeg.                                         *)
(***************************************************************************)
EXTENDS Integers, Sequences, FiniteSets

CONSTANTS Files,    \* records: http, video, audio, subs and static (sets of pids), programs
          Readers,  \* bound: reader threads at one time (one, for the model ends where a second could be)
          MaxCalls  \* bound: calls of the application

MaxPid == 2147483647   \* a pid is an int

Assumptions ==
  /\ "app" \notin Readers /\ Files # {}
  /\ \A f \in Files : /\ f.static # {} => f.programs = <<>>  \* selectProgram reads the stream of each
                      /\ f.video \cup f.audio \cup f.subs \cup f.static \subseteq 1 .. MaxPid

VARIABLES
  pc,        \* where the application's call and the readers are
  flags,     \* of Player: isPlaying, isPaused, isForwarding, isBackWard
  threads,   \* hasThreadStarted, hasPlayThreadStarted, abortPlayback, abortRequested
  avfc,      \* the context of ffmpeg: its number, in place of its address, and state
  codecs,    \* number of the context codecs[] was filled for; 0 when it is empty
  readerOf,  \* the context a reader was made for
  seek,      \* seek_avts_rel, seek_avts_abs; bof: a jump back failed, and
             \* is it so when 300 ms are over
  tracks,    \* of Manager and Input
  device,    \* the decoders; full: those that take no more data
  cp,        \* of cPlayback
  ui,        \* the other thread of the application
  calls,
  history    \* what went wrong on the way, for the properties

vars == <<pc, flags, threads, avfc, codecs, readerOf, seek, tracks, device, cp, ui, calls, history>>

App   == "app"
Procs == {App} \cup Readers
Kinds == {"video", "audio"}
Pids(f) == f.video \cup f.audio \cup f.subs
Least(S) == IF S = {} THEN 0 ELSE CHOOSE x \in S : \A y \in S : x <= y
Most(S)  == IF S = {} THEN 0 ELSE CHOOSE x \in S : \A y \in S : x >= y

Goes(p, to) == pc' = [pc EXCEPT ![p] = to]
At(p, at) == pc[p] = at
MutexFree(k) == \A r \in Readers : pc[r] # k   \* a reader is in Output::Write
Free == \A k \in Kinds : MutexFree(k)
Lent == ui.pc = "looking" /\ ui.ctx = avfc.no

Still == [isPlaying |-> FALSE, isPaused |-> FALSE, isForwarding |-> FALSE, isBackWard |-> FALSE]
NoTracks == [a |-> 0, v |-> 0, s |-> 0, known |-> {}, hidden |-> {}, discard |-> {}]
Off == [open |-> FALSE, video |-> "stop", audio |-> "stop", frozen |-> FALSE, fast |-> FALSE, full |-> {}]

-----------------------------------------------------------------------------
(* Output *)

Stalls(d, k) == d.frozen \/ (k = "audio" /\ d.audio = "stop")
Drained(d) == [d EXCEPT !.full = {k \in @ : Stalls(d, k)}]

OutputOpen(d)     == [d EXCEPT !.open = TRUE, !.fast = FALSE, !.full = {}]
OutputPlay(d, t)  == IF ~d.open THEN d
                     ELSE Drained([d EXCEPT !.video = IF t.v = 0 THEN @ ELSE "play", !.frozen = FALSE,
                                            !.audio = IF t.a = 0 THEN @ ELSE "play"])
OutputStop(d)     == IF d.open THEN [Off EXCEPT !.open = TRUE] ELSE d
OutputPause(d)    == [d EXCEPT !.frozen = d.open]
OutputContinue(d) == Drained([d EXCEPT !.frozen = FALSE, !.fast = FALSE])
Mute(d, b)        == IF ~d.open THEN d ELSE Drained([d EXCEPT !.audio = IF b THEN "stop" ELSE "play"])
OutputFast(d)     == [d EXCEPT !.fast = d.open]
Clear(d)          == [d EXCEPT !.full = {}]

\* A new track starts its decoder; the one that is played already does not.
OutputSwitchAudio(d, old, new) ==
  IF old = new \/ ~d.open THEN d ELSE Drained([d EXCEPT !.audio = "play", !.full = @ \ {"audio"}])
OutputSwitchVideo(d, old, new) ==
  IF old = new \/ ~d.open THEN d ELSE Drained([d EXCEPT !.video = "play", !.full = @ \ {"video"}])

-----------------------------------------------------------------------------
(* Tracks *)

\* A track that is there is overwritten, its mark of being hidden too.
addTrack(t, pids) == [t EXCEPT !.known = @ \cup pids, !.hidden = @ \ pids]

\* What is not found again is inactive; static tracks stay.
initTrackUpdate(t, f) == [t EXCEPT !.known = @ \cap f.static, !.hidden = @ \cap f.static]

getTrack(t, pids) == t.known \cap pids

\* Not while a playback is being given up.
UpdateTracks(t, f) ==
  IF threads.abortPlayback THEN t
  ELSE [addTrack(initTrackUpdate(t, f), Pids(f)) EXCEPT !.v = IF @ = 0 THEN Least(f.video) ELSE @,
                                                        !.a = IF @ = 0 THEN Least(f.audio) ELSE @]

\* Subtitles beside the file are read to their end and stay as tracks without a stream.
ReadSubtitles(t, f) == addTrack(t, f.static)

selectProgram(t, f, p) ==
  LET in == f.programs[p]
      last(S, old) == IF in \cap S = {} THEN old ELSE Most(in \cap S)
  IN  [t EXCEPT !.hidden = t.known \ in, !.discard = t.known \ in,
                !.a = last(f.audio, @), !.v = last(f.video, @), !.s = last(f.subs, @)]

Listed(t) == t.known \ t.hidden

-----------------------------------------------------------------------------
(* Seeking.  history.newest is the last request that no reader has taken.  *)

\* A reader that is about to reset what it has read resets a later request.
Overwrites(kind) ==
  \E r \in Readers : pc[r] \in (IF kind = "rel" THEN {"rel", "back"} ELSE {"abs"})

InputSeek(absolute) ==
  LET kind == IF absolute THEN "abs" ELSE "rel"
  IN  /\ seek' = [seek EXCEPT !.rel = IF absolute THEN "none" ELSE "app", !.abs = absolute]
      /\ history' = [history EXCEPT !.newest = kind, !.lostSeek = @ \/ Overwrites(kind)]

\* Player::Seek leaves the decoders alone when there is no picture.
Seek(absolute) == InputSeek(absolute) /\ device' = IF tracks.v = 0 THEN device ELSE Clear(device)

-----------------------------------------------------------------------------
(* Opening *)

\* cPlayback::Open and Start up to avformat_open_input.  A seek that no reader took is still there.
Start(f, ts) ==
  /\ At(App, "idle") /\ ~cp.up /\ Goes(App, "opening")
  /\ cp' = [cp EXCEPT !.up = TRUE, !.ts = ts, !.file = f, !.init_jump = FALSE, !.decoders_closed = ~ts,
                        !.started = FALSE]
  /\ threads' = [threads EXCEPT !.abortRequested = FALSE, !.abortPlayback = FALSE]
  /\ tracks' = NoTracks
  /\ avfc' = [no |-> avfc.no + 1, is |-> "opening"]
  /\ history' = [history EXCEPT !.overtaken = @ \/ \E r \in Readers : pc[r] # "none",
                                !.leftover = @ \/ seek.rel = "app" \/ seek.abs]
  /\ UNCHANGED <<flags, codecs, readerOf, seek, device, ui>>

\* codecs[] is filled where it is empty.
GetCodecContext == codecs' = IF codecs = 0 THEN avfc.no ELSE codecs

\* avformat_open_input frees a context it cannot open; a format without SEEK_TO_PTS is refused
\* and left open, and so is a file of which no program is chosen.
GivesUp(outcome) ==
  /\ Goes(App, "idle")
  /\ avfc' = IF outcome = "refused" THEN [avfc EXCEPT !.is = "open"] ELSE [avfc EXCEPT !.is = "none"]
  /\ history' = [history EXCEPT !.lentClosed = @ \/ (outcome # "refused" /\ Lent),
                                !.kept = @ \/ outcome = "noTracks"]
  /\ IF outcome = "noTracks" THEN GetCodecContext ELSE UNCHANGED codecs
  /\ UNCHANGED <<tracks, cp, device, seek>>

\* A ts file is played by SetSpeed.
InputInit ==
  LET f == cp.file
      t == ReadSubtitles(UpdateTracks(tracks, f), f)
  IN  /\ f.video \cup f.audio # {}
      /\ avfc' = [avfc EXCEPT !.is = "open"]
      /\ GetCodecContext
      /\ UNCHANGED device
      /\ \/ /\ cp.ts /\ tracks' = t /\ cp' = [cp EXCEPT !.started = TRUE] /\ Goes(App, "idle")
            /\ UNCHANGED <<seek, history>>
         \/ /\ ~cp.ts /\ f.programs = <<>>
            /\ tracks' = t /\ cp' = [cp EXCEPT !.playing = TRUE, !.started = TRUE] /\ Goes(App, "play")
            /\ UNCHANGED <<seek, history>>
         \/ ~cp.ts /\ \E p \in DOMAIN f.programs :
              /\ tracks' = selectProgram(t, f, p) /\ cp' = [cp EXCEPT !.playing = TRUE, !.started = TRUE]
              /\ Goes(App, "play")
              /\ IF f.programs[p] \cap f.audio = {} THEN UNCHANGED <<seek, history>>
                 ELSE InputSeek(FALSE)
         \/ /\ ~cp.ts /\ Len(f.programs) > 1   \* the callback chooses none
            /\ tracks' = t /\ Goes(App, "idle")
            /\ history' = [history EXCEPT !.kept = TRUE] /\ UNCHANGED <<cp, seek>>

Opened ==
  /\ At(App, "opening")
  /\ \/ GivesUp("fails") \/ GivesUp("refused")
     \/ cp.file.video \cup cp.file.audio = {} /\ GivesUp("noTracks")
     \/ InputInit
  /\ UNCHANGED <<flags, threads, readerOf, ui, calls>>

\* Output::Open and Player::Play.  A reader is made unless one has marked itself.
Play ==
  /\ At(App, "play") /\ Free
  /\ LET ok == ~flags.isPlaying
         d  == OutputOpen(device)
     IN  /\ device' = IF ok THEN OutputPlay(d, tracks) ELSE d
         /\ flags' = IF ok THEN [Still EXCEPT !.isPlaying = TRUE] ELSE flags
         /\ IF ok /\ ~threads.hasThreadStarted
              THEN \E r \in Readers :
                     /\ pc[r] = "none"
                     /\ pc' = [pc EXCEPT ![r] = "born", ![App] = IF cp.ts THEN "speed"
                                                                 ELSE IF cp.file.http THEN "idle" ELSE "pause"]
                     /\ readerOf' = [readerOf EXCEPT ![r] = avfc.no]
              ELSE Goes(App, IF cp.ts THEN "speed" ELSE "idle") /\ UNCHANGED readerOf
         /\ cp' = [cp EXCEPT !.playing = ok]
         /\ history' = [history EXCEPT !.heldSound = @ /\ ~ok]
  /\ UNCHANGED <<threads, avfc, codecs, seek, tracks, ui, calls>>

\* Player::Pause stops the decoders before it tells the reader.
Pause ==
  \/ /\ At(App, "pause") /\ Free
     /\ IF flags.isPlaying /\ ~flags.isPaused
          THEN device' = OutputPause(device) /\ Goes(App, "paused")
          ELSE Goes(App, "jump") /\ UNCHANGED device
     /\ UNCHANGED <<flags, threads, avfc, codecs, readerOf, seek, tracks, cp, ui, calls, history>>
  \/ /\ At(App, "paused") /\ Goes(App, "jump")
     /\ flags' = [flags EXCEPT !.isPaused = TRUE, !.isForwarding = FALSE, !.isBackWard = FALSE]
     /\ device' = IF flags.isBackWard THEN Mute(device, FALSE) ELSE device
     /\ UNCHANGED <<threads, avfc, codecs, readerOf, seek, tracks, cp, ui, calls, history>>

-----------------------------------------------------------------------------
(* Steering *)

\* Slip: the sound stays off.
Continue_mute(s) ==
  IF s.flags.isPlaying /\ (s.flags.isPaused \/ s.flags.isForwarding \/ s.flags.isBackWard)
    THEN [flags |-> [Still EXCEPT !.isPlaying = TRUE], device |-> OutputContinue(s.device), held |-> s.held]
    ELSE s

\* Each gives the flags, the decoders and whether the sound stays off.
Continue(s) ==
  IF s.flags.isPlaying /\ (s.flags.isPaused \/ s.flags.isForwarding \/ s.flags.isBackWard)
    THEN [flags |-> [Still EXCEPT !.isPlaying = TRUE],
          device |-> LET d == OutputContinue(s.device)
                     IN  IF s.flags.isBackWard THEN Mute(d, FALSE) ELSE d,
          held |-> s.held]
    ELSE s

Steers(s) == tracks.v # 0 /\ (~s.flags.isPaused \/ s.flags.isPlaying)

FastForward(s) ==
  IF Steers(s) /\ ~cp.file.http /\ ~s.flags.isBackWard
    THEN [s EXCEPT !.flags.isForwarding = TRUE, !.device = OutputFast(s.device)] ELSE s

\* Speed 0 ends the rewinding, and leaves the sound off.
FastBackward(s, zero) ==
  IF Steers(s) /\ ~s.flags.isForwarding
    THEN [flags  |-> [s.flags EXCEPT !.isBackWard = ~zero],
          device |-> IF zero THEN Clear(s.device) ELSE Mute(Clear(s.device), TRUE),
          held   |-> s.held \/ (zero /\ s.flags.isBackWard)]
    ELSE s

Now == [flags |-> flags, device |-> device, held |-> history.heldSound]

Speed ==
  /\ At(App, "speed") /\ Free
  /\ LET s == CASE ~cp.playing    -> Now
                [] cp.speed = 1   -> Continue(Now)
                [] cp.speed = 2   -> FastForward(IF flags.isBackWard THEN FastBackward(Now, TRUE) ELSE Now)
                [] cp.speed = -2  -> FastBackward(IF flags.isForwarding THEN Continue(Now) ELSE Now, FALSE)
                [] OTHER          -> Now
     IN  /\ flags' = s.flags /\ device' = s.device /\ history' = [history EXCEPT !.heldSound = s.held]
         /\ Goes(App, CASE ~cp.playing -> "idle"
                        [] cp.playing /\ cp.speed = 0 /\ (flags.isForwarding \/ ~flags.isBackWard) -> "pause"
                        [] OTHER -> "jump")
  /\ cp' = [cp EXCEPT !.speed = 1]
  /\ UNCHANGED <<threads, avfc, codecs, readerOf, seek, tracks, ui, calls>>

\* The jump that was asked for before the playback.
InitJump ==
  /\ At(App, "jump") /\ Goes(App, "idle")
  /\ cp' = [cp EXCEPT !.init_jump = FALSE]
  /\ IF cp.init_jump THEN Free /\ Seek(TRUE) ELSE UNCHANGED <<seek, device, history>>
  /\ UNCHANGED <<flags, threads, avfc, codecs, readerOf, tracks, ui, calls>>

SetSpeed(speed) ==
  /\ cp' = [cp EXCEPT !.speed = speed, !.decoders_closed = TRUE]
  /\ Goes(App, IF cp.decoders_closed THEN "speed" ELSE "play")
  /\ UNCHANGED <<flags, threads, avfc, codecs, readerOf, seek, tracks, device, ui, history>>

SetPosition(absolute) ==
  /\ IF cp.playing THEN Free /\ Seek(absolute) /\ UNCHANGED cp
     ELSE cp' = [cp EXCEPT !.init_jump = TRUE] /\ UNCHANGED <<seek, device, history>>
  /\ UNCHANGED <<pc, flags, threads, avfc, codecs, readerOf, tracks, ui>>

SetAPid(pid) ==
  /\ Free /\ pid \in getTrack(tracks, cp.file.audio)
  /\ tracks' = [tracks EXCEPT !.a = pid]
  /\ LET d == OutputSwitchAudio(device, tracks.a, pid)
     IN  device' = IF tracks.v = 0 THEN d ELSE Clear(d)
  /\ seek' = [seek EXCEPT !.rel = "app", !.abs = FALSE]
  /\ history' = [history EXCEPT !.newest = "rel", !.lostSeek = @ \/ Overwrites("rel"),
                                !.heldSound = @ /\ (tracks.a = pid \/ ~device.open)]
  /\ UNCHANGED <<pc, flags, threads, avfc, codecs, readerOf, cp, ui>>

SetVPid(pid) ==
  /\ Free /\ pid \in getTrack(tracks, cp.file.video)
  /\ tracks' = [tracks EXCEPT !.v = pid]
  /\ device' = OutputSwitchVideo(device, tracks.v, pid)
  /\ UNCHANGED <<pc, flags, threads, avfc, codecs, readerOf, seek, cp, ui, history>>

SetSubtitlePid(pid) ==
  /\ tracks' = [tracks EXCEPT !.s = IF pid \in getTrack(tracks, cp.file.subs \cup cp.file.static) THEN pid ELSE 0]
  /\ UNCHANGED <<pc, flags, threads, avfc, codecs, readerOf, seek, device, cp, ui, history>>

\* Each list is brought up to date first.
FindAllPids ==
  /\ flags.isPlaying /\ avfc.is = "open"
  /\ tracks' = UpdateTracks(tracks, cp.file)
  /\ UNCHANGED <<pc, flags, threads, avfc, codecs, readerOf, seek, device, cp, ui, history>>

SelectProgram(p) ==
  LET t == selectProgram(tracks, cp.file, p)
  IN  /\ Free /\ avfc.is = "open" /\ tracks' = t
      /\ device' = Clear(OutputSwitchVideo(OutputSwitchAudio(device, tracks.a, t.a), tracks.v, t.v))
      /\ IF cp.file.programs[p] \cap cp.file.audio = {} THEN UNCHANGED <<seek, history>>
         ELSE /\ seek' = [seek EXCEPT !.rel = "app", !.abs = FALSE]
              /\ history' = [history EXCEPT !.newest = "rel", !.lostSeek = @ \/ Overwrites("rel"),
                                            !.heldSound = @ /\ (tracks.a = t.a \/ ~device.open)]
      /\ UNCHANGED <<pc, flags, threads, avfc, codecs, readerOf, cp, ui>>

\* A playback that never played is not stopped: its context stays.
Close ==
  /\ cp' = [cp EXCEPT !.up = FALSE] /\ Goes(App, "test")
  /\ history' = [history EXCEPT !.kept = @ \/ (~flags.isPlaying /\ avfc.is = "open")]
  /\ UNCHANGED <<flags, threads, avfc, codecs, readerOf, seek, tracks, device, ui>>

Calls ==
  /\ At(App, "idle") /\ calls < MaxCalls /\ calls' = calls + 1
  /\ \/ \E f \in Files, ts \in BOOLEAN : Start(f, ts)
     \/ cp.up /\ Close
     \/ cp.up /\ cp.started /\
          \/ \E s \in {-2, 0, 1, 2} : SetSpeed(s)
          \/ \E absolute \in BOOLEAN : SetPosition(absolute)
          \/ \E pid \in Pids(cp.file) : SetAPid(pid) \/ SetVPid(pid)
          \/ \E pid \in {0} \cup cp.file.subs \cup cp.file.static : SetSubtitlePid(pid)
          \/ FindAllPids
          \/ \E p \in DOMAIN cp.file.programs : SelectProgram(p)

-----------------------------------------------------------------------------
(* Player::Stop and Input::Stop, by the application and by a reader that   *)
(* has ended.                                                              *)

StopTest(p) ==
  /\ At(p, "test") /\ Goes(p, IF flags.isPlaying THEN "flags" ELSE "join")
  /\ UNCHANGED <<flags, threads, avfc, codecs, readerOf, seek, tracks, device, cp, ui, calls, history>>

StopFlags(p) ==
  /\ At(p, "flags") /\ Goes(p, "silence") /\ flags' = Still
  /\ flags.isBackWard => MutexFree("audio")
  /\ device' = IF flags.isBackWard THEN Mute(device, FALSE) ELSE device
  /\ UNCHANGED <<threads, avfc, codecs, readerOf, seek, tracks, cp, ui, calls, history>>

StopOutput(p) ==
  /\ At(p, "silence") /\ Free /\ Goes(p, "wait")
  /\ device' = OutputStop(device)
  /\ threads' = [threads EXCEPT !.abortPlayback = TRUE]
  /\ UNCHANGED <<flags, avfc, codecs, readerOf, seek, tracks, cp, ui, calls, history>>

\* Slip: the reader is not waited for.
StopWait_not(p) ==
  /\ At(p, "wait") /\ Goes(p, IF avfc.is = "none" THEN "join" ELSE "free")
  /\ UNCHANGED <<flags, threads, avfc, codecs, readerOf, seek, tracks, device, cp, ui, calls, history>>

StopWait(p) ==
  /\ At(p, "wait") /\ ~threads.hasPlayThreadStarted
  /\ Goes(p, IF avfc.is = "none" THEN "join" ELSE "free")
  /\ UNCHANGED <<flags, threads, avfc, codecs, readerOf, seek, tracks, device, cp, ui, calls, history>>

\* Two that stop at once can both come here; what the second does then is undefined, and it is
\* left out that it crashes.
StopFree(p) ==
  /\ At(p, "free") /\ ui.lock = "free" /\ Goes(p, "join")
  /\ avfc' = [avfc EXCEPT !.is = "none"] /\ codecs' = 0
  /\ history' = [history EXCEPT !.lentClosed = @ \/ Lent]
  /\ UNCHANGED <<flags, threads, readerOf, seek, tracks, device, cp, ui, calls>>

StopJoin(p) ==
  /\ At(p, "join") /\ ~threads.hasThreadStarted
  /\ Goes(p, IF p = App THEN "close" ELSE "none")
  /\ UNCHANGED <<flags, threads, avfc, codecs, readerOf, seek, tracks, device, cp, ui, calls, history>>

StopStep(p) ==
  \/ StopTest(p) \/ StopFlags(p) \/ StopOutput(p) \/ StopWait(p) \/ StopFree(p) \/ StopJoin(p)

\* Output::Close, Player::Close, and the decoders are opened again.
Closed ==
  /\ At(App, "close") /\ Free /\ Goes(App, "idle")
  /\ device' = Off /\ flags' = Still
  /\ cp' = [cp EXCEPT !.playing = FALSE, !.decoders_closed = FALSE, !.started = FALSE,
                        !.init_jump = FALSE, !.file = CHOOSE f \in Files : TRUE]
  /\ UNCHANGED <<threads, avfc, codecs, readerOf, seek, tracks, ui, calls, history>>

-----------------------------------------------------------------------------
(* The reader: Player::playthread and Input::Play *)

Enter(r) ==
  \/ /\ At(r, "born") /\ Goes(r, "marked")
     /\ threads' = [threads EXCEPT !.hasThreadStarted = TRUE]
     /\ UNCHANGED <<flags, avfc, codecs, readerOf, seek, tracks, device, cp, ui, calls, history>>
  \/ /\ At(r, "marked") /\ Goes(r, "loop")
     /\ threads' = [threads EXCEPT !.hasPlayThreadStarted = TRUE]
     /\ UNCHANGED <<flags, avfc, codecs, readerOf, seek, tracks, device, cp, ui, calls, history>>

\* A request is read here and reset when the target is known.
Loop(r) ==
  /\ At(r, "loop")
  /\ \/ /\ ~flags.isPlaying \/ threads.abortRequested
        /\ Goes(r, "leave") /\ UNCHANGED <<seek, history>>
     \/ /\ flags.isPlaying /\ ~threads.abortRequested /\ ~flags.isPaused
        /\ \/ /\ seek.rel # "none" /\ Goes(r, "rel") /\ UNCHANGED seek
              /\ history' = [history EXCEPT !.newest = IF seek.rel = "app" THEN "none" ELSE @]
           \/ /\ seek.rel = "none" /\ seek.abs /\ Goes(r, "abs") /\ UNCHANGED seek
              /\ history' = [history EXCEPT !.newest = "none"]
           \/ /\ seek.rel = "none" /\ ~seek.abs /\ flags.isBackWard
              /\ Goes(r, "back") /\ UNCHANGED <<seek, history>>
           \/ /\ seek.rel = "none" /\ ~seek.abs /\ (flags.isBackWard => seek.bof # "waits")
              /\ Goes(r, "read") /\ seek' = [seek EXCEPT !.bof = "no"]
              /\ UNCHANGED history
  /\ UNCHANGED <<flags, threads, avfc, codecs, readerOf, tracks, device, cp, ui, calls>>

\* Rewinding asks for a jump of its own every 300 ms, until one fails and no frame comes between.
JumpBack(r) ==
  /\ At(r, "back") /\ MutexFree("video") /\ Goes(r, "loop")
  /\ seek' = IF seek.bof = "no" THEN [seek EXCEPT !.rel = "back"] ELSE [seek EXCEPT !.bof = "waits"]
  /\ device' = [device EXCEPT !.full = @ \ {"video"}]
  /\ UNCHANGED <<flags, threads, avfc, codecs, readerOf, tracks, cp, ui, calls, history>>

\* Slip: both requests are reset.
Reset_both(k) == [seek EXCEPT !.rel = "none", !.abs = FALSE]

Reset(k) == IF k = "rel" THEN [seek EXCEPT !.rel = "none"] ELSE [seek EXCEPT !.abs = FALSE]

\* Without a bit rate or a time stamp there is no target.
SeekFile(r) ==
  \E k \in {"rel", "abs"}, target, fails \in BOOLEAN :
    /\ At(r, k) /\ Free /\ Goes(r, "read") /\ (fails => target)
    /\ seek' = [Reset(k) EXCEPT !.bof = IF fails /\ flags.isBackWard THEN "failed" ELSE @]
    /\ device' = IF target THEN Clear(device) ELSE device
    /\ UNCHANGED <<flags, threads, avfc, codecs, readerOf, tracks, cp, ui, calls, history>>

\* av_read_frame and the choice of the decoder.  It gives up when interrupt_cb says so.
ReadFrame(r) ==
  /\ At(r, "read")
  /\ \/ Goes(r, "leave")
     \/ /\ ~threads.abortPlayback /\ ~threads.abortRequested
        /\ \/ Goes(r, "loop")
           \/ tracks.v # 0 /\ tracks.v \notin tracks.discard /\ Goes(r, "forVideo")
           \/ tracks.a # 0 /\ tracks.a \notin tracks.discard /\ ~flags.isBackWard /\ Goes(r, "forAudio")
  /\ UNCHANGED <<flags, threads, avfc, codecs, readerOf, seek, tracks, device, cp, ui, calls, history>>

\* Output::Write keeps the mutex while the decoder takes no more.
Lock(r) ==
  /\ \/ At(r, "forVideo") /\ MutexFree("video") /\ Goes(r, "video")
     \/ At(r, "forAudio") /\ MutexFree("audio") /\ Goes(r, "audio")
  /\ UNCHANGED <<flags, threads, avfc, codecs, readerOf, seek, tracks, device, cp, ui, calls, history>>

Write(r) ==
  \E k \in Kinds :
    /\ At(r, k) /\ (k \notin device.full \/ ~device.open) /\ Goes(r, "loop")
    /\ \/ UNCHANGED device
       \/ device.open /\ Stalls(device, k) /\ device' = [device EXCEPT !.full = @ \cup {k}]
    /\ UNCHANGED <<flags, threads, avfc, codecs, readerOf, seek, tracks, cp, ui, calls, history>>

Leave(r) ==
  \/ /\ At(r, "leave") /\ Free /\ Goes(r, "left")
     /\ device' = IF threads.abortRequested THEN Clear(device) ELSE device
     /\ threads' = [threads EXCEPT !.abortPlayback = TRUE, !.hasPlayThreadStarted = FALSE]
     /\ seek' = [seek EXCEPT !.bof = "no"]
     /\ UNCHANGED <<flags, avfc, codecs, readerOf, tracks, cp, ui, calls, history>>
  \/ /\ At(r, "left") /\ Goes(r, "test")
     /\ threads' = [threads EXCEPT !.hasThreadStarted = FALSE]
     /\ UNCHANGED <<flags, avfc, codecs, readerOf, seek, tracks, device, cp, ui, calls, history>>

Read(r) == Enter(r) \/ Loop(r) \/ JumpBack(r) \/ SeekFile(r) \/ ReadFrame(r) \/ Lock(r) \/ Write(r) \/ Leave(r)

-----------------------------------------------------------------------------
(* The other thread of the application *)

RequestAbort ==
  /\ ui.pc = "idle" /\ ui.times > 0
  /\ ui' = [ui EXCEPT !.pc = "aborting", !.times = @ - 1]   \* it asks once: a bound
  /\ threads' = [threads EXCEPT !.abortRequested = TRUE]
  /\ UNCHANGED <<pc, flags, avfc, codecs, readerOf, seek, tracks, device, cp, calls, history>>

AbortEnds ==
  /\ ui.pc = "aborting" /\ ~flags.isPlaying
  /\ ui' = [ui EXCEPT !.pc = "idle"]
  /\ UNCHANGED <<pc, flags, threads, avfc, codecs, readerOf, seek, tracks, device, cp, calls, history>>

GetAVFormatContext ==
  /\ ui.pc = "idle" /\ ui.lock = "free" /\ avfc.is # "none" /\ ui.times > 0
  /\ ui' = [ui EXCEPT !.pc = "looking", !.lock = "held", !.ctx = IF avfc.is = "open" THEN avfc.no ELSE 0, !.times = @ - 1]
  /\ UNCHANGED <<pc, flags, threads, avfc, codecs, readerOf, seek, tracks, device, cp, calls, history>>

\* Without a context the lock is kept.
ReleaseAVFormatContext ==
  /\ ui.pc = "looking"
  /\ ui' = [ui EXCEPT !.pc = "idle", !.ctx = 0, !.lock = IF avfc.is = "none" THEN "left" ELSE "free"]
  /\ UNCHANGED <<pc, flags, threads, avfc, codecs, readerOf, seek, tracks, device, cp, calls, history>>

Init ==
  /\ pc = [p \in Procs |-> IF p = App THEN "idle" ELSE "none"]
  /\ flags = Still
  /\ threads = [hasThreadStarted |-> FALSE, hasPlayThreadStarted |-> FALSE,
                abortPlayback |-> FALSE, abortRequested |-> FALSE]
  /\ avfc = [no |-> 0, is |-> "none"] /\ codecs = 0
  /\ readerOf = [r \in Readers |-> 0]
  /\ seek = [rel |-> "none", abs |-> FALSE, bof |-> "no"]
  /\ tracks = NoTracks /\ device = Off
  /\ cp = [up |-> FALSE, ts |-> FALSE, file |-> CHOOSE f \in Files : TRUE, init_jump |-> FALSE,
           decoders_closed |-> FALSE, playing |-> FALSE, speed |-> 1, started |-> FALSE]
  /\ ui = [pc |-> "idle", lock |-> "free", ctx |-> 0, times |-> 1]
  /\ calls = 0
  /\ history = [overtaken |-> FALSE, kept |-> FALSE, heldSound |-> FALSE, lostSeek |-> FALSE,
                leftover |-> FALSE, newest |-> "none", lentClosed |-> FALSE]

AppStep == Opened \/ Play \/ Pause \/ Speed \/ InitJump \/ StopStep(App) \/ Closed
ReaderStep(r) == Read(r) \/ StopStep(r)
UiStep == AbortEnds \/ ReleaseAVFormatContext

\* A file that is opened while the thread of the last one is there ends the model: that thread
\* may go on to read, to stop or to close the new one.
Next ==
  /\ ~history.overtaken
  /\ Calls \/ AppStep \/ (\E r \in Readers : ReaderStep(r)) \/ RequestAbort \/ GetAVFormatContext \/ UiStep

\* Threads run on; the application is free to call nothing more, and the mutexes are not fair.
Spec == Init /\ [][Next]_vars
FairSpec == Spec /\ SF_vars(AppStep) /\ (\A r \in Readers : SF_vars(ReaderStep(r))) /\ WF_vars(UiStep)

-----------------------------------------------------------------------------
Uses(r) == pc[r] \in {"rel", "abs", "read", "forVideo", "forAudio"} \cup Kinds

(* A reader uses the context its playback was opened with, and codec       *)
(* contexts of that file, until it has left (Input::Stop waits for         *)
(* hasPlayThreadStarted and frees codecs[]).  Not so when a file is opened *)
(* while the thread of the last one is still there, which Player::Stop     *)
(* does not exclude: the mark hasThreadStarted comes late and goes early.  *)
(* Codec contexts stay behind when a file was opened and never played.     *)
ReaderReadsItsFile ==
  ~history.overtaken =>
    \A r \in Readers : Uses(r) => /\ avfc.is = "open" /\ readerOf[r] = avfc.no
                                  /\ codecs = avfc.no \/ history.kept
                                  /\ \A s \in Readers \ {r} : ~Uses(s)

(* A context lent by GetAVFormatContext is not closed before it is given   *)
(* back, unless it was lent while the file was still being opened.         *)
LentContextStays == ~history.lentClosed

(* The last seek that was asked for is the one the reader finds, with no   *)
(* older one left (Input::Seek, Input::Play).  It is lost when it comes    *)
(* between the reading and the resetting of the one before; and one that   *)
(* no reader took is still there for the next file.                        *)
SeekIsTaken ==
  ~history.lostSeek /\ ~history.leftover /\ ~history.overtaken =>
    CASE history.newest = "rel"  -> seek.rel = "app" /\ (seek.abs => \E r \in Readers : At(r, "abs"))
      [] history.newest = "abs"  -> seek.abs /\ (seek.rel = "app" => \E r \in Readers : At(r, "rel"))
      [] history.newest = "none" -> /\ seek.rel = "app" => \E r \in Readers : At(r, "rel")
                                    /\ seek.abs => \E r \in Readers : At(r, "abs")

(* Once rewinding is over the sound is back, whatever ended it, except for *)
(* the switch from rewinding to fast forward (Player::FastBackward with    *)
(* speed 0 leaves the audio decoder stopped).                              *)
SoundComesBack ==
  At(App, "idle") /\ flags.isPlaying /\ ~flags.isBackWard /\ device.open /\ tracks.a # 0
    /\ ~history.heldSound /\ ~history.overtaken => device.audio = "play"

(* "not part of currently selected program": what a list offers of the     *)
(* selected program is read.                                               *)
ListedIsRead == flags.isPlaying => Listed(tracks) \cap tracks.discard = {}

Stuck == \/ \E r \in Readers, k \in Kinds : At(r, k) /\ k \in device.full /\ device.open
         \/ ui.lock = "left"

(* An abort ends the playback, and a Close comes back, unless the reader   *)
(* sits in a decoder that takes no more: stopped by Pause before the       *)
(* reader was told, or left without sound; or a lock was never given back. *)
(* An abort asked for before a file is opened is taken back by opening it  *)
(* (Player::Open).                                                         *)
AbortAsked == ui.pc = "aborting" /\ threads.abortRequested
AbortDone  == ~flags.isPlaying \/ ~threads.abortRequested \/ Stuck
CloseAsked == At(App, "test")
CloseDone  == At(App, "idle") \/ Stuck
RequestsEnd == (AbortAsked ~> AbortDone) /\ (CloseAsked ~> CloseDone)
===============================================================================
