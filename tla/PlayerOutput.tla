----------------------------- MODULE PlayerOutput -----------------------------
(***************************************************************************)
(* One playback of libeplayer3 from its commands down to the decoders: the *)
(* PLAYBACK_* commands of playback.c, their way through output.c to        *)
(* linuxdvb_mipsel.c or linuxdvb_sh4.c, and the reader thread of           *)
(* container_ffmpeg.c, which writes to the same decoders, directly or by   *)
(* way of the queue of linuxdvb_buffering.c.                               *)
(*                                                                         *)
(* A command is a sequence of steps, `todo'.  A section under LinuxDVBmutex*)
(* or under the container mutex is one step, taken when the mutex is free; *)
(* the reader alone keeps one of them over several steps.                  *)
(***************************************************************************)
EXTENDS Naturals, Sequences

CONSTANTS Outputs,       \* the decoder outputs of the instance, see Init
          MaxCommands,   \* bound: commands of the application after the start
          Commands,      \* the commands it gives
          DeviceSize,    \* packets a decoder takes before write() blocks
          QueueSize      \* packets the queue takes before BufferingWriteV waits

ASSUME BoundsAssumption == /\ MaxCommands \in Nat
                           /\ DeviceSize \in Nat \ {0}
                           /\ QueueSize \in Nat \ {0}

ASSUME OutputsAssumption == Outputs \subseteq [box : {"mipsel", "sh4"}, buffered : BOOLEAN]

\* what cPlayback calls; the parts of a command are not for the application
ASSUME CommandsAssumption ==
  Commands \subseteq {"pause", "continue", "forward", "backward", "backward 0", "slow", "seek", "audio",
                     "stop", "speed 0", "speed 1", "speed 2", "speed -2"}

VARIABLES
  output,     \* [box, buffered]: the board, and isBufferedOutput
  tracks,     \* isVideo, isAudio
  pb,         \* the other flags of the PlaybackHandler
  dieNow,
  todo,       \* what the application's command still has to do
  commands,   \* commands so far
  dvb,        \* who holds LinuxDVBmutex
  lock,       \* who holds the container mutex
  seekTo,     \* do_seek_target_seconds or do_seek_target_bytes
  bofcount,   \* a seek backwards failed
  reader,     \* [at, type, old]: where the reader is, and the packet it has
  left,       \* av_read_frame still reads from before the last seek
  dev,        \* the decoders: [state, open, data, fast]
  added,      \* OutputHandler.video and .audio: the tracks whose output is set
  muted,
  queue,      \* the queue of the buffered output, a sequence of packets
  drain,      \* the packet its thread has in hand, and whether it is written
  oldOnes,    \* history: packets of before the last seek that went in since it began
  stopped,    \* history: the tracks that had their OUTPUT_STOP
  heldSound,  \* history: a pause came in fast forward
  overtaken   \* history: a seek was given while the reader carried out another

app  == <<todo, commands>>
devs == <<dev, added, muted>>
fifo == <<queue, drain>>
hist == <<oldOnes, stopped, heldSound, overtaken>>
vars == <<output, tracks, pb, dieNow, app, dvb, lock, seekTo, bofcount, reader, left, devs, fifo, hist>>

Types   == {"video", "audio"}
Packets == [type : Types, old : BOOLEAN]
NoPacket == [type |-> "none", old |-> FALSE]

IsSh4    == output.box = "sh4"
Buffered == output.buffered

-----------------------------------------------------------------------------
(* The steps of a command.  Out is OutputHandler's Command: video first,   *)
(* then audio, each only when the playback has it.                         *)

Step(op, t) == [op |-> op, type |-> t]

\* LinuxDvbOutput's Command: these reset the writers and flush the queue afterwards
Resets == {"clear", "stop"}

Reset(t) == <<Step("reset", t)>> \o (IF Buffered THEN <<Step("buffFlush", t)>> ELSE <<>>)

Dvb(op, t) ==
    IF t \notin tracks THEN <<>>
    ELSE CASE op = "close"   -> <<Step("stop", t), Step("close", t)>> \o Reset(t)
           [] op \in Resets  -> <<Step(op, t)>> \o Reset(t)
           [] OTHER          -> <<Step(op, t)>>

Out(op) == Dvb(op, "video") \o Dvb(op, "audio")

AVSync          == IF tracks = Types THEN Dvb("avsync", "audio") ELSE <<>>
AudioMute(flag) == Dvb(IF flag = "1" THEN "mute" ELSE "unmute", "audio")
Switch          == IF "audio" \in tracks THEN Dvb("switch", "audio") ELSE Dvb("switch", "video")

Flags == {"isPlaying", "isPaused", "isSeeking", "isForwarding", "BackWard", "SlowMotion"}

\* the flags that are off when the playback runs normally
Normal == {"isForwarding", "BackWard", "SlowMotion"}

\* a command sets some flags and clears others
Set(on, off) == <<[op |-> "set", on |-> on, off |-> off]>>
Call(c) == <<[op |-> "call", command |-> c]>>
Do(op)  == <<Step(op, "none")>>
Trick   == pb.isForwarding \/ pb.BackWard \/ pb.SlowMotion

PlaybackPause ==
    IF pb.isPlaying /\ ~pb.isPaused
    THEN (IF pb.SlowMotion THEN Out("clear") ELSE <<>>) \o Out("pause") \o Set({"isPaused"}, Normal)
    ELSE <<>>

\* Slip: the sound stays off.
PlaybackContinue_quiet ==
    IF pb.isPlaying /\ (pb.isPaused \/ Trick)
    THEN (IF Trick THEN Out("clear") ELSE <<>>)
         \o Set({}, {"isPaused"} \cup Normal) \o Out("continue")
    ELSE <<>>

PlaybackContinue ==
    IF pb.isPlaying /\ (pb.isPaused \/ Trick)
    THEN (IF Trick THEN Out("clear") ELSE <<>>)
         \o (IF pb.BackWard \/ pb.isForwarding THEN AudioMute("0") ELSE <<>>)
         \o Set({}, {"isPaused"} \cup Normal) \o Out("continue")
    ELSE <<>>

PlaybackFastForward ==
    IF "video" \in tracks /\ ~pb.BackWard /\ (~pb.isPaused \/ pb.isPlaying)
    THEN Set({"isForwarding"}, {}) \o Out("fastForward") \o AudioMute("1")
    ELSE <<>>

\* speed 0 ends the rewind, a negative one starts it
PlaybackFastBackward(speed0) ==
    IF "video" \in tracks /\ ~pb.isForwarding /\ (~pb.isPaused \/ pb.isPlaying)
    THEN Call("continue")
         \o Set({}, {"isPaused"} \cup Normal)
         \o (IF speed0 THEN <<>> ELSE Set({"BackWard", "isSeeking"}, {}))
         \o Out("clear") \o Set({}, {"isSeeking"})
    ELSE Set({}, {"isSeeking"})

PlaybackSlowMotion ==
    IF "video" \in tracks /\ pb.isPlaying
    THEN (IF pb.isPaused THEN Call("continue") ELSE <<>>)
         \o Set({"SlowMotion"}, {}) \o Out("slowMotion")
    ELSE <<>>

\* Slip: the reader may go on before the container knows where to.
PlaybackSeek_early ==
    IF pb.isPlaying /\ ~Trick /\ ~pb.isPaused
    THEN Set({"isSeeking"}, {}) \o Out("clear") \o Set({}, {"isSeeking"}) \o Do("containerSeek")
    ELSE <<>>

PlaybackSeek ==
    IF pb.isPlaying /\ ~Trick /\ ~pb.isPaused
    THEN Set({"isSeeking"}, {}) \o Out("clear") \o Do("containerSeek") \o Set({}, {"isSeeking"})
    ELSE <<>>

\* another track: the decoder first, then the container, which seeks three seconds back
PlaybackSwitchAudio ==
    IF pb.isPlaying /\ "audio" \in tracks
    THEN Switch \o Do("containerSwitch") \o Call("seek")
    ELSE <<>>

\* Slip: the threads hear of it after the decoders.
PlaybackStop_late ==
    Call("stopOutput") \o Do("dieNow")

PlaybackStop ==
    Do("dieNow") \o Call("stopOutput")

StopOutput ==
    IF pb.isPlaying
    THEN Set({}, {"isPlaying", "isPaused"} \cup Normal) \o Out("stop") \o Do("containerStop") \o Do("containerClose")
    ELSE <<>>

PlaybackPlay ==
    IF pb.isPlaying THEN <<>>
    ELSE AVSync
         \o Out("play") \o Set({"isPlaying"}, {"isPaused"} \cup Normal) \o Do("containerPlay")

\* cPlayback::SetSpeed
SetSpeed(c) ==
    CASE c = "speed 0"  -> IF pb.isForwarding \/ ~pb.BackWard THEN Call("pause") ELSE Call("backward 0")
      [] c = "speed 1"  -> Call("continue")
      [] c = "speed 2"  -> (IF pb.isPaused THEN Call("continue") ELSE <<>>)
                           \o (IF pb.BackWard THEN Call("backward 0") ELSE <<>>) \o Call("forward")
      [] c = "speed -2" -> (IF pb.isForwarding THEN Call("continue") ELSE <<>>) \o Call("backward")

Steps(c) ==
    CASE c = "pause"       -> PlaybackPause
      [] c = "continue"    -> PlaybackContinue
      [] c = "forward"     -> PlaybackFastForward
      [] c = "backward"    -> PlaybackFastBackward(FALSE)
      [] c = "backward 0"  -> PlaybackFastBackward(TRUE)
      [] c = "slow"        -> PlaybackSlowMotion
      [] c = "seek"        -> PlaybackSeek
      [] c = "audio"       -> PlaybackSwitchAudio
      [] c = "stop"        -> PlaybackStop \o Call("closeOutput")
      [] c = "stopOutput"  -> StopOutput
      [] c = "closeOutput" -> Out("close") \o <<Step("del", "audio"), Step("del", "video")>>
      [] c = "start"       -> Out("open") \o Call("play")
      [] c = "play"        -> PlaybackPlay
      [] OTHER             -> SetSpeed(c)

-----------------------------------------------------------------------------
(* The decoders and their drivers.                                         *)

NewDevice == [state |-> "stopped", open |-> FALSE, data |-> 0, fast |-> FALSE]

Mipsel == INSTANCE OutputMipsel
Sh4    == INSTANCE OutputSH4

Device(op, t, d) == IF IsSh4 THEN Sh4!OperationSh4(op, t, d) ELSE Mipsel!Operation(op, t, d, pb.isForwarding)

\* the operations that take LinuxDVBmutex
Locked(op) == IF IsSh4 THEN Sh4!LockedSh4(op) ELSE Mipsel!Locked(op)

-----------------------------------------------------------------------------
(* The application's thread.                                               *)

\* nothing is open and no command under way
Closed ==
  /\ output \in Outputs
  /\ tracks \in {Types, {"audio"}}
  /\ pb = [f \in Flags |-> FALSE]
  /\ dieNow = FALSE
  /\ commands = 0
  /\ dvb = "none" /\ lock = "none"
  /\ seekTo = FALSE /\ bofcount = FALSE
  /\ reader = [at |-> "none", packet |-> NoPacket]
  /\ left = FALSE
  /\ dev = [t \in Types |-> NewDevice] /\ added = Types /\ muted = FALSE
  /\ queue = <<>> /\ drain = [at |-> "none", packet |-> NoPacket]
  /\ oldOnes = 0 /\ stopped = {} /\ heldSound = FALSE /\ overtaken = FALSE

\* cPlayback::Start has opened the file: OUTPUT_OPEN and PLAYBACK_PLAY follow
Init == Closed /\ todo = Call("start")

Give(c) ==
  /\ todo = <<>> /\ commands < MaxCommands
  /\ stopped = {} /\ dev["audio"].open
  /\ commands' = commands + 1
  /\ todo' = Call(c)
  /\ UNCHANGED <<output, tracks, pb, dieNow, dvb, lock, seekTo, bofcount, reader, left, devs, fifo, hist>>

Next1 == Head(todo)
Done  == todo' = Tail(todo) /\ UNCHANGED commands

\* the command of the playback handler, its conditions read when it is called
Called ==
  /\ todo # <<>> /\ Next1.op = "call"
  /\ todo' = Steps(Next1.command) \o Tail(todo)
  /\ UNCHANGED <<output, tracks, pb, dieNow, commands, dvb, lock, seekTo, bofcount, reader, left, devs, fifo, hist>>

\* with a seek all that was read before is old
Old(p) == [p EXCEPT !.old = (p # NoPacket)]
SeekBegins ==
  /\ oldOnes' = 0 /\ left' = TRUE
  /\ reader' = [reader EXCEPT !.packet = Old(@)]
  /\ drain' = [drain EXCEPT !.packet = Old(@)]
  /\ queue' = [i \in DOMAIN queue |-> Old(queue[i])]

\* flags of the playback handler; nothing protects them
SetFlags ==
  /\ todo # <<>> /\ Next1.op = "set"
  /\ pb' = [f \in Flags |-> f \in Next1.on \/ (pb[f] /\ f \notin Next1.off)]
  /\ IF pb'.isSeeking /\ ~pb'.BackWard /\ ~pb.isSeeking THEN SeekBegins
     ELSE UNCHANGED <<oldOnes, left, reader, fifo>>
  /\ heldSound' = (heldSound \/ (pb'.isPaused /\ ~pb.isPaused /\ pb.isForwarding))
  /\ Done
  /\ UNCHANGED <<output, tracks, dieNow, dvb, lock, seekTo, bofcount, devs, stopped, overtaken>>

\* an operation of the decoder output on one track, without the reset and the queue
OutputStep ==
  /\ todo # <<>> /\ Next1.op \notin {"call", "set", "buffFlush"} /\ Next1.type # "none"
  /\ Locked(Next1.op) => dvb = "none"
  /\ LET op == Next1.op  t == Next1.type IN
       /\ dev' = [dev EXCEPT ![t] = Device(op, t, @)]
       /\ muted' = IF op = "mute" /\ ~IsSh4 THEN TRUE ELSE IF op = "unmute" THEN FALSE ELSE muted
       /\ added' = IF op = "del" THEN added \ {t} ELSE added
       /\ stopped' = IF op = "stop" THEN stopped \cup {t} ELSE stopped
  /\ Done
  /\ UNCHANGED <<output, tracks, pb, dieNow, dvb, lock, seekTo, bofcount, reader, left, fifo, oldOnes, heldSound, overtaken>>

\* LinuxDvbBuffFlush: the queue is emptied, a writer that waits for room woken
BuffFlush ==
  /\ todo # <<>> /\ Next1.op = "buffFlush"
  /\ queue' = <<>>
  /\ reader' = IF Buffered /\ reader.at = "full" THEN [reader EXCEPT !.at = "device"] ELSE reader
  /\ Done
  /\ UNCHANGED <<output, tracks, pb, dieNow, dvb, lock, seekTo, bofcount, left, devs, drain, hist>>

DieNow ==
  /\ todo # <<>> /\ Next1 = Step("dieNow", "none")
  /\ dieNow' = TRUE
  /\ Done
  /\ UNCHANGED <<output, tracks, pb, dvb, lock, seekTo, bofcount, reader, left, devs, fifo, hist>>

\* container_ffmpeg_seek: only the target, no mutex
ContainerSeek ==
  /\ todo # <<>> /\ Next1 = Step("containerSeek", "none")
  /\ seekTo' = (seekTo \/ pb.isPlaying)
  /\ overtaken' = (overtaken \/ reader.at = "seeking")
  /\ Done
  /\ UNCHANGED <<output, tracks, pb, dieNow, dvb, lock, bofcount, reader, left, devs, fifo, oldOnes, stopped, heldSound>>

\* container_ffmpeg_switch_audio and the end of container_ffmpeg_stop, under the container mutex
ContainerLocked ==
  /\ todo # <<>> /\ Next1 \in {Step("containerSwitch", "none"), Step("containerClose", "none")}
  /\ lock = "none"
  /\ Done
  /\ UNCHANGED <<output, tracks, pb, dieNow, dvb, lock, seekTo, bofcount, reader, left, devs, fifo, hist>>

ContainerPlay ==
  /\ todo # <<>> /\ Next1 = Step("containerPlay", "none")
  /\ reader' = [reader EXCEPT !.at = "loop"]
  /\ Done
  /\ UNCHANGED <<output, tracks, pb, dieNow, dvb, lock, seekTo, bofcount, left, devs, fifo, hist>>

\* container_ffmpeg_stop waits for the end of the reader, five seconds at most; then it closes nothing
ReaderIsOver == reader.at \in {"none", "close", "gone"}

ContainerStop ==
  /\ todo # <<>> /\ Next1 = Step("containerStop", "none")
  /\ pb' = [pb EXCEPT !.isPlaying = FALSE]
  /\ todo' = IF ReaderIsOver THEN Tail(todo) ELSE SubSeq(todo, 3, Len(todo))
  /\ UNCHANGED <<output, tracks, dieNow, commands, dvb, lock, seekTo, bofcount, reader, left, devs, fifo,
                 oldOnes, stopped, heldSound, overtaken>>

AppStep == \/ Called \/ SetFlags \/ OutputStep \/ BuffFlush \/ DieNow
           \/ ContainerSeek \/ ContainerLocked \/ ContainerPlay \/ ContainerStop

-----------------------------------------------------------------------------
(* The reader thread.  Its tests of the flags before it takes the          *)
(* container mutex are one step; waits of some milliseconds are stutters.  *)

Packet(t) == [type |-> t, old |-> left]
Reader(a) == reader' = [reader EXCEPT !.at = a]
ReaderKeeps == UNCHANGED <<output, tracks, app, stopped, heldSound, overtaken>>

\* only the build for the sh4 waits while the playback is paused
ReaderLoop ==
  /\ reader.at = "loop"
  /\ ~pb.isPlaying \/ (~pb.isSeeking /\ ~(IsSh4 /\ ~Buffered /\ pb.isPaused))
  /\ Reader(IF pb.isPlaying THEN "lock" ELSE "end")
  /\ UNCHANGED <<pb, dieNow, dvb, lock, seekTo, bofcount, left, devs, fifo, oldOnes>>
  /\ ReaderKeeps

\* with BackWard the reader jumps back each time the last jump has been shown for 300 ms
ReaderLock ==
  /\ reader.at = "lock" /\ lock = "none"
  /\ \/ /\ ~pb.isPlaying
        /\ Reader("loop") /\ UNCHANGED <<lock, bofcount>>
     \/ /\ pb.isPlaying /\ lock' = "reader"
        /\ \/ /\ pb.BackWard
              /\ Reader("rewind") /\ UNCHANGED bofcount
           \/ /\ bofcount' = FALSE
              /\ Reader("seek")
  /\ UNCHANGED <<pb, dieNow, dvb, seekTo, left, devs, fifo, oldOnes>>
  /\ ReaderKeeps

\* OUTPUT_CLEAR "video", and where to jump.  At the beginning of the file the loop starts
\* again: the mutex stays taken.
ReaderRewind ==
  /\ reader.at = "rewind" /\ dvb = "none"
  /\ dev' = IF "video" \in tracks THEN [dev EXCEPT !["video"] = Device("clear", "video", @)] ELSE dev
  /\ queue' = IF "video" \in tracks THEN <<>> ELSE queue
  /\ IF bofcount THEN Reader("loop") /\ UNCHANGED seekTo
                 ELSE Reader("seek") /\ seekTo' = TRUE
  /\ UNCHANGED <<pb, dieNow, dvb, lock, bofcount, left, added, muted, drain, oldOnes>>
  /\ ReaderKeeps

\* the pending seek
ReaderSeek ==
  /\ reader.at = "seek"
  /\ IF seekTo
     THEN /\ Reader("seeking")
          /\ left' = FALSE
          /\ bofcount' \in {bofcount, bofcount \/ pb.BackWard}
     ELSE Reader("sought") /\ UNCHANGED <<left, bofcount>>
  /\ UNCHANGED <<pb, dieNow, dvb, lock, seekTo, devs, fifo, oldOnes>>
  /\ ReaderKeeps

\* both do_seek_target flags are cleared afterwards, one set in the meantime too
ReaderSought ==
  /\ reader.at = "seeking"
  /\ seekTo' = FALSE
  /\ Reader("sought")
  /\ UNCHANGED <<pb, dieNow, dvb, lock, bofcount, left, devs, fifo, oldOnes>>
  /\ ReaderKeeps

\* av_read_frame goes on without the mutex
ReaderUnlock ==
  /\ reader.at = "sought"
  /\ lock' = "none"
  /\ Reader("read")
  /\ UNCHANGED <<pb, dieNow, dvb, seekTo, bofcount, left, devs, fifo, oldOnes>>
  /\ ReaderKeeps

\* a packet of one of the tracks, or the end of the file: for a while a seek can still bring
\* the reader back, then it ends
ReaderRead ==
  /\ reader.at = "read" /\ lock = "none"
  /\ \/ \E t \in tracks : reader' = [at |-> "write", packet |-> Packet(t)]
     \/ Reader("loop")
     \/ Reader("end")
  /\ UNCHANGED <<pb, dieNow, dvb, lock, seekTo, bofcount, left, devs, fifo, oldOnes>>
  /\ ReaderKeeps

\* Write of the output: linuxdvb_mipsel.c holds LinuxDVBmutex until the packet is taken
ReaderWrite ==
  /\ reader.at = "write"
  /\ IsSh4 \/ dvb = "none"
  /\ dvb' = IF IsSh4 THEN dvb ELSE "reader"
  /\ Reader("device")
  /\ UNCHANGED <<pb, dieNow, lock, seekTo, bofcount, left, devs, fifo, oldOnes>>
  /\ ReaderKeeps

Wrote == /\ reader' = [at |-> "wrote", packet |-> NoPacket]
         /\ dvb' = IF IsSh4 THEN dvb ELSE "none"

Counts(p) == oldOnes' = IF p.old /\ oldOnes < 3 THEN oldOnes + 1 ELSE oldOnes

\* BufferingWriteV tests dieNow before it waits, and after a wake
ReaderQueues ==
  /\ reader.at = "device" /\ Buffered
  /\ \/ /\ dieNow
        /\ Wrote /\ UNCHANGED <<queue, oldOnes>>
     \/ /\ ~dieNow /\ Len(queue) < QueueSize
        /\ queue' = Append(queue, reader.packet)
        /\ Wrote /\ UNCHANGED oldOnes
     \/ /\ ~dieNow /\ Len(queue) >= QueueSize
        /\ Reader("full") /\ UNCHANGED <<dvb, queue, oldOnes>>
  /\ UNCHANGED <<pb, dieNow, lock, seekTo, bofcount, left, devs, drain>>
  /\ ReaderKeeps

\* the write to the decoder: writev_with_retry tests dieNow first, writev of the sh4 does not
ReaderStarts ==
  /\ reader.at = "device" /\ ~Buffered
  /\ IF dieNow /\ ~IsSh4 THEN Wrote ELSE Reader("blocked") /\ UNCHANGED dvb
  /\ UNCHANGED <<pb, dieNow, lock, seekTo, bofcount, left, devs, fifo, oldOnes>>
  /\ ReaderKeeps

\* Slip: LinuxDVBmutex is kept when the write failed.
ReaderDelivers_keeps ==
  /\ reader.at = "blocked"
  /\ LET p == reader.packet  d == dev[p.type] IN
       \/ /\ d.open /\ d.data < DeviceSize
          /\ dev' = [dev EXCEPT ![p.type].data = @ + 1]
          /\ Counts(p)
       \/ ~d.open /\ UNCHANGED <<dev, oldOnes>>
  /\ reader' = [at |-> "wrote", packet |-> NoPacket]
  /\ UNCHANGED <<dvb, pb, dieNow, lock, seekTo, bofcount, left, added, muted, fifo>>
  /\ ReaderKeeps

\* the decoder takes the packet when it has room; a closed device is an error
ReaderDelivers ==
  /\ reader.at = "blocked"
  /\ LET p == reader.packet  d == dev[p.type] IN
       \/ /\ d.open /\ d.data < DeviceSize
          /\ dev' = [dev EXCEPT ![p.type].data = @ + 1]
          /\ Counts(p)
       \/ ~d.open /\ UNCHANGED <<dev, oldOnes>>
  /\ Wrote
  /\ UNCHANGED <<pb, dieNow, lock, seekTo, bofcount, left, added, muted, fifo>>
  /\ ReaderKeeps

\* back under the container mutex
ReaderWrote ==
  /\ reader.at = "wrote" /\ lock = "none"
  /\ Reader("loop")
  /\ UNCHANGED <<pb, dieNow, dvb, lock, seekTo, bofcount, left, devs, fifo, oldOnes>>
  /\ ReaderKeeps

\* the end of the thread, then its own call of container_ffmpeg_stop
ReaderEnds ==
  /\ reader.at = "end"
  /\ pb' = [pb EXCEPT !.isPlaying = FALSE]
  /\ dieNow' = TRUE
  /\ Reader("close")
  /\ UNCHANGED <<dvb, lock, seekTo, bofcount, left, devs, fifo, oldOnes>>
  /\ ReaderKeeps

ReaderCloses ==
  /\ reader.at = "close" /\ lock = "none"
  /\ Reader("gone")
  /\ UNCHANGED <<pb, dieNow, dvb, lock, seekTo, bofcount, left, devs, fifo, oldOnes>>
  /\ ReaderKeeps

Ffmpeg == \/ ReaderLoop \/ ReaderLock \/ ReaderRewind \/ ReaderSeek \/ ReaderSought \/ ReaderUnlock \/ ReaderRead \/ ReaderWrite
          \/ ReaderQueues \/ ReaderStarts \/ ReaderDelivers \/ ReaderWrote \/ ReaderEnds \/ ReaderCloses

-----------------------------------------------------------------------------
(* The thread of the buffered output, in short (BufferingQueue has it in   *)
(* full), and the decoders.                                                *)

\* the next packet; the room of the last one is signalled
DrainTakes ==
  /\ Buffered /\ ~dieNow /\ drain.at \in {"none", "written"}
  /\ drain.at = "written" \/ queue # <<>>
  /\ reader' = IF drain.at = "written" /\ reader.at = "full" THEN [reader EXCEPT !.at = "device"] ELSE reader
  /\ IF queue = <<>> THEN /\ drain' = [at |-> "none", packet |-> NoPacket]
                          /\ UNCHANGED queue
     ELSE /\ drain' = [at |-> "write", packet |-> Head(queue)]
          /\ queue' = Tail(queue)
  /\ UNCHANGED <<output, tracks, pb, dieNow, app, dvb, lock, seekTo, bofcount, left, devs, hist>>

\* WriteWithRetry gives up when the playback ends or seeks
DrainWrites ==
  /\ drain.at = "write"
  /\ LET p == drain.packet  d == dev[p.type] IN
       \/ /\ dieNow \/ pb.isSeeking \/ ~d.open
          /\ UNCHANGED <<dev, oldOnes>>
       \/ /\ ~dieNow /\ ~pb.isSeeking /\ d.open /\ d.data < DeviceSize
          /\ dev' = [dev EXCEPT ![p.type].data = @ + 1]
          /\ Counts(p)
  /\ drain' = [at |-> "written", packet |-> NoPacket]
  /\ UNCHANGED <<output, tracks, pb, dieNow, app, dvb, lock, seekTo, bofcount, reader, left, added, muted, queue, stopped, heldSound, overtaken>>

\* a decoder that plays consumes what it has
Plays(t) ==
  /\ dev[t].open /\ dev[t].state = "playing" /\ dev[t].data > 0
  /\ dev' = [dev EXCEPT ![t].data = @ - 1]
  /\ UNCHANGED <<output, tracks, pb, dieNow, app, dvb, lock, seekTo, bofcount, reader, left, added, muted, fifo, hist>>

Next == (\E c \in Commands : Give(c)) \/ AppStep \/ Ffmpeg \/ DrainTakes \/ DrainWrites \/ \E t \in Types : Plays(t)

\* No command is owed; every thread runs on, and each mutex reaches who waits for it.
Fairness == /\ SF_vars(AppStep) /\ SF_vars(Ffmpeg)
            /\ WF_vars(DrainTakes \/ DrainWrites) /\ \A t \in Types : WF_vars(Plays(t))

Spec     == Init /\ [][Next]_vars
FairSpec == Spec /\ Fairness

-----------------------------------------------------------------------------
Quiet == todo = <<>> /\ pb.isPlaying

\* What the flags of the playback say of the decoders is so whenever no command is under way: a
\* paused picture stands, and otherwise picture and sound run, the sound muted only in fast
\* forward.  After a pause that came in fast forward the sound stays off: PlaybackPause forgets
\* isForwarding, and PlaybackContinue then does not know that it has to unmute.
DecodersFollowFlags ==
  Quiet =>
    /\ (pb.isPaused /\ ~pb.isForwarding /\ "video" \in tracks) => dev["video"].state = "frozen"
    /\ (~pb.isPaused /\ "video" \in tracks) =>
         dev["video"].state = "playing" /\ dev["video"].fast = pb.isForwarding
    /\ (~pb.isPaused /\ ~pb.isForwarding /\ ~heldSound) => dev["audio"].state = "playing" /\ ~muted

\* A seek drops what is on its way: from the moment isSeeking is set at most the packet the
\* reader has in hand still gets to a decoder, and with the queue the one of its thread.  A seek
\* given while the reader carries out another is lost: the reader clears its target too.
SeekLeavesOldDataBehind == oldOnes <= (IF Buffered THEN 2 ELSE 1) \/ overtaken

\* Nothing gets into a decoder of the mipsel and ARM boxes after its OUTPUT_STOP: PlaybackStop
\* sets dieNow first, and the writer tests it under the mutex that LinuxDvbStop takes.
NothingAfterStop ==
  [][\A t \in stopped : IsSh4 \/ dev'[t].data <= dev[t].data]_vars

\* The reader is stopped for good: in the write to a decoder that does not play, waiting for room
\* in the queue when nobody drains it, or on the mutex it kept after a rewind to the beginning.
ReaderIsStuck ==
  \/ reader.at = "blocked" /\ dev[reader.packet.type].state # "playing"
  \/ reader.at = "full" /\ (dieNow \/ (drain.at = "write" /\ dev[drain.packet.type].state # "playing"))
  \/ lock = "reader" /\ reader.at \in {"loop", "lock", "end", "close", "gone"}

\* A command comes back, unless the reader is stuck in one of the ways of ReaderIsStuck: a pause
\* with a full decoder, a stop with a full queue, or a rewind to the beginning of the file.
CommandComesBack == todo # <<>> ~> (todo = <<>> \/ ReaderIsStuck)
=============================================================================
