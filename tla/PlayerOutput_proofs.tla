-------------------------- MODULE PlayerOutput_proofs --------------------------
(***************************************************************************)
(* Theorems about PlayerOutput, for any bounds of decoder, queue and       *)
(* commands: nothing gets into a decoder after its OUTPUT_STOP, a seek     *)
(* leaves what was read before it behind, and whenever no command is under *)
(* way picture and sound are what the flags of the playback say.  All rest *)
(* on what the commands put into `todo': the deeds that stop a decoder     *)
(* come behind the one that sets dieNow, a seek begins at the head, with   *)
(* the clearing of the decoders and the new target of the container behind *)
(* it, and every other deed leads from one state of the decoders to the    *)
(* next.                                                                   *)
(***************************************************************************)
EXTENDS PlayerOutput, TLAPS

-----------------------------------------------------------------------------
(* What a command may be made of.                                          *)

\* Flags that begin no seek: a rewind sets isSeeking too, with BackWard.
PlainSets == {s \in [op : {"set"}, on : SUBSET Flags, off : SUBSET Flags] :
                "isSeeking" \in s.on => "BackWard" \in s.on}

PlainCalls == {"pause", "continue", "forward", "backward", "backward 0", "slow", "seek", "audio",
               "stop", "speed 0", "speed 1", "speed 2", "speed -2"}
PlainOps   == {"open", "play", "pause", "continue", "fastForward", "slowMotion", "avsync", "clear",
               "switch", "reset", "buffFlush", "mute", "unmute", "del"}
OwnOps     == {"dieNow", "containerSwitch", "containerClose"}

PlainSteps == [op : PlainOps, type : Types]
OwnSteps   == [op : OwnOps, type : {"none"}]
Quiets     == PlainSteps \cup OwnSteps \cup PlainSets
Plain      == Quiets \cup [op : {"call"}, command : PlainCalls]

\* What takes the decoders from the reader, or waits for its end.
Stopping == [op : {"stop", "close"}, type : Types] \cup {Step("containerStop", "none")}
            \cup [op : {"call"}, command : {"stopOutput", "closeOutput"}]

Ending == Plain \cup Stopping

\* What starts the reader.
Starting == {Step("containerPlay", "none")} \cup [op : {"call"}, command : {"start", "play"}]

\* What makes a seek.
SeekFlag   == [op |-> "set", on |-> {"isSeeking"}, off |-> {}]
SeekTarget == Step("containerSeek", "none")
Clears     == [op : {"clear", "reset", "buffFlush"}, type : Types]

Work == Ending \cup Starting \cup {SeekFlag, SeekTarget}

DieStep == Step("dieNow", "none")

DeviceType == [state : {"stopped", "playing", "frozen"}, open : BOOLEAN, data : Nat, fast : BOOLEAN]
ReaderAts  == {"none", "loop", "lock", "rewind", "seek", "seeking", "sought", "read", "write",
               "device", "full", "blocked", "wrote", "end", "close", "gone"}
PacketType == Packets \cup {NoPacket}

TypeOK ==
  /\ output \in [box : {"mipsel", "sh4"}, buffered : BOOLEAN]
  /\ tracks \in {Types, {"audio"}}
  /\ pb \in [Flags -> BOOLEAN] /\ dieNow \in BOOLEAN
  /\ todo \in Seq(Work)
  /\ dvb \in {"none", "reader"} /\ seekTo \in BOOLEAN /\ bofcount \in BOOLEAN /\ left \in BOOLEAN
  /\ reader \in [at : ReaderAts, packet : PacketType]
  /\ dev \in [Types -> DeviceType]
  /\ drain \in [at : {"none", "write", "written"}, packet : PacketType]
  /\ oldOnes \in Nat /\ overtaken \in BOOLEAN /\ stopped \subseteq Types
  /\ reader.at \in {"write", "device", "full", "blocked"} => reader.packet \in Packets
  /\ drain.at = "write" => drain.packet \in Packets
  /\ queue \in Seq(Packets)

-----------------------------------------------------------------------------
(* The order in `todo'.                                                    *)

\* dieNow is set before anything stops a decoder.
DiesFirst(s, dying) ==
  \A i \in 1 .. Len(s) : s[i] \in Stopping => dying \/ \E k \in 1 .. i - 1 : s[k] = DieStep

\* A seek begins at the head; up to its target there is nothing but clears.
SeeksFirst(s) ==
  /\ \A i \in 1 .. Len(s) : s[i] = SeekFlag => i = 1
  /\ \A i \in 1 .. Len(s) : s[i] = SeekTarget =>
       \A j \in 1 .. i - 1 : s[j] \in Clears \cup {SeekFlag}

HasTarget(s) == \E i \in 1 .. Len(s) : s[i] = SeekTarget

\* The queue is still to be emptied before the target is set.
FlushesFirst(s) ==
  \E i \in 1 .. Len(s) : s[i] = SeekTarget /\ \E j \in 1 .. i - 1 : s[j].op = "buffFlush"

SeekIsWhole(s) ==
  s # <<>> /\ s[1] = SeekFlag => HasTarget(s) /\ (Buffered => FlushesFirst(s))

\* The reader is started last, and once.
StartsLast(s) ==
  \A i \in 1 .. Len(s) : s[i] \in Starting =>
    i = Len(s) /\ \A j \in 1 .. i - 1 : s[j].op # "call" /\ s[j] # SeekFlag

HasStart(s) == \E i \in 1 .. Len(s) : s[i] \in Starting

Ordered ==
  /\ DiesFirst(todo, dieNow) /\ SeeksFirst(todo) /\ SeekIsWhole(todo) /\ StartsLast(todo)
  /\ HasStart(todo) => reader.at = "none" /\ ~left

-----------------------------------------------------------------------------
(* After a stop.                                                           *)

\* A decoder was stopped only when dieNow was set, and the reader, which had the mutex
\* while it wrote, is not in a write then.
ReaderIsOut ==
  /\ stopped # {} => dieNow
  /\ ~IsSh4 => /\ reader.at \in {"device", "full", "blocked"} => dvb = "reader"
               /\ stopped # {} => reader.at # "blocked"

StopInv == TypeOK /\ Ordered /\ ReaderIsOut

-----------------------------------------------------------------------------
(* After a seek.                                                           *)

\* What is old is on the way: the reader has it, or is about to read it, or it waits in
\* the queue; or the thread of the queue has it.
HasOld    == reader.at \in {"write", "device", "full", "blocked"} /\ reader.packet.old
ReadsOld  == left /\ \/ reader.at \in {"seeking", "sought", "read"}
                     \/ reader.at \in {"lock", "rewind", "seek"} /\ ~seekTo
QueuedOld == \E i \in 1 .. Len(queue) : queue[i].old
DrainsOld == drain.at = "write" /\ drain.packet.old

Ahead == HasOld \/ ReadsOld \/ QueuedOld

\* At most one of those the reader read is still to come.
OneToCome ==
  /\ HasOld \/ ReadsOld => ~QueuedOld
  /\ \A i, j \in 1 .. Len(queue) : queue[i].old /\ queue[j].old => i = j

\* A packet of the reader, and with the queue one of its thread.
Limit == IF Buffered THEN 2 ELSE 1

Counted ==
  /\ OneToCome
  /\ oldOnes <= Limit
  /\ DrainsOld \/ Ahead => oldOnes + 1 <= Limit
  /\ DrainsOld /\ Ahead => oldOnes + 2 <= Limit

\* A seek that has not emptied the queue yet: nothing gets out of it.
Flushing == Buffered /\ pb["isSeeking"] /\ oldOnes = 0 /\ FlushesFirst(todo)

\* As long as old data is read the seek is on its way to the reader.
SeekIsComing ==
  left => \/ pb["isSeeking"] /\ HasTarget(todo)
          \/ seekTo /\ reader.at # "seeking"
          \/ reader.at \in {"close", "gone"}

\* A target is set while the reader runs, or when it has ended.
TargetCounts == HasTarget(todo) => pb["isPlaying"] \/ reader.at \in {"close", "gone"}

QueueUsed ==
  /\ ~Buffered => queue = <<>> /\ drain.at = "none" /\ reader.at # "full"
  /\ Buffered => reader.at # "blocked"

SeekInv ==
  /\ TypeOK /\ Ordered /\ QueueUsed /\ TargetCounts
  /\ overtaken \/ (SeekIsComing /\ (Flushing \/ Counted))

-----------------------------------------------------------------------------
(* What the commands put into `todo'.                                      *)

\* Two sequences, one behind the other.
LEMMA Join ==
  ASSUME NEW S, NEW s \in Seq(S), NEW t \in Seq(S)
  PROVE  /\ s \o t \in Seq(S) /\ Len(s \o t) = Len(s) + Len(t)
         /\ \A i \in 1 .. Len(s) : (s \o t)[i] = s[i]
         /\ \A i \in 1 .. Len(t) : (s \o t)[Len(s) + i] = t[i]
  OBVIOUS

\* One operation of the output on one track.
LEMMA DvbKinds ==
  ASSUME TypeOK, NEW t \in Types
  PROVE  /\ \A op \in PlainOps : Dvb(op, t) \in Seq(PlainSteps)
         /\ \A op \in {"stop", "close"} : Dvb(op, t) \in Seq(Ending)
         /\ Dvb("clear", t) \in Seq(Clears)
  <1> DEFINE Two == [op : {"reset", "buffFlush"}, type : Types]
  <1>1. Reset(t) \in Seq(Two)
    <2>1. <<Step("reset", t)>> \in Seq(Two) /\ <<Step("buffFlush", t)>> \in Seq(Two)  BY DEF Step
    <2> HIDE DEF Two
    <2> QED  BY <2>1, Join DEF Reset
  <1>2. Reset(t) \in Seq(PlainSteps) /\ Reset(t) \in Seq(Clears) /\ Reset(t) \in Seq(Ending)
    <2>1. Two \subseteq PlainSteps /\ Two \subseteq Clears /\ PlainSteps \subseteq Ending
      BY DEF PlainSteps, PlainOps, Clears, Ending, Plain, Quiets
    <2> HIDE DEF Two
    <2> QED  BY <1>1, <2>1
  <1>3. ASSUME NEW op \in PlainOps PROVE Dvb(op, t) \in Seq(PlainSteps)
    <2>1. <<Step(op, t)>> \in Seq(PlainSteps)  BY DEF PlainSteps, Step
    <2>2. <<Step(op, t)>> \o Reset(t) \in Seq(PlainSteps)  BY <2>1, <1>2, Join
    <2> QED  BY <2>1, <2>2 DEF Dvb, PlainOps, Resets
  <1>4. ASSUME NEW op \in {"stop", "close"} PROVE Dvb(op, t) \in Seq(Ending)
    <2>1. /\ <<Step("stop", t)>> \in Seq(Ending)
          /\ <<Step("stop", t), Step("close", t)>> \in Seq(Ending)
      BY DEF Ending, Stopping, Step
    <2>2. /\ <<Step("stop", t)>> \o Reset(t) \in Seq(Ending)
          /\ <<Step("stop", t), Step("close", t)>> \o Reset(t) \in Seq(Ending)
      BY <2>1, <1>2, Join
    <2> QED  BY <2>2 DEF Dvb, Resets
  <1>5. Dvb("clear", t) \in Seq(Clears)
    <2>1. <<Step("clear", t)>> \in Seq(Clears)  BY DEF Clears, Step
    <2>2. <<Step("clear", t)>> \o Reset(t) \in Seq(Clears)  BY <2>1, <1>2, Join
    <2> QED  BY <2>2 DEF Dvb, Resets
  <1> QED  BY <1>3, <1>4, <1>5

\* One operation on both, and the other ways of playback.c to the output.
LEMMA OutKinds ==
  ASSUME TypeOK
  PROVE  /\ \A op \in PlainOps : Out(op) \in Seq(PlainSteps)
         /\ \A op \in {"stop", "close"} : Out(op) \in Seq(Ending)
         /\ Out("clear") \in Seq(Clears)
         /\ AVSync \in Seq(PlainSteps) /\ Switch \in Seq(PlainSteps)
         /\ AudioMute("0") \in Seq(PlainSteps) /\ AudioMute("1") \in Seq(PlainSteps)
  <1>1. "video" \in Types /\ "audio" \in Types  BY DEF Types
  <1>2. {"avsync", "switch", "mute", "unmute"} \subseteq PlainOps  BY DEF PlainOps
  <1>3. ASSUME NEW op \in PlainOps PROVE Out(op) \in Seq(PlainSteps)
    BY <1>1, DvbKinds, Join DEF Out
  <1>4. ASSUME NEW op \in {"stop", "close"} PROVE Out(op) \in Seq(Ending)
    BY <1>1, DvbKinds, Join DEF Out
  <1>5. Out("clear") \in Seq(Clears)  BY <1>1, DvbKinds, Join DEF Out
  <1>6. AVSync \in Seq(PlainSteps) /\ Switch \in Seq(PlainSteps)
    BY <1>1, <1>2, DvbKinds DEF AVSync, Switch
  <1>7. AudioMute("0") \in Seq(PlainSteps) /\ AudioMute("1") \in Seq(PlainSteps)
    BY <1>1, <1>2, DvbKinds DEF AudioMute
  <1> QED  BY <1>3, <1>4, <1>5, <1>6, <1>7

\* The other pieces of a command.
LEMMA Pieces ==
  /\ \A c \in PlainCalls : Call(c) \in Seq(Plain)
  /\ \A op \in OwnOps : Do(op) \in Seq(Quiets)
  /\ \A on, off \in SUBSET Flags : ("isSeeking" \in on => "BackWard" \in on) => Set(on, off) \in Seq(Quiets)
  /\ Seq(PlainSteps) \subseteq Seq(Quiets) /\ Seq(Quiets) \subseteq Seq(Plain) /\ Seq(Plain) \subseteq Seq(Ending)
  <1>1. ASSUME NEW c \in PlainCalls PROVE Call(c) \in Seq(Plain)
    <2>1. [op |-> "call", command |-> c] \in Plain  BY DEF Plain
    <2> QED  BY <2>1 DEF Call
  <1>2. ASSUME NEW op \in OwnOps PROVE Do(op) \in Seq(Quiets)
    <2>1. Step(op, "none") \in Quiets  BY DEF Step, Quiets, OwnSteps
    <2> QED  BY <2>1 DEF Do
  <1>3. ASSUME NEW on \in SUBSET Flags, NEW off \in SUBSET Flags, "isSeeking" \in on => "BackWard" \in on
        PROVE  Set(on, off) \in Seq(Quiets)
    <2>1. [op |-> "set", on |-> on, off |-> off] \in Quiets  BY <1>3 DEF Quiets, PlainSets
    <2> QED  BY <2>1 DEF Set
  <1>4. PlainSteps \subseteq Quiets /\ Quiets \subseteq Plain /\ Plain \subseteq Ending
    BY DEF Quiets, Plain, Ending
  <1> QED  BY <1>1, <1>2, <1>3, <1>4

\* The flags the commands set and clear.
LEMMA FlagPieces ==
  /\ Set({"isPaused"}, Normal) \in Seq(Quiets) /\ Set({}, {"isPaused"} \cup Normal) \in Seq(Quiets)
  /\ Set({"isForwarding"}, {}) \in Seq(Quiets) /\ Set({"BackWard", "isSeeking"}, {}) \in Seq(Quiets)
  /\ Set({"SlowMotion"}, {}) \in Seq(Quiets) /\ Set({}, {"isSeeking"}) \in Seq(Quiets)
  /\ Set({}, {"isPlaying", "isPaused"} \cup Normal) \in Seq(Quiets)
  /\ Set({"isPlaying"}, {"isPaused"} \cup Normal) \in Seq(Quiets)
  BY Pieces DEF Flags, Normal

\* Most commands are made of operations, flags and other such commands.
LEMMA StepsPlain ==
  ASSUME TypeOK, NEW c \in PlainCalls \ {"seek", "stop"}
  PROVE  Steps(c) \in Seq(Plain)
  <1>1. /\ \A op \in {"clear", "pause", "continue", "fastForward", "slowMotion"} : Out(op) \in Seq(Plain)
        /\ AVSync \in Seq(Plain) /\ Switch \in Seq(Plain)
        /\ AudioMute("0") \in Seq(Plain) /\ AudioMute("1") \in Seq(Plain)
    BY OutKinds, Pieces DEF PlainOps
  <1>2. \A x \in {"pause", "continue", "forward", "backward", "backward 0", "seek"} : Call(x) \in Seq(Plain)
    BY Pieces DEF PlainCalls
  <1>3. /\ Set({"isPaused"}, Normal) \in Seq(Plain) /\ Set({}, {"isPaused"} \cup Normal) \in Seq(Plain)
        /\ Set({"isForwarding"}, {}) \in Seq(Plain) /\ Set({"BackWard", "isSeeking"}, {}) \in Seq(Plain)
        /\ Set({"SlowMotion"}, {}) \in Seq(Plain) /\ Set({}, {"isSeeking"}) \in Seq(Plain)
        /\ Do("containerSwitch") \in Seq(Plain)
    BY FlagPieces, Pieces DEF OwnOps
  <1>4. <<>> \in Seq(Plain) /\ \A s, t \in Seq(Plain) : s \o t \in Seq(Plain)
    OBVIOUS
  <1>5. PlaybackPause \in Seq(Plain)  BY <1>1, <1>3, <1>4 DEF PlaybackPause
  <1>6. PlaybackContinue \in Seq(Plain)  BY <1>1, <1>3, <1>4 DEF PlaybackContinue
  <1>7. PlaybackFastForward \in Seq(Plain)  BY <1>1, <1>3, <1>4 DEF PlaybackFastForward
  <1>8. PlaybackFastBackward(TRUE) \in Seq(Plain) /\ PlaybackFastBackward(FALSE) \in Seq(Plain)
    BY <1>1, <1>2, <1>3, <1>4 DEF PlaybackFastBackward
  <1>9. PlaybackSlowMotion \in Seq(Plain)  BY <1>1, <1>2, <1>3, <1>4 DEF PlaybackSlowMotion
  <1>10. PlaybackSwitchAudio \in Seq(Plain)  BY <1>1, <1>2, <1>3, <1>4 DEF PlaybackSwitchAudio
  <1>11. ASSUME c \in {"speed 0", "speed 1", "speed 2", "speed -2"} PROVE SetSpeed(c) \in Seq(Plain)
    <2>1. CASE c = "speed 0"   BY <2>1, <1>2 DEF SetSpeed
    <2>2. CASE c = "speed 1"   BY <2>2, <1>2 DEF SetSpeed
    <2>3. CASE c = "speed 2"   BY <2>3, <1>2, <1>4 DEF SetSpeed
    <2>4. CASE c = "speed -2"  BY <2>4, <1>2, <1>4 DEF SetSpeed
    <2> QED  BY <1>11, <2>1, <2>2, <2>3, <2>4
  <1> QED
    BY <1>5, <1>6, <1>7, <1>8, <1>9, <1>10, <1>11 DEF Steps, PlainCalls

\* A stop sets dieNow, then stops the decoders and closes them.
LEMMA StepsStop ==
  /\ Steps("stop") \in Seq(Ending) /\ Len(Steps("stop")) = 3 /\ Steps("stop")[1] = DieStep
  <1>1. DieStep \in Ending /\ \A c \in {"stopOutput", "closeOutput"} : [op |-> "call", command |-> c] \in Ending
    BY DEF DieStep, Step, Ending, Stopping, Plain, Quiets, OwnSteps, OwnOps
  <1> DEFINE d == <<DieStep>>  o == <<[op |-> "call", command |-> "stopOutput"]>>
             c == <<[op |-> "call", command |-> "closeOutput"]>>
  <1>2. Steps("stop") = (d \o o) \o c
    BY DEF Steps, PlaybackStop, Do, Call, DieStep
  <1>3. d \in Seq(Ending) /\ o \in Seq(Ending) /\ c \in Seq(Ending) /\ Len(d) = 1 /\ Len(o) = 1 /\ Len(c) = 1
        /\ d[1] = DieStep
    BY <1>1
  <1> HIDE DEF d, o, c
  <1>4. d \o o \in Seq(Ending) /\ Len(d \o o) = 2 /\ (d \o o)[1] = DieStep
    <2>1. d \o o \in Seq(Ending) /\ Len(d \o o) = Len(d) + Len(o)  BY <1>3, Join
    <2>2. 1 \in 1 .. Len(d)  BY <1>3
    <2>3. (d \o o)[1] = d[1]  BY <1>3, <2>2, Join
    <2> QED  BY <1>3, <2>1, <2>3
  <1>5. (d \o o) \o c \in Seq(Ending) /\ Len((d \o o) \o c) = 3 /\ ((d \o o) \o c)[1] = DieStep
    BY <1>3, <1>4
  <1> QED  BY <1>2, <1>5

\* What ends a playback is made of steps that need the threads to be dying.
LEMMA StepsEnd ==
  ASSUME TypeOK
  PROVE  Steps("stopOutput") \in Seq(Ending) /\ Steps("closeOutput") \in Seq(Ending)
  <1> USE OutKinds, Pieces, FlagPieces, Join
  <1>1. StopOutput \in Seq(Ending)
    <2>1. Do("containerStop") \in Seq(Ending) /\ Do("containerClose") \in Seq(Ending)
      <3>1. Step("containerStop", "none") \in Ending /\ "containerClose" \in OwnOps  BY DEF Ending, Stopping, OwnOps
      <3>2. <<Step("containerStop", "none")>> \in Seq(Ending)  BY <3>1
      <3> QED  BY <3>1, <3>2 DEF Do
    <2>2. Out("stop") \in Seq(Ending)  OBVIOUS
    <2> QED  BY <2>1, <2>2 DEF StopOutput
  <1>2. Out("close") \o <<Step("del", "audio"), Step("del", "video")>> \in Seq(Ending)
    <2>1. Step("del", "audio") \in PlainSteps /\ Step("del", "video") \in PlainSteps
      BY DEF Step, PlainSteps, PlainOps, Types
    <2>2. <<Step("del", "audio"), Step("del", "video")>> \in Seq(PlainSteps)  BY <2>1
    <2>3. <<Step("del", "audio"), Step("del", "video")>> \in Seq(Ending)  BY <2>2
    <2> QED  BY <2>3
  <1> QED  BY <1>1, <1>2 DEF Steps

\* The start of the reader is the last step of PLAYBACK_PLAY.
LEMMA StepsStart ==
  ASSUME TypeOK
  PROVE  \A c \in {"start", "play"} :
           Steps(c) = <<>> \/ \E s \in Seq(Quiets), e \in Starting : Steps(c) = s \o <<e>>
  <1> USE OutKinds, Pieces, FlagPieces, Join
  <1>1. Steps("start") = Out("open") \o <<[op |-> "call", command |-> "play"]>>
    BY DEF Steps, Call
  <1>2. Out("open") \in Seq(Quiets) /\ Out("play") \in Seq(Quiets)
    BY DEF PlainOps
  <1>3. [op |-> "call", command |-> "play"] \in Starting /\ Step("containerPlay", "none") \in Starting
    BY DEF Starting
  <1>4. \/ Steps("play") = <<>>
        \/ Steps("play") = (AVSync \o Out("play") \o Set({"isPlaying"}, {"isPaused"} \cup Normal))
                           \o <<Step("containerPlay", "none")>>
    BY DEF Steps, PlaybackPlay, Do
  <1>5. AVSync \o Out("play") \o Set({"isPlaying"}, {"isPaused"} \cup Normal) \in Seq(Quiets)
    BY <1>2
  <1> QED  BY <1>1, <1>2, <1>3, <1>4, <1>5

\* A seek: the decoders are cleared, and the queue, before the container has its new target.
LEMMA StepsSeek ==
  ASSUME TypeOK
  PROVE  \/ Steps("seek") = <<>>
         \/ /\ Steps("seek") = <<SeekFlag>> \o Out("clear") \o <<SeekTarget>> \o Set({}, {"isSeeking"})
            /\ pb["isPlaying"]
  BY DEF Steps, PlaybackSeek, Set, Do, SeekFlag, SeekTarget

-----------------------------------------------------------------------------
(* The order of what is put into `todo', and of what is left of it.        *)

\* The kinds of steps do not overlap.
LEMMA Kinds ==
  /\ SeekFlag \notin Ending /\ SeekTarget \notin Ending /\ SeekFlag \notin Starting /\ SeekTarget \notin Starting
  /\ SeekFlag # SeekTarget /\ SeekFlag \notin Stopping /\ SeekTarget \notin Stopping
  /\ DieStep \in Plain /\ DieStep # SeekFlag
  /\ \A e \in Starting : e \notin Ending /\ e \notin Stopping
  /\ \A e \in Plain : e \notin Stopping
  /\ \A e \in Quiets : e.op # "call" /\ e \in Plain /\ e # SeekFlag /\ e # SeekTarget /\ e \notin Stopping /\ e \notin Starting
  /\ \A e \in Clears : e \in Plain /\ e # SeekFlag /\ e # SeekTarget /\ e \notin Starting /\ e.op # "call"
  /\ \A e \in Work : e.op = "call" => e # SeekFlag /\ e # SeekTarget /\ e \notin Clears
  <1>1. \A e \in Ending : e # SeekFlag /\ e # SeekTarget /\ e \notin Starting
    <2>1. \A e \in PlainSteps \cup OwnSteps : e # SeekFlag /\ e # SeekTarget /\ e \notin Starting
      BY DEF PlainSteps, OwnSteps, Starting, SeekFlag, SeekTarget, Step, PlainOps, OwnOps
    <2>2. \A e \in PlainSets : e # SeekFlag /\ e # SeekTarget /\ e \notin Starting
      <3>1. SeekFlag \notin PlainSets  BY DEF SeekFlag, PlainSets
      <3>2. \A e \in PlainSets : e.op = "set"  BY DEF PlainSets
      <3> QED  BY <3>1, <3>2 DEF Starting, SeekTarget, Step
    <2>3. \A e \in [op : {"call"}, command : PlainCalls] : e # SeekFlag /\ e # SeekTarget /\ e \notin Starting
      <3>1. "start" \notin PlainCalls /\ "play" \notin PlainCalls  BY DEF PlainCalls
      <3>2. \A e \in [op : {"call"}, command : PlainCalls] : e.op = "call" /\ e.command \in PlainCalls
        OBVIOUS
      <3> QED  BY <3>1, <3>2 DEF Starting, SeekFlag, SeekTarget, Step
    <2>4. \A e \in Stopping : e # SeekFlag /\ e # SeekTarget /\ e \notin Starting
      BY DEF Stopping, Starting, SeekFlag, SeekTarget, Step
    <2> QED  BY <2>1, <2>2, <2>3, <2>4 DEF Ending, Plain, Quiets
  <1>2. SeekFlag \notin Starting /\ SeekTarget \notin Starting /\ SeekFlag # SeekTarget
    BY DEF Starting, SeekFlag, SeekTarget, Step
  <1>3. DieStep \in Plain /\ DieStep # SeekFlag
    BY DEF DieStep, Plain, Quiets, OwnSteps, OwnOps, SeekFlag, Step
  <1>4. \A e \in Stopping : e \notin Plain /\ e \in Ending
    <2>1. "stopOutput" \notin PlainCalls /\ "closeOutput" \notin PlainCalls  BY DEF PlainCalls
    <2>2. \A e \in Plain :
            e.op \in PlainOps \cup OwnOps \cup {"set"} \/ (e.op = "call" /\ e.command \in PlainCalls)
      BY DEF Plain, Quiets, PlainSteps, OwnSteps, PlainSets
    <2>3. \A e \in Stopping :
            e.op \in {"stop", "close", "containerStop"} \/ (e.op = "call" /\ e.command \in {"stopOutput", "closeOutput"})
      BY DEF Stopping, Step
    <2>4. \A x \in {"stop", "close", "containerStop", "call"} : x \notin PlainOps \cup OwnOps \cup {"set"}
      BY DEF PlainOps, OwnOps
    <2> QED  BY <2>1, <2>2, <2>3, <2>4 DEF Ending
  <1>5. \A e \in Quiets : e.op # "call" /\ e \in Plain /\ e \in Ending
    BY DEF Ending, Plain, Quiets, PlainSteps, OwnSteps, PlainSets, PlainOps, OwnOps
  <1>6. \A e \in Clears : e \in Quiets
    BY DEF Clears, Quiets, PlainSteps, PlainOps
  <1>7. SeekFlag.op # "call" /\ SeekTarget.op # "call"
    BY DEF SeekFlag, SeekTarget, Step
  <1> QED  BY <1>1, <1>2, <1>3, <1>4, <1>5, <1>6, <1>7

\* What a tail keeps.
LEMMA TailOrder ==
  ASSUME NEW s \in Seq(Work), s # <<>>, NEW d \in BOOLEAN
  PROVE  /\ Tail(s) \in Seq(Work) /\ s[1] \in Work /\ Head(s) = s[1]
         /\ DiesFirst(s, d) => /\ DiesFirst(Tail(s), d \/ s[1] = DieStep)
                               /\ s[1] \in Stopping => d
         /\ SeeksFirst(s) => SeeksFirst(Tail(s)) /\ SeekIsWhole(Tail(s))
         /\ StartsLast(s) => /\ StartsLast(Tail(s))
                             /\ s[1] \in Starting => Tail(s) = <<>>
                             /\ s[1] = SeekFlag => ~HasStart(Tail(s))
         /\ HasStart(Tail(s)) => HasStart(s)
         /\ HasTarget(Tail(s)) => HasTarget(s)
         /\ SeeksFirst(s) /\ HasTarget(Tail(s)) => s[1] \in Clears \cup {SeekFlag}
         /\ HasTarget(s) /\ s[1] # SeekTarget => HasTarget(Tail(s))
         /\ FlushesFirst(s) /\ s[1].op # "buffFlush" => FlushesFirst(Tail(s))
  <1> DEFINE t == Tail(s)
  <1>1. /\ t \in Seq(Work) /\ Len(s) \in Nat /\ Len(s) >= 1 /\ Len(t) = Len(s) - 1
        /\ Head(s) = s[1] /\ s[1] \in Work
        /\ \A i \in 1 .. Len(t) : t[i] = s[i + 1]
    OBVIOUS
  <1> HIDE DEF t
  <1>2. \A i \in 2 .. Len(s) : i - 1 \in 1 .. Len(t) /\ t[i - 1] = s[i]
    BY <1>1
  <1>3. ASSUME DiesFirst(s, d) PROVE DiesFirst(t, d \/ s[1] = DieStep)
    <2> SUFFICES ASSUME NEW i \in 1 .. Len(t), t[i] \in Stopping, ~d, s[1] # DieStep
                 PROVE  \E k \in 1 .. i - 1 : t[k] = DieStep
      BY DEF DiesFirst
    <2>1. PICK k \in 1 .. i : s[k] = DieStep  BY <1>1, <1>3 DEF DiesFirst
    <2>2. k - 1 \in 1 .. i - 1 /\ t[k - 1] = DieStep  BY <1>1, <1>2, <2>1
    <2> QED  BY <2>2
  <1>4. ASSUME DiesFirst(s, d), s[1] \in Stopping PROVE d
    <2>1. 1 \in 1 .. Len(s)  BY <1>1
    <2>2. d \/ \E k \in 1 .. 1 - 1 : s[k] = DieStep  BY <2>1, <1>4 DEF DiesFirst
    <2> QED  BY <2>2
  <1>5. ASSUME SeeksFirst(s)
        PROVE  SeeksFirst(t) /\ SeekIsWhole(t) /\ (HasTarget(t) => s[1] \in Clears \cup {SeekFlag})
    <2>1. \A i \in 1 .. Len(t) : t[i] # SeekFlag  BY <1>1, <1>5 DEF SeeksFirst
    <2>2. ASSUME NEW i \in 1 .. Len(t), t[i] = SeekTarget
          PROVE  \A j \in 1 .. i : s[j] \in Clears \cup {SeekFlag}
      BY <1>1, <1>5, <2>2 DEF SeeksFirst
    <2>3. SeeksFirst(t)  BY <1>1, <2>1, <2>2 DEF SeeksFirst
    <2>4. SeekIsWhole(t)
      <3>1. t # <<>> => 1 \in 1 .. Len(t)  BY <1>1
      <3> QED  BY <2>1, <3>1 DEF SeekIsWhole
    <2>5. HasTarget(t) => s[1] \in Clears \cup {SeekFlag}  BY <1>1, <2>2 DEF HasTarget
    <2> QED  BY <2>3, <2>4, <2>5
  <1>6. ASSUME StartsLast(s)
        PROVE  /\ StartsLast(t) /\ (s[1] \in Starting => t = <<>>)
               /\ (s[1] = SeekFlag => ~HasStart(t))
    <2>1. StartsLast(t)
      <3> SUFFICES ASSUME NEW i \in 1 .. Len(t), t[i] \in Starting
                   PROVE  i = Len(t) /\ \A j \in 1 .. i - 1 : t[j].op # "call" /\ t[j] # SeekFlag
        BY DEF StartsLast
      <3>1. i + 1 = Len(s) /\ \A j \in 1 .. i : s[j].op # "call" /\ s[j] # SeekFlag
        BY <1>1, <1>6 DEF StartsLast
      <3> QED  BY <1>1, <3>1
    <2>2. s[1] \in Starting => t = <<>>
      <3>1. s[1] \in Starting => Len(s) = 1  BY <1>1, <1>6 DEF StartsLast
      <3> QED  BY <1>1, <3>1
    <2>3. ASSUME NEW i \in 1 .. Len(t), t[i] \in Starting PROVE s[1] # SeekFlag
      BY <1>1, <1>6, <2>3 DEF StartsLast
    <2> QED  BY <2>1, <2>2, <2>3 DEF HasStart
  <1>7. HasStart(t) => HasStart(s)
    <2>1. \A i \in 1 .. Len(t) : i + 1 \in 1 .. Len(s) /\ t[i] = s[i + 1]  BY <1>1
    <2> QED  BY <2>1 DEF HasStart
  <1>8. HasTarget(t) => HasTarget(s)
    <2>1. \A i \in 1 .. Len(t) : i + 1 \in 1 .. Len(s) /\ t[i] = s[i + 1]  BY <1>1
    <2> QED  BY <2>1 DEF HasTarget
  <1>9. HasTarget(s) /\ s[1] # SeekTarget => HasTarget(t)
    BY <1>1, <1>2 DEF HasTarget
  <1>10. ASSUME FlushesFirst(s), s[1].op # "buffFlush" PROVE FlushesFirst(t)
    <2>1. PICK i \in 1 .. Len(s) : s[i] = SeekTarget /\ \E j \in 1 .. i - 1 : s[j].op = "buffFlush"
      BY <1>10 DEF FlushesFirst
    <2>5. PICK j \in 1 .. i - 1 : s[j].op = "buffFlush"
      BY <2>1
    <2>2. j \in 2 .. i - 1 /\ i \in 2 .. Len(s)  BY <1>1, <1>10, <2>1, <2>5
    <2>3. t[i - 1] = SeekTarget /\ t[j - 1].op = "buffFlush"  BY <1>1, <1>2, <2>1, <2>5, <2>2
    <2>4. i - 1 \in 1 .. Len(t) /\ j - 1 \in 1 .. (i - 1) - 1  BY <1>1, <2>2
    <2> QED  BY <2>3, <2>4 DEF FlushesFirst
  <1> QED
    BY <1>1, <1>3, <1>4, <1>5, <1>6, <1>7, <1>8, <1>9, <1>10 DEF t

\* Steps of neither a seek nor a start.
LEMMA EndingOrder ==
  ASSUME NEW s \in Seq(Ending)
  PROVE  /\ s \in Seq(Work) /\ SeeksFirst(s) /\ SeekIsWhole(s) /\ StartsLast(s) /\ ~HasStart(s) /\ ~HasTarget(s)
         /\ \A d \in BOOLEAN : s \in Seq(Plain) \/ d => DiesFirst(s, d)
  <1>1. /\ Len(s) \in Nat
        /\ \A i \in 1 .. Len(s) : s[i] # SeekFlag /\ s[i] # SeekTarget /\ s[i] \notin Starting
    BY Kinds
  <1>2. s \in Seq(Work)
    <2>1. Ending \subseteq Work  BY DEF Work
    <2> QED  BY <2>1
  <1>3. s # <<>> => s[1] # SeekFlag
    <2>1. s # <<>> => 1 \in 1 .. Len(s)  OBVIOUS
    <2> QED  BY <1>1, <2>1
  <1>4. ASSUME s \in Seq(Plain) PROVE \A i \in 1 .. Len(s) : s[i] \notin Stopping
    BY <1>4, Kinds
  <1> QED
    BY <1>1, <1>2, <1>3, <1>4 DEF SeeksFirst, SeekIsWhole, StartsLast, HasStart, HasTarget, DiesFirst

\* One after the other, each with dieNow first.
LEMMA JoinDies ==
  ASSUME NEW s \in Seq(Work), NEW t \in Seq(Work), NEW d \in BOOLEAN, DiesFirst(s, d), DiesFirst(t, d)
  PROVE  DiesFirst(s \o t, d)
  <1> DEFINE u == s \o t
  <1>1. /\ Len(s) \in Nat /\ Len(t) \in Nat /\ Len(u) = Len(s) + Len(t)
        /\ \A i \in 1 .. Len(s) : u[i] = s[i]
        /\ \A i \in 1 .. Len(t) : u[Len(s) + i] = t[i]
    BY Join
  <1> HIDE DEF u
  <1> SUFFICES ASSUME NEW i \in 1 .. Len(u), u[i] \in Stopping, ~d PROVE \E k \in 1 .. i - 1 : u[k] = DieStep
    BY DEF DiesFirst, u
  <1>2. CASE i \in 1 .. Len(s)
    <2>1. PICK k \in 1 .. i - 1 : s[k] = DieStep  BY <1>1, <1>2 DEF DiesFirst
    <2>2. k \in 1 .. Len(s)  BY <1>1, <1>2, <2>1
    <2> QED  BY <1>1, <2>1, <2>2
  <1>3. CASE i \notin 1 .. Len(s)
    <2>1. i - Len(s) \in 1 .. Len(t) /\ u[i] = t[i - Len(s)]
      <3>1. i - Len(s) \in 1 .. Len(t) /\ i = Len(s) + (i - Len(s))  BY <1>1, <1>3
      <3> QED  BY <1>1, <3>1
    <2>2. PICK k \in 1 .. (i - Len(s)) - 1 : t[k] = DieStep  BY <2>1 DEF DiesFirst
    <2>3. k \in 1 .. Len(t) /\ Len(s) + k \in 1 .. i - 1  BY <1>1, <1>3, <2>1, <2>2
    <2>4. u[Len(s) + k] = DieStep  BY <1>1, <2>2, <2>3
    <2> QED  BY <2>3, <2>4
  <1> QED  BY <1>2, <1>3

\* The steps of a seek, one by one.
LEMMA JoinAt ==
  ASSUME NEW S, NEW s \in Seq(S), NEW t \in Seq(S)
  PROVE  \A n \in Nat : Len(s) = n =>
           /\ s \o t \in Seq(S) /\ Len(s \o t) = n + Len(t)
           /\ \A i \in 1 .. n : (s \o t)[i] = s[i]
           /\ \A i \in 1 .. Len(t) : (s \o t)[n + i] = t[i]
  <1> DEFINE u == s \o t
  <1>1. /\ u \in Seq(S) /\ Len(u) = Len(s) + Len(t) /\ \A i \in 1 .. Len(s) : u[i] = s[i]
        /\ \A i \in 1 .. Len(t) : u[Len(s) + i] = t[i]
    BY Join
  <1> HIDE DEF u
  <1>2. ASSUME NEW n \in Nat, Len(s) = n
        PROVE  /\ u \in Seq(S) /\ Len(u) = n + Len(t) /\ \A i \in 1 .. n : u[i] = s[i]
               /\ \A i \in 1 .. Len(t) : u[n + i] = t[i]
    BY <1>1, <1>2
  <1> QED  BY <1>2 DEF u

\* One more step behind a sequence.
LEMMA OneMore ==
  ASSUME NEW S, NEW s \in Seq(S), NEW t \in Seq(S)
  PROVE  \A n \in Nat : Len(s) = n /\ Len(t) = 1 =>
           /\ s \o t \in Seq(S) /\ Len(s \o t) = n + 1 /\ (s \o t)[n + 1] = t[1]
           /\ \A i \in 1 .. n : (s \o t)[i] = s[i]
  <1> DEFINE u == s \o t
  <1>1. \A n \in Nat : Len(s) = n => /\ u \in Seq(S) /\ Len(u) = n + Len(t) /\ \A i \in 1 .. n : u[i] = s[i]
                                     /\ \A i \in 1 .. Len(t) : u[n + i] = t[i]
    BY JoinAt
  <1> HIDE DEF u
  <1>2. ASSUME NEW n \in Nat, Len(s) = n, Len(t) = 1
        PROVE  u \in Seq(S) /\ Len(u) = n + 1 /\ u[n + 1] = t[1] /\ \A i \in 1 .. n : u[i] = s[i]
    BY <1>1, <1>2
  <1> QED  BY <1>2 DEF u

\* A sequence whose elements are all in T.
LEMMA Narrow ==
  ASSUME NEW S, NEW T, NEW s \in Seq(S), \A i \in 1 .. Len(s) : s[i] \in T
  PROVE  s \in Seq(T)
  OBVIOUS

\* A seek: the flag, the clears, the target, the flag again.
LEMMA SeekShape ==
  ASSUME TypeOK
  PROVE  LET s == <<SeekFlag>> \o Out("clear") \o <<SeekTarget>> \o Set({}, {"isSeeking"}) IN
         /\ s \in Seq(Work)
         /\ \E n \in Nat :
              /\ Len(s) = n + 3 /\ s[1] = SeekFlag /\ s[n + 2] = SeekTarget /\ s[n + 3] \in Plain
              /\ \A i \in 2 .. n + 1 : s[i] \in Clears
              /\ Buffered => \E i \in 2 .. n + 1 : s[i].op = "buffFlush"
  <1> DEFINE x == Out("clear")
             f == <<SeekFlag>>  g == <<SeekTarget>>  h == Set({}, {"isSeeking"})
             n == Len(x)
             fx == f \o x
             fg == fx \o g
             s == fg \o h
  <1>1. /\ x \in Seq(Clears) /\ x \in Seq(Work) /\ f \in Seq(Work) /\ g \in Seq(Work) /\ h \in Seq(Work)
        /\ Len(f) = 1 /\ Len(g) = 1 /\ Len(h) = 1 /\ f[1] = SeekFlag /\ g[1] = SeekTarget /\ h[1] \in Plain
    <2>1. x \in Seq(Clears) /\ h \in Seq(Plain)  BY OutKinds, FlagPieces, Pieces
    <2>2. Clears \subseteq Plain /\ Plain \subseteq Work /\ SeekFlag \in Work /\ SeekTarget \in Work
      BY Kinds DEF Work, Ending
    <2>3. Len(h) = 1  BY DEF Set
    <2>4. h[1] \in Plain  BY <2>1, <2>3
    <2> QED  BY <2>1, <2>2, <2>3, <2>4
  <1>2. Buffered => \E i \in 1 .. n : x[i].op = "buffFlush"
    <2> SUFFICES ASSUME Buffered PROVE \E i \in 1 .. n : x[i].op = "buffFlush"
      OBVIOUS
    <2> DEFINE v == Dvb("clear", "video")  a == Dvb("clear", "audio")
    <2>1. v \in Seq(Clears) /\ a \in Seq(Clears)  BY DvbKinds DEF Types
    <2>2. Len(a) = 3 /\ a[3].op = "buffFlush"
      <3> DEFINE c == <<Step("clear", "audio")>>  e == <<Step("reset", "audio")>>  m == <<Step("buffFlush", "audio")>>
      <3>1. a = c \o (e \o m)
        BY DEF Dvb, Resets, Reset, TypeOK, Types
      <3>2. /\ c \in Seq(Clears) /\ e \in Seq(Clears) /\ m \in Seq(Clears)
            /\ Len(c) = 1 /\ Len(e) = 1 /\ Len(m) = 1 /\ m[1].op = "buffFlush"
        BY DEF Clears, Step, Types
      <3> HIDE DEF a, c, e, m
      <3>3. e \o m \in Seq(Clears) /\ Len(e \o m) = 2 /\ (e \o m)[2] = m[1]
        <4>1. 1 \in 1 .. Len(m)  BY <3>2
        <4>2. (e \o m)[Len(e) + 1] = m[1] /\ Len(e \o m) = Len(e) + Len(m)  BY <3>2, <4>1, Join
        <4> QED  BY <3>2, <4>2
      <3>4. Len(a) = 3 /\ a[3] = (e \o m)[2]
        <4>1. 2 \in 1 .. Len(e \o m)  BY <3>3
        <4>2. a[Len(c) + 2] = (e \o m)[2] /\ Len(a) = Len(c) + Len(e \o m)  BY <3>1, <3>2, <3>3, <4>1, Join
        <4> QED  BY <3>2, <3>3, <4>2
      <3> QED  BY <3>2, <3>3, <3>4
    <2>3. x = v \o a  BY DEF Out
    <2> HIDE DEF v, a, x
    <2>4. Len(x) = Len(v) + 3 /\ x[Len(v) + 3] = a[3] /\ Len(v) \in Nat
      <3>1. 3 \in 1 .. Len(a) /\ Len(v) \in Nat  BY <2>1, <2>2
      <3>2. Len(x) = Len(v) + Len(a) /\ x[Len(v) + 3] = a[3]  BY <2>1, <2>3, <3>1, Join
      <3> QED  BY <2>2, <3>1, <3>2
    <2>5. Len(v) + 3 \in 1 .. n  BY <2>4
    <2> QED  BY <2>2, <2>4, <2>5
  <1>3. n \in Nat  BY <1>1
  <1> HIDE DEF x, f, g, h
  <1>4. /\ fx \in Seq(Work) /\ Len(fx) = n + 1
        /\ \A i \in 1 .. Len(f) : fx[i] = f[i]
        /\ \A i \in 1 .. Len(x) : fx[1 + i] = x[i]
    BY <1>1, <1>3, Join
  <1>5. fx[1] = SeekFlag /\ \A i \in 2 .. n + 1 : i - 1 \in 1 .. n /\ fx[i] = x[i - 1]
    <2>1. \A i \in 2 .. n + 1 : i - 1 \in 1 .. n /\ 1 + (i - 1) = i  BY <1>3
    <2> QED  BY <1>1, <1>4, <2>1
  <1> HIDE DEF fx
  <1>6. /\ fg \in Seq(Work) /\ Len(fg) = n + 2 /\ \A i \in 1 .. n + 1 : fg[i] = fx[i]
        /\ fg[n + 2] = SeekTarget
    <2>1. /\ fg \in Seq(Work) /\ Len(fg) = (n + 1) + 1 /\ \A i \in 1 .. n + 1 : fg[i] = fx[i]
          /\ fg[(n + 1) + 1] = g[1]
      <3>1. n + 1 \in Nat /\ fx \in Seq(Work) /\ g \in Seq(Work) /\ Len(g) = 1 /\ Len(fx) = n + 1
        BY <1>1, <1>3, <1>4
      <3> QED  BY <3>1, OneMore
    <2>2. (n + 1) + 1 = n + 2  BY <1>3
    <2> QED  BY <1>1, <2>1, <2>2
  <1> HIDE DEF fg
  <1>7. /\ s \in Seq(Work) /\ Len(s) = n + 3 /\ \A i \in 1 .. n + 2 : s[i] = fg[i]
        /\ s[n + 3] \in Plain
    <2>1. /\ s \in Seq(Work) /\ Len(s) = (n + 2) + 1 /\ \A i \in 1 .. n + 2 : s[i] = fg[i]
          /\ s[(n + 2) + 1] = h[1]
      <3>1. n + 2 \in Nat /\ fg \in Seq(Work) /\ h \in Seq(Work) /\ Len(h) = 1 /\ Len(fg) = n + 2
        BY <1>1, <1>3, <1>6
      <3> QED  BY <3>1, OneMore
    <2>2. (n + 2) + 1 = n + 3  BY <1>3
    <2> QED  BY <1>1, <2>1, <2>2
  <1>8. s = <<SeekFlag>> \o Out("clear") \o <<SeekTarget>> \o Set({}, {"isSeeking"})
    BY DEF fg, fx, f, g, h, x
  <1> HIDE DEF s
  <1>9. s[1] = SeekFlag /\ s[n + 2] = SeekTarget
    BY <1>3, <1>5, <1>6, <1>7
  <1>10. \A i \in 2 .. n + 1 : s[i] = x[i - 1] /\ i - 1 \in 1 .. n
    BY <1>3, <1>5, <1>6, <1>7
  <1>11. \A i \in 2 .. n + 1 : s[i] \in Clears
    BY <1>1, <1>10
  <1>12. Buffered => \E i \in 2 .. n + 1 : s[i].op = "buffFlush"
    <2>1. \A i \in 1 .. n : i + 1 \in 2 .. n + 1 /\ s[i + 1] = x[i]
      BY <1>3, <1>10
    <2> QED  BY <1>2, <2>1
  <1> QED  BY <1>3, <1>7, <1>8, <1>9, <1>11, <1>12

\* A seek in front of what ends: the order of both.
LEMMA SeekOrder ==
  ASSUME TypeOK, NEW s \in Seq(Work), NEW t \in Seq(Ending), NEW n \in Nat, NEW d \in BOOLEAN, DiesFirst(t, d),
         Len(s) = n + 3, s[1] = SeekFlag, s[n + 2] = SeekTarget, s[n + 3] \in Plain,
         \A i \in 2 .. n + 1 : s[i] \in Clears,
         Buffered => \E i \in 2 .. n + 1 : s[i].op = "buffFlush"
  PROVE  LET u == s \o t IN
         u \in Seq(Work) /\ DiesFirst(u, d) /\ SeeksFirst(u) /\ SeekIsWhole(u) /\ StartsLast(u) /\ ~HasStart(u)
  <1> DEFINE u == s \o t
  <1>1. t \in Seq(Work)  BY EndingOrder
  <1>2. u \in Seq(Work) /\ Len(t) \in Nat /\ Len(u) = (n + 3) + Len(t) /\ \A i \in 1 .. n + 3 : u[i] = s[i]
    <2>1. n + 3 \in Nat  OBVIOUS
    <2> QED  BY <1>1, <2>1, JoinAt
  <1>3. \A i \in 1 .. Len(u) : i \notin 1 .. n + 3 => u[i] \in Ending
    <2> SUFFICES ASSUME NEW i \in 1 .. Len(u), i \notin 1 .. n + 3 PROVE u[i] \in Ending
      OBVIOUS
    <2>1. i - Len(s) \in 1 .. Len(t) /\ i = Len(s) + (i - Len(s))  BY <1>2
    <2>2. u[Len(s) + (i - Len(s))] = t[i - Len(s)]  BY <1>1, <2>1, Join
    <2>3. t[i - Len(s)] \in Ending  BY <2>1
    <2> QED  BY <2>1, <2>2, <2>3
  <1>4. \A i \in 1 .. Len(u) : i = 1 \/ i \in 2 .. n + 1 \/ i = n + 2 \/ i = n + 3 \/ i \notin 1 .. n + 3
    BY <1>2
  <1>5. /\ u[1] = SeekFlag /\ u[n + 2] = SeekTarget /\ u[n + 3] \in Plain
        /\ \A i \in 2 .. n + 1 : u[i] = s[i] /\ u[i] \in Clears
    BY <1>2
  <1>6. DiesFirst(u, d)
    <2>1. \A i \in 1 .. Len(s) : s[i] \notin Stopping
      <3>1. \A i \in 1 .. Len(s) : i = 1 \/ i \in 2 .. n + 1 \/ i = n + 2 \/ i = n + 3  OBVIOUS
      <3> QED  BY <3>1, Kinds
    <2>2. DiesFirst(s, d)  BY <2>1 DEF DiesFirst
    <2> QED  BY <1>1, <2>2, JoinDies
  <1> HIDE DEF u
  <1>7. \A i \in 1 .. Len(u) : u[i] = SeekFlag => i = 1
    BY <1>3, <1>4, <1>5, Kinds DEF Ending
  <1>8. \A i \in 1 .. Len(u) : u[i] = SeekTarget => i = n + 2
    BY <1>3, <1>4, <1>5, Kinds DEF Ending
  <1>9. SeeksFirst(u)
    <2>1. \A j \in 1 .. (n + 2) - 1 : j = 1 \/ j \in 2 .. n + 1  OBVIOUS
    <2>2. \A j \in 1 .. (n + 2) - 1 : u[j] \in Clears \cup {SeekFlag}  BY <1>5, <2>1
    <2> QED  BY <1>7, <1>8, <2>2 DEF SeeksFirst
  <1>10. SeekIsWhole(u)
    <2>1. n + 2 \in 1 .. Len(u)  BY <1>2
    <2>2. HasTarget(u)  BY <2>1, <1>5 DEF HasTarget
    <2>3. ASSUME Buffered PROVE FlushesFirst(u)
      <3>1. PICK i \in 2 .. n + 1 : u[i].op = "buffFlush"  BY <1>5, <2>3
      <3>2. i \in 1 .. (n + 2) - 1  BY <3>1
      <3> QED  BY <2>1, <1>5, <3>1, <3>2 DEF FlushesFirst
    <2> QED  BY <2>2, <2>3 DEF SeekIsWhole
  <1>11. \A i \in 1 .. Len(u) : u[i] \notin Starting
    BY <1>3, <1>4, <1>5, Kinds DEF Ending
  <1>12. StartsLast(u) /\ ~HasStart(u)
    BY <1>11 DEF StartsLast, HasStart
  <1> QED  BY <1>2, <1>6, <1>9, <1>10, <1>12 DEF u

\* A start behind operations and flags.
LEMMA StartOrder ==
  ASSUME NEW s \in Seq(Quiets), NEW e \in Starting, NEW d \in BOOLEAN
  PROVE  LET u == s \o <<e>> IN
         u \in Seq(Work) /\ DiesFirst(u, d) /\ SeeksFirst(u) /\ SeekIsWhole(u) /\ StartsLast(u) /\ ~HasTarget(u)
  <1> DEFINE u == s \o <<e>>  n == Len(s)
  <1>1. s \in Seq(Work) /\ <<e>> \in Seq(Work) /\ n \in Nat
    <2>1. Quiets \subseteq Work /\ e \in Work  BY DEF Work, Ending, Plain
    <2> QED  BY <2>1
  <1>2. u \in Seq(Work) /\ Len(u) = n + 1 /\ u[n + 1] = e /\ \A i \in 1 .. n : u[i] = s[i]
    <2>1. Len(<<e>>) = 1 /\ <<e>>[1] = e  OBVIOUS
    <2> HIDE DEF n
    <2>2. Len(s) = n  BY DEF n
    <2> QED  BY <1>1, <2>1, <2>2, OneMore
  <1> HIDE DEF u, n
  <1>3. \A i \in 1 .. n : u[i] \in Quiets  BY <1>2 DEF n
  <1>4. \A i \in 1 .. Len(u) : i \in 1 .. n \/ i = n + 1  BY <1>1, <1>2
  <1>5. \A i \in 1 .. Len(u) : u[i] \notin Stopping /\ u[i] # SeekFlag /\ u[i] # SeekTarget
    BY <1>2, <1>3, <1>4, Kinds
  <1>6. \A i \in 1 .. Len(u) : u[i] \in Starting => i = Len(u)
    BY <1>2, <1>3, <1>4, Kinds
  <1>7. \A j \in 1 .. Len(u) - 1 : u[j].op # "call" /\ u[j] # SeekFlag
    <2>1. \A j \in 1 .. Len(u) - 1 : j \in 1 .. n  BY <1>1, <1>2
    <2> QED  BY <1>3, <2>1, Kinds
  <1>8. DiesFirst(u, d) /\ SeeksFirst(u) /\ SeekIsWhole(u) /\ ~HasTarget(u)
    <2>1. 1 \in 1 .. Len(u)  BY <1>1, <1>2
    <2> QED  BY <1>5, <2>1 DEF DiesFirst, SeeksFirst, SeekIsWhole, HasTarget
  <1>9. StartsLast(u)  BY <1>6, <1>7 DEF StartsLast
  <1> QED  BY <1>2, <1>8, <1>9 DEF u

\* What a call puts in place of itself.
LEMMA CalledOrder ==
  ASSUME TypeOK, Ordered, Called
  PROVE  /\ todo' \in Seq(Work) /\ DiesFirst(todo', dieNow) /\ SeeksFirst(todo') /\ SeekIsWhole(todo') /\ StartsLast(todo')
         /\ HasStart(todo') => HasStart(todo)
         /\ HasTarget(todo') => pb["isPlaying"]
  <1> DEFINE h == todo[1]  t == Tail(todo)  s == Steps(h.command)
  <1>1. todo # <<>> /\ h.op = "call" /\ todo' = s \o t /\ h \in Work /\ Head(todo) = h
    BY TailOrder DEF Called, Next1, TypeOK, Ordered
  <1>2. /\ t \in Seq(Work) /\ DiesFirst(t, dieNow) /\ (h \in Stopping => dieNow) /\ SeeksFirst(t) /\ StartsLast(t)
        /\ (h \in Starting => t = <<>>)
    <2>1. h # DieStep  BY <1>1 DEF DieStep, Step
    <2>2. todo \in Seq(Work) /\ dieNow \in BOOLEAN  BY DEF TypeOK
    <2>3. /\ t \in Seq(Work) /\ DiesFirst(t, dieNow \/ h = DieStep) /\ (h \in Stopping => dieNow) /\ SeeksFirst(t)
          /\ StartsLast(t) /\ (h \in Starting => t = <<>>)
      BY <1>1, <2>2, TailOrder DEF Ordered
    <2> QED  BY <2>1, <2>2, <2>3
  <1>3. t \in Seq(Ending)
    <2>1. \A i \in 1 .. Len(t) : t[i] = todo[i + 1] /\ i + 1 \in 1 .. Len(todo) /\ 1 \in 1 .. (i + 1) - 1 /\ t[i] \in Work
      BY <1>1, <1>2 DEF TypeOK
    <2>2. h # SeekFlag /\ h \notin Clears  BY <1>1, Kinds
    <2>3. \A i \in 1 .. Len(t) : t[i] # SeekFlag
      BY <2>1 DEF Ordered, SeeksFirst
    <2>4. \A i \in 1 .. Len(t) : t[i] # SeekTarget
      BY <2>1, <2>2 DEF Ordered, SeeksFirst
    <2>5. \A i \in 1 .. Len(t) : t[i] \notin Starting
      BY <1>1, <2>1 DEF Ordered, StartsLast
    <2>6. \A i \in 1 .. Len(t) : t[i] \in Ending
      BY <2>1, <2>3, <2>4, <2>5 DEF Work, Ending
    <2> HIDE DEF t
    <2> QED  BY <1>2, <2>6, Narrow
  <1> HIDE DEF t
  <1>4. dieNow \in BOOLEAN  BY DEF TypeOK
  <1>5. ASSUME s \in Seq(Ending), DiesFirst(s, dieNow)
        PROVE  /\ s \o t \in Seq(Work) /\ DiesFirst(s \o t, dieNow) /\ SeeksFirst(s \o t) /\ SeekIsWhole(s \o t)
               /\ StartsLast(s \o t) /\ ~HasStart(s \o t) /\ ~HasTarget(s \o t)
    <2>1. s \in Seq(Work) /\ t \in Seq(Work) /\ s \o t \in Seq(Ending)
      BY <1>3, <1>5, EndingOrder
    <2>2. DiesFirst(s \o t, dieNow)  BY <1>2, <1>4, <1>5, <2>1, JoinDies
    <2> QED  BY <2>1, <2>2, EndingOrder
  <1>6. CASE h \in Plain
    <2>1. h.command \in PlainCalls
      BY <1>1, <1>6 DEF Plain, Quiets, PlainSteps, OwnSteps, PlainSets, PlainOps, OwnOps
    <2>2. CASE h.command = "stop"
      <3>1. s \in Seq(Ending) /\ Len(s) = 3 /\ s[1] = DieStep  BY <2>2, StepsStop
      <3>2. DiesFirst(s, dieNow)
        <4> SUFFICES ASSUME NEW i \in 1 .. Len(s), s[i] \in Stopping PROVE \E k \in 1 .. i - 1 : s[k] = DieStep
          BY DEF DiesFirst
        <4>1. i # 1  BY <3>1, Kinds
        <4>2. 1 \in 1 .. i - 1  BY <4>1, <3>1
        <4> QED  BY <3>1, <4>2
      <3> QED  BY <1>1, <1>5, <3>1, <3>2
    <2>3. CASE h.command = "seek"
      <3>1. CASE s = <<>>
        <4>1. <<>> \in Seq(Ending) /\ <<>> \in Seq(Plain)  OBVIOUS
        <4>2. DiesFirst(<<>>, dieNow)  BY <1>4, <4>1, EndingOrder
        <4> QED  BY <1>1, <1>5, <3>1, <4>1, <4>2
      <3>2. CASE s # <<>>
        <4> HIDE DEF s
        <4>1. /\ pb["isPlaying"]
              /\ s = <<SeekFlag>> \o Out("clear") \o <<SeekTarget>> \o Set({}, {"isSeeking"})
          BY <2>3, <3>2, StepsSeek DEF s
        <4>2. s \in Seq(Work)  BY <4>1, SeekShape
        <4>3. PICK n \in Nat :
                /\ Len(s) = n + 3 /\ s[1] = SeekFlag /\ s[n + 2] = SeekTarget /\ s[n + 3] \in Plain
                /\ \A i \in 2 .. n + 1 : s[i] \in Clears
                /\ Buffered => \E i \in 2 .. n + 1 : s[i].op = "buffFlush"
          BY <4>1, SeekShape
        <4>4. /\ s \o t \in Seq(Work) /\ DiesFirst(s \o t, dieNow) /\ SeeksFirst(s \o t) /\ SeekIsWhole(s \o t)
              /\ StartsLast(s \o t) /\ ~HasStart(s \o t)
          BY <1>2, <1>3, <1>4, <4>2, <4>3, SeekOrder
        <4> QED  BY <1>1, <4>1, <4>4
      <3> QED  BY <3>1, <3>2
    <2>4. CASE h.command \notin {"stop", "seek"}
      <3>1. s \in Seq(Plain)  BY <2>1, <2>4, StepsPlain
      <3>2. s \in Seq(Ending)  BY <3>1, Pieces
      <3>3. DiesFirst(s, dieNow)  BY <1>4, <3>1, <3>2, EndingOrder
      <3> QED  BY <1>1, <1>5, <3>2, <3>3
    <2> QED  BY <2>2, <2>3, <2>4
  <1>7. CASE h \in Stopping
    <2>1. h.command \in {"stopOutput", "closeOutput"}  BY <1>1, <1>7 DEF Stopping, Step
    <2>2. s \in Seq(Ending)  BY <2>1, StepsEnd
    <2>3. DiesFirst(s, dieNow)  BY <1>2, <1>4, <1>7, <2>2, EndingOrder
    <2> QED  BY <1>1, <1>5, <2>2, <2>3
  <1>8. CASE h \in Starting
    <2>1. h.command \in {"start", "play"}  BY <1>1, <1>8 DEF Starting, Step
    <2>2. s \in Seq(Work) /\ todo' = s
      <3>1. \A x \in Seq(Work) : x \o <<>> = x  OBVIOUS
      <3>2. s \in Seq(Work)
        <4>1. <<>> \in Seq(Work)  OBVIOUS
        <4> QED  BY <1>4, <2>1, <4>1, StepsStart, StartOrder
      <3> QED  BY <1>1, <1>2, <1>8, <3>1, <3>2
    <2>3. HasStart(todo)
      <3>1. 1 \in 1 .. Len(todo)  BY <1>1 DEF TypeOK
      <3> QED  BY <3>1, <1>8 DEF HasStart
    <2>4. CASE s = <<>>
      <3>1. <<>> \in Seq(Ending) /\ <<>> \in Seq(Plain)  OBVIOUS
      <3> QED  BY <1>4, <2>2, <2>4, <3>1, EndingOrder
    <2>5. CASE s # <<>>
      <3>1. PICK q \in Seq(Quiets), e \in Starting : s = q \o <<e>>  BY <2>1, <2>5, StepsStart
      <3> HIDE DEF s
      <3> QED  BY <1>4, <2>2, <2>3, <3>1, StartOrder
    <2> QED  BY <2>4, <2>5
  <1>9. h \in Plain \/ h \in Stopping \/ h \in Starting
    BY <1>1, Kinds DEF Work, Ending
  <1> QED  BY <1>6, <1>7, <1>8, <1>9

-----------------------------------------------------------------------------
(* The decoders, and the types.                                            *)

\* What an operation leaves of a decoder: it may empty it, it puts nothing into it.
Emptier(d) == {e \in DeviceType : e.data \in {0, d.data}}

\* No operation of linuxdvb_mipsel.c puts data into a decoder.
LEMMA MipselKeeps ==
  ASSUME NEW d \in DeviceType, NEW op, NEW t, NEW f \in BOOLEAN
  PROVE  Mipsel!Operation(op, t, d, f) \in Emptier(d)
  <1> USE DEF DeviceType, Emptier, Mipsel!IfOpen, Mipsel!Run, Mipsel!Hold, Mipsel!Release, Mipsel!Empty, Mipsel!Halt
  <1>1. d \in Emptier(d)  OBVIOUS
  <1>2. Mipsel!LinuxDvbOpen(d) \in Emptier(d)  BY DEF Mipsel!LinuxDvbOpen
  <1>3. Mipsel!LinuxDvbClose(d) \in Emptier(d)  BY DEF Mipsel!LinuxDvbClose
  <1>4. Mipsel!LinuxDvbPlay(t, d) \in Emptier(d)  BY DEF Mipsel!LinuxDvbPlay
  <1>5. Mipsel!LinuxDvbStop(d) \in Emptier(d)  BY DEF Mipsel!LinuxDvbStop
  <1>6. Mipsel!LinuxDvbPause(d) \in Emptier(d)  BY DEF Mipsel!LinuxDvbPause
  <1>7. Mipsel!LinuxDvbContinue(t, d, f) \in Emptier(d)
    <2>1. [d EXCEPT !.fast = @ /\ (t = "audio" \/ f)] = [d EXCEPT !.fast = d.fast /\ (t = "audio" \/ f)]  OBVIOUS
    <2>2. (d.fast /\ (t = "audio" \/ f)) \in BOOLEAN  OBVIOUS
    <2> QED  BY <2>1, <2>2 DEF Mipsel!LinuxDvbContinue
  <1>8. Mipsel!LinuxDvbFastForward(t, d) \in Emptier(d)  BY DEF Mipsel!LinuxDvbFastForward
  <1>9. Mipsel!LinuxDvbClear(d) \in Emptier(d)  BY DEF Mipsel!LinuxDvbClear
  <1>10. Mipsel!LinuxDvbSwitch(d) \in Emptier(d)  BY DEF Mipsel!LinuxDvbSwitch
  <1> QED
    BY <1>1, <1>2, <1>3, <1>4, <1>5, <1>6, <1>7, <1>8, <1>9, <1>10, Zenon
    DEF Mipsel!Operation, Mipsel!LinuxDvbSlowMotion, Mipsel!LinuxDvbAVSync, Mipsel!LinuxDvbAudioMute

\* Nor does one of linuxdvb_sh4.c.
LEMMA Sh4Keeps ==
  ASSUME NEW d \in DeviceType, NEW op, NEW t
  PROVE  Sh4!OperationSh4(op, t, d) \in Emptier(d)
  <1> USE DEF DeviceType, Emptier, Sh4!IfOpen, Sh4!Run, Sh4!Hold, Sh4!Release, Sh4!Empty, Sh4!Halt
  <1>1. d \in Emptier(d)  OBVIOUS
  <1>2. Sh4!Open(d) \in Emptier(d)  BY DEF Sh4!Open
  <1>3. Sh4!Close(d) \in Emptier(d)  BY DEF Sh4!Close, Sh4!LinuxDvbClose
  <1>4. Sh4!Play(d) \in Emptier(d)  BY DEF Sh4!Play
  <1>5. Sh4!Stop(d) \in Emptier(d)  BY DEF Sh4!Stop
  <1>6. Sh4!Pause(d) \in Emptier(d)  BY DEF Sh4!Pause
  <1>7. Sh4!Continue(d) \in Emptier(d)  BY DEF Sh4!Continue
  <1>8. Sh4!FastForward(t, d) \in Emptier(d)  BY DEF Sh4!FastForward
  <1>9. Sh4!Clear(d) \in Emptier(d)  BY DEF Sh4!Clear
  <1>10. Sh4!Switch(d) \in Emptier(d)  BY DEF Sh4!Switch
  <1>11. Sh4!AudioMute(op, d) \in Emptier(d)  BY DEF Sh4!AudioMute
  <1> QED
    BY <1>1, <1>2, <1>3, <1>4, <1>5, <1>6, <1>7, <1>8, <1>9, <1>10, <1>11, Zenon
    DEF Sh4!OperationSh4, Sh4!SlowMotion, Sh4!AVSync

\* What an operation leaves is a decoder, with no more in it than before.
LEMMA DeviceKeeps ==
  ASSUME TypeOK, NEW op, NEW t, NEW d \in DeviceType
  PROVE  Device(op, t, d) \in DeviceType /\ Device(op, t, d).data <= d.data
  <1>1. pb["isForwarding"] \in BOOLEAN  BY DEF TypeOK, Flags
  <1>2. Device(op, t, d) \in Emptier(d)  BY <1>1, MipselKeeps, Sh4Keeps DEF Device
  <1> QED  BY <1>2 DEF Emptier, DeviceType

\* What a seek makes of the packets in hand.
LEMMA OldPackets ==
  /\ Old(NoPacket) = NoPacket
  /\ \A p \in Packets : Old(p) \in Packets /\ Old(p).old /\ Old(p).type = p.type
  /\ \A p \in PacketType : Old(p) \in PacketType /\ (Old(p).old => p \in Packets)
  <1>1. NoPacket \notin Packets /\ ~NoPacket.old  BY DEF NoPacket, Packets, Types
  <1>2. Old(NoPacket) = NoPacket
    <2>1. (NoPacket # NoPacket) = FALSE  OBVIOUS
    <2>2. Old(NoPacket) = [NoPacket EXCEPT !.old = FALSE]  BY <2>1 DEF Old
    <2> QED  BY <2>2 DEF NoPacket
  <1>3. ASSUME NEW p \in Packets PROVE Old(p) \in Packets /\ Old(p).old /\ Old(p).type = p.type
    <2>1. (p # NoPacket) = TRUE  BY <1>1
    <2>2. Old(p) = [p EXCEPT !.old = TRUE]  BY <2>1 DEF Old
    <2> QED  BY <2>2 DEF Packets
  <1> QED  BY <1>1, <1>2, <1>3 DEF PacketType

\* A seek makes every packet of the queue old, and leaves it where it is.
LEMMA OldQueue ==
  ASSUME NEW q \in Seq(Packets)
  PROVE  LET o == [i \in DOMAIN q |-> Old(q[i])] IN
         o \in Seq(Packets) /\ Len(o) = Len(q) /\ \A i \in 1 .. Len(q) : o[i] = Old(q[i]) /\ o[i].old
  BY OldPackets

-----------------------------------------------------------------------------
(* The order of `todo' is kept.                                            *)

\* The order of what is left to do, and that nothing is to be started that was not.
TodoKept ==
  /\ todo' \in Seq(Work) /\ DiesFirst(todo', dieNow') /\ SeeksFirst(todo') /\ SeekIsWhole(todo') /\ StartsLast(todo')
  /\ HasStart(todo') => HasStart(todo)

\* A step that is done leaves the others in their order.
LEMMA DoneOrder ==
  ASSUME TypeOK, Ordered, todo # <<>>, todo' = Tail(todo), dieNow' \in BOOLEAN, dieNow \/ todo[1] = DieStep => dieNow'
  PROVE  TodoKept /\ (todo[1] = SeekFlag \/ todo[1] \in Starting => ~HasStart(todo'))
  <1> DEFINE t == Tail(todo)
  <1>1. todo \in Seq(Work) /\ dieNow \in BOOLEAN  BY DEF TypeOK
  <1>2. /\ t \in Seq(Work) /\ DiesFirst(t, dieNow \/ todo[1] = DieStep) /\ SeeksFirst(t) /\ SeekIsWhole(t) /\ StartsLast(t)
        /\ (HasStart(t) => HasStart(todo)) /\ (todo[1] \in Starting => t = <<>>)
        /\ (todo[1] = SeekFlag => ~HasStart(t))
    BY <1>1, TailOrder DEF Ordered
  <1>3. DiesFirst(t, dieNow')  BY <1>2 DEF DiesFirst
  <1>4. ~HasStart(<<>>)  BY DEF HasStart
  <1> HIDE DEF t
  <1>5. t = todo'  BY DEF t
  <1> QED  BY <1>2, <1>3, <1>4, <1>5 DEF TodoKept

\* So does a stop that closes nothing, as the reader has not ended.
LEMMA SkipOrder ==
  ASSUME TypeOK, Ordered, todo # <<>>, todo' = SubSeq(todo, 3, Len(todo)), dieNow' = dieNow, todo[1] \in Stopping
  PROVE  TodoKept
  <1> DEFINE t == Tail(todo)
  <1>1. todo \in Seq(Work) /\ dieNow \in BOOLEAN  BY DEF TypeOK
  <1>2. t \in Seq(Work) /\ DiesFirst(t, dieNow) /\ SeeksFirst(t) /\ StartsLast(t) /\ (HasStart(t) => HasStart(todo))
    <2>1. t \in Seq(Work) /\ SeeksFirst(t) /\ StartsLast(t) /\ (HasStart(t) => HasStart(todo)) /\ dieNow
      BY <1>1, TailOrder DEF Ordered
    <2> QED  BY <2>1 DEF DiesFirst
  <1>3. CASE t = <<>>
    <2>1. Len(todo) \in Nat /\ Len(t) = Len(todo) - 1  BY <1>1
    <2>4. Len(t) = 0
      <3> HIDE DEF t
      <3> QED  BY <1>3
    <2>2. todo' = <<>>  BY <1>1, <2>1, <2>4
    <2>3. <<>> \in Seq(Ending) /\ <<>> \in Seq(Plain)  OBVIOUS
    <2> QED  BY <1>1, <2>2, <2>3, EndingOrder DEF TodoKept
  <1>4. CASE t # <<>>
    <2>1. todo' = Tail(t)  BY <1>1, <1>4
    <2> HIDE DEF t
    <2>2. /\ Tail(t) \in Seq(Work) /\ DiesFirst(Tail(t), dieNow \/ t[1] = DieStep) /\ SeeksFirst(Tail(t)) /\ SeekIsWhole(Tail(t))
          /\ StartsLast(Tail(t)) /\ (HasStart(Tail(t)) => HasStart(t))
      BY <1>1, <1>2, <1>4, TailOrder
    <2>3. dieNow  BY <1>1, TailOrder DEF Ordered
    <2> QED  BY <1>2, <2>1, <2>2, <2>3 DEF TodoKept, DiesFirst
  <1> QED  BY <1>3, <1>4

\* Every step of the application, the reader and the decoders.
LEMMA OrderStep ==
  ASSUME TypeOK, Ordered, [Next]_vars
  PROVE  todo' \in Seq(Work) /\ Ordered'
  <1>0. /\ todo \in Seq(Work) /\ dieNow \in BOOLEAN
        /\ todo # <<>> => Head(todo) = todo[1] /\ todo[1] \in Work
    BY TailOrder DEF TypeOK
  <1>1. ASSUME TodoKept, output' = output, HasStart(todo') => reader'.at = "none" /\ ~left'
        PROVE  todo' \in Seq(Work) /\ Ordered'
    BY <1>1 DEF TodoKept, Ordered, SeekIsWhole, Buffered
  <1>2. ASSUME todo' = todo, output' = output, dieNow' \in BOOLEAN, dieNow => dieNow'
        PROVE  TodoKept
    BY <1>0, <1>2 DEF Ordered, TodoKept, DiesFirst
  <1>3. ASSUME NEW c \in Commands, Give(c) PROVE todo' \in Seq(Work) /\ Ordered'
    <2>1. c \in PlainCalls  BY CommandsAssumption DEF PlainCalls
    <2>2. todo' \in Seq(Ending) /\ todo' \in Seq(Plain)  BY <1>3, <2>1, Pieces DEF Give
    <2>3. TodoKept /\ ~HasStart(todo')  BY <1>0, <1>3, <2>2, EndingOrder DEF TodoKept, Give
    <2> QED  BY <1>1, <1>3, <2>3 DEF Give
  <1>4. CASE Called
    <2>1. TodoKept
      <3>1. dieNow' = dieNow  BY <1>4 DEF Called
      <3> QED  BY <1>4, <3>1, CalledOrder DEF TodoKept
    <2>2. output' = output /\ reader' = reader /\ left' = left  BY <1>4 DEF Called
    <2>3. HasStart(todo') => reader.at = "none" /\ ~left  BY <2>1 DEF TodoKept, Ordered
    <2> QED  BY <1>1, <2>1, <2>2, <2>3
  <1>5. CASE SetFlags
    <2>1. todo # <<>> /\ todo' = Tail(todo) /\ dieNow' = dieNow /\ output' = output /\ todo[1].op = "set"
      BY <1>0, <1>5 DEF SetFlags, Done, Next1
    <2>2. todo[1] # DieStep  BY <2>1 DEF DieStep, Step
    <2>3. TodoKept /\ (todo[1] = SeekFlag => ~HasStart(todo'))  BY <1>0, <2>1, <2>2, DoneOrder
    <2>4. HasStart(todo') => reader'.at = "none" /\ ~left'
      <3>1. CASE todo[1] = SeekFlag  BY <2>3, <3>1
      <3>2. CASE todo[1] # SeekFlag
        <4>1. todo[1] \in PlainSets  BY <1>0, <2>1, <3>2 DEF Work, Ending, Plain, Quiets, PlainSteps, OwnSteps, PlainOps, OwnOps, Stopping, Starting, SeekTarget, Step
        <4>2. ~(pb'.isSeeking /\ ~pb'.BackWard /\ ~pb.isSeeking)
          BY <1>0, <1>5, <2>1, <4>1 DEF SetFlags, Next1, PlainSets, Flags
        <4>3. reader' = reader /\ left' = left  BY <1>5, <4>2 DEF SetFlags
        <4> QED  BY <2>3, <4>3 DEF TodoKept, Ordered
      <3> QED  BY <3>1, <3>2
    <2> QED  BY <1>1, <2>1, <2>3, <2>4
  <1>6. CASE OutputStep \/ BuffFlush \/ ContainerSeek \/ ContainerLocked
    <2>1. todo # <<>> /\ todo' = Tail(todo) /\ dieNow' = dieNow /\ output' = output /\ left' = left
      BY <1>6 DEF OutputStep, BuffFlush, ContainerSeek, ContainerLocked, Done
    <2>2. todo[1] # DieStep
      <3>1. \/ Head(todo).type # "none" \/ Head(todo).op = "buffFlush" \/ Head(todo) = Step("containerSeek", "none")
            \/ Head(todo) \in {Step("containerSwitch", "none"), Step("containerClose", "none")}
        BY <1>6 DEF OutputStep, BuffFlush, ContainerSeek, ContainerLocked, Next1
      <3> QED  BY <1>0, <2>1, <3>1 DEF DieStep, Step
    <2>3. TodoKept  BY <1>0, <2>1, <2>2, DoneOrder
    <2>4. reader.at = "none" => reader'.at = "none"
      BY <1>6 DEF OutputStep, BuffFlush, ContainerSeek, ContainerLocked
    <2> QED  BY <1>1, <2>1, <2>3, <2>4 DEF TodoKept, Ordered
  <1>7. CASE DieNow
    <2>1. todo # <<>> /\ todo' = Tail(todo) /\ dieNow' = TRUE /\ output' = output /\ left' = left /\ reader' = reader
      BY <1>7 DEF DieNow, Done
    <2>2. TodoKept  BY <1>0, <2>1, DoneOrder
    <2> QED  BY <1>1, <2>1, <2>2 DEF TodoKept, Ordered
  <1>8. CASE ContainerPlay
    <2>1. todo # <<>> /\ todo' = Tail(todo) /\ dieNow' = dieNow /\ output' = output /\ todo[1] = Step("containerPlay", "none")
      BY <1>0, <1>8 DEF ContainerPlay, Done, Next1
    <2>2. todo[1] # DieStep /\ todo[1] \in Starting  BY <2>1 DEF DieStep, Step, Starting
    <2>3. TodoKept /\ ~HasStart(todo')  BY <1>0, <2>1, <2>2, DoneOrder
    <2> QED  BY <1>1, <2>1, <2>3
  <1>9. CASE ContainerStop
    <2>1. /\ todo # <<>> /\ dieNow' = dieNow /\ output' = output /\ left' = left /\ reader' = reader
          /\ todo[1] = Step("containerStop", "none") /\ (todo' = Tail(todo) \/ todo' = SubSeq(todo, 3, Len(todo)))
      BY <1>0, <1>9 DEF ContainerStop, Next1
    <2>2. todo[1] # DieStep /\ todo[1] \in Stopping  BY <2>1 DEF DieStep, Step, Stopping
    <2>3. TodoKept  BY <1>0, <2>1, <2>2, DoneOrder, SkipOrder
    <2> QED  BY <1>1, <2>1, <2>3 DEF TodoKept, Ordered
  <1>10. CASE Ffmpeg
    <2>1. todo' = todo /\ output' = output /\ dieNow' \in BOOLEAN /\ (dieNow => dieNow')
      BY <1>0, <1>10 DEF Ffmpeg, ReaderLoop, ReaderLock, ReaderRewind, ReaderSeek, ReaderSought, ReaderUnlock, ReaderRead,
        ReaderWrite, ReaderQueues, ReaderStarts, ReaderDelivers, ReaderWrote, ReaderEnds, ReaderCloses, ReaderKeeps, app
    <2>2. reader.at # "none"
      BY <1>10 DEF Ffmpeg, ReaderLoop, ReaderLock, ReaderRewind, ReaderSeek, ReaderSought, ReaderUnlock, ReaderRead,
        ReaderWrite, ReaderQueues, ReaderStarts, ReaderDelivers, ReaderWrote, ReaderEnds, ReaderCloses
    <2>3. ~HasStart(todo')  BY <2>1, <2>2 DEF Ordered
    <2> QED  BY <1>1, <1>2, <2>1, <2>3
  <1>11. CASE DrainTakes \/ DrainWrites \/ \E t \in Types : Plays(t)
    <2>1. todo' = todo /\ output' = output /\ dieNow' = dieNow /\ left' = left
      BY <1>11 DEF DrainTakes, DrainWrites, Plays, app
    <2>2. reader.at = "none" => reader'.at = "none"
      BY <1>11 DEF DrainTakes, DrainWrites, Plays
    <2>3. TodoKept  BY <1>0, <1>2, <2>1
    <2> QED  BY <1>1, <2>1, <2>2, <2>3 DEF TodoKept, Ordered
  <1>12. CASE UNCHANGED vars
    <2>1. todo' = todo /\ output' = output /\ dieNow' = dieNow /\ left' = left /\ reader' = reader
      BY <1>12 DEF vars, app
    <2>2. TodoKept  BY <1>0, <1>2, <2>1
    <2> QED  BY <1>1, <2>1, <2>2 DEF TodoKept, Ordered
  <1> QED
    BY <1>3, <1>4, <1>5, <1>6, <1>7, <1>8, <1>9, <1>10, <1>11, <1>12 DEF Next, AppStep

\* A packet more in a decoder, or one less.
LEMMA DataStep ==
  ASSUME TypeOK, NEW t \in Types
  PROVE  /\ [dev EXCEPT ![t].data = @ + 1] \in [Types -> DeviceType]
         /\ dev[t].data > 0 => [dev EXCEPT ![t].data = @ - 1] \in [Types -> DeviceType]
  <1>1. dev \in [Types -> DeviceType] /\ dev[t] \in DeviceType /\ dev[t].data \in Nat
    BY DEF TypeOK, DeviceType
  <1>2. \A n \in Nat : [dev[t] EXCEPT !.data = n] \in DeviceType  BY <1>1 DEF DeviceType
  <1>3. dev[t].data + 1 \in Nat /\ (dev[t].data > 0 => dev[t].data - 1 \in Nat)  BY <1>1
  <1>4. \A e \in DeviceType : [dev EXCEPT ![t] = e] \in [Types -> DeviceType]  BY <1>1
  <1>5. /\ [dev EXCEPT ![t] = [dev[t] EXCEPT !.data = dev[t].data + 1]] \in [Types -> DeviceType]
        /\ dev[t].data > 0 => [dev EXCEPT ![t] = [dev[t] EXCEPT !.data = dev[t].data - 1]] \in [Types -> DeviceType]
    BY <1>2, <1>3, <1>4
  <1> QED  BY <1>5

\* The types.
LEMMA TypeStep ==
  ASSUME TypeOK, Ordered, [Next]_vars
  PROVE  TypeOK'
  <1>0. todo' \in Seq(Work)  BY OrderStep
  <1>1. /\ NoPacket \in PacketType /\ Packets \subseteq PacketType /\ tracks \subseteq Types
        /\ \A t \in Types, b \in BOOLEAN : [type |-> t, old |-> b] \in Packets
    BY DEF TypeOK, PacketType, Packets, Types
  <1> USE DEF DeviceType
  <1>2. ASSUME NEW c \in Commands, Give(c) PROVE TypeOK'
    BY <1>0, <1>2 DEF TypeOK, Give, fifo, devs, hist
  <1>3. CASE Called  BY <1>0, <1>3 DEF TypeOK, Called, fifo, devs, hist
  <1>4. CASE SetFlags
    <2>1. pb' \in [Flags -> BOOLEAN]  BY <1>4 DEF SetFlags, TypeOK
    <2>2. CASE SeekBegins
      <3>1. queue' \in Seq(Packets)  BY <2>2, OldQueue DEF SeekBegins, TypeOK
      <3>2. reader' \in [at : ReaderAts, packet : PacketType] /\ (reader'.at \in {"write", "device", "full", "blocked"} => reader'.packet \in Packets)
        BY <2>2, OldPackets DEF SeekBegins, TypeOK
      <3>3. drain' \in [at : {"none", "write", "written"}, packet : PacketType] /\ (drain'.at = "write" => drain'.packet \in Packets)
        BY <2>2, OldPackets DEF SeekBegins, TypeOK
      <3>4. oldOnes' \in Nat /\ left' \in BOOLEAN  BY <2>2 DEF SeekBegins
      <3> QED  BY <1>0, <1>4, <2>1, <3>1, <3>2, <3>3, <3>4 DEF SetFlags, TypeOK, devs
    <2>3. CASE UNCHANGED <<oldOnes, left, reader, fifo>>
      BY <1>0, <1>4, <2>1, <2>3 DEF SetFlags, TypeOK, devs, fifo
    <2> QED  BY <1>4, <2>2, <2>3 DEF SetFlags
  <1>5. CASE OutputStep
    <2>1. /\ todo # <<>> /\ Next1 \in Work /\ Next1.op \notin {"call", "set"} /\ Next1.type # "none"
      BY <1>5, TailOrder DEF OutputStep, TypeOK, Next1
    <2>2. Next1.type \in Types
      BY <2>1 DEF Work, Ending, Plain, Quiets, PlainSteps, OwnSteps, PlainSets, Stopping, Starting, SeekFlag, SeekTarget, Step
    <2>3. dev' \in [Types -> DeviceType]
      BY <1>5, <2>2, DeviceKeeps DEF OutputStep, TypeOK
    <2>4. stopped' \subseteq Types  BY <1>5, <2>2 DEF OutputStep, TypeOK
    <2> QED  BY <1>0, <1>5, <2>3, <2>4 DEF OutputStep, TypeOK, fifo
  <1>6. CASE BuffFlush
    <2>1. reader' \in [at : ReaderAts, packet : PacketType] /\ (reader'.at \in {"write", "device", "full", "blocked"} => reader'.packet \in Packets)
      BY <1>6 DEF BuffFlush, TypeOK, ReaderAts
    <2>2. queue' \in Seq(Packets)  BY <1>6 DEF BuffFlush
    <2> QED  BY <1>0, <1>6, <2>1, <2>2 DEF BuffFlush, TypeOK, devs, hist
  <1>7. CASE DieNow  BY <1>0, <1>7 DEF DieNow, TypeOK, fifo, devs, hist
  <1>8. CASE ContainerSeek
    <2>1. seekTo' \in BOOLEAN /\ overtaken' \in BOOLEAN
      <3>1. pb.isPlaying \in BOOLEAN  BY DEF TypeOK, Flags
      <3> QED  BY <3>1, <1>8 DEF ContainerSeek, TypeOK
    <2> QED  BY <1>0, <1>8, <2>1 DEF ContainerSeek, TypeOK, fifo, devs
  <1>9. CASE ContainerLocked  BY <1>0, <1>9 DEF ContainerLocked, TypeOK, fifo, devs, hist
  <1>10. CASE ContainerPlay
    <2>1. reader' \in [at : ReaderAts, packet : PacketType] /\ reader'.at = "loop"
      BY <1>10 DEF ContainerPlay, TypeOK, ReaderAts
    <2> QED  BY <1>0, <1>10, <2>1 DEF ContainerPlay, TypeOK, fifo, devs, hist
  <1>11. CASE ContainerStop
    <2>1. pb' \in [Flags -> BOOLEAN]  BY <1>11 DEF ContainerStop, TypeOK
    <2>2. UNCHANGED <<output, tracks, dieNow, dvb, seekTo, bofcount, reader, left, dev, queue, drain, oldOnes, stopped, overtaken>>
      BY <1>11 DEF ContainerStop, fifo, devs
    <2> QED  BY <1>0, <2>1, <2>2 DEF TypeOK
  <1>12. CASE Ffmpeg
    <2>1. UNCHANGED <<output, tracks, stopped, overtaken>>
      BY <1>12 DEF Ffmpeg, ReaderLoop, ReaderLock, ReaderRewind, ReaderSeek, ReaderSought, ReaderUnlock, ReaderRead,
        ReaderWrite, ReaderQueues, ReaderStarts, ReaderDelivers, ReaderWrote, ReaderEnds, ReaderCloses, ReaderKeeps
    <2>2. pb' \in [Flags -> BOOLEAN] /\ dieNow' \in BOOLEAN
      BY <1>12 DEF TypeOK, Ffmpeg, ReaderLoop, ReaderLock, ReaderRewind, ReaderSeek, ReaderSought, ReaderUnlock, ReaderRead,
        ReaderWrite, ReaderQueues, ReaderStarts, ReaderDelivers, ReaderWrote, ReaderEnds, ReaderCloses
    <2>3. seekTo' \in BOOLEAN /\ left' \in BOOLEAN
      BY <1>12 DEF TypeOK, Ffmpeg, ReaderLoop, ReaderLock, ReaderRewind, ReaderSeek, ReaderSought, ReaderUnlock, ReaderRead,
        ReaderWrite, ReaderQueues, ReaderStarts, ReaderDelivers, ReaderWrote, ReaderEnds, ReaderCloses
    <2>4. bofcount' \in BOOLEAN
      <3>1. pb.BackWard \in BOOLEAN  BY DEF TypeOK, Flags
      <3> QED  BY <1>12, <3>1 DEF TypeOK, Ffmpeg, ReaderLoop, ReaderLock, ReaderRewind, ReaderSeek, ReaderSought, ReaderUnlock, ReaderRead,
        ReaderWrite, ReaderQueues, ReaderStarts, ReaderDelivers, ReaderWrote, ReaderEnds, ReaderCloses
    <2>5. dvb' \in {"none", "reader"} /\ oldOnes' \in Nat
      BY <1>12 DEF TypeOK, Ffmpeg, ReaderLoop, ReaderLock, ReaderRewind, ReaderSeek, ReaderSought, ReaderUnlock, ReaderRead,
        ReaderWrite, ReaderQueues, ReaderStarts, ReaderDelivers, ReaderWrote, ReaderEnds, ReaderCloses, Wrote, Counts
    <2>6. /\ reader' \in [at : ReaderAts, packet : PacketType]
          /\ reader'.at \in {"write", "device", "full", "blocked"} => reader'.packet \in Packets
      BY <1>1, <1>12 DEF TypeOK, Ffmpeg, ReaderLoop, ReaderLock, ReaderRewind, ReaderSeek, ReaderSought, ReaderUnlock, ReaderRead,
        ReaderWrite, ReaderQueues, ReaderStarts, ReaderDelivers, ReaderWrote, ReaderEnds, ReaderCloses, Wrote, Reader, Packet, ReaderAts
    <2>7. queue' \in Seq(Packets) /\ drain' = drain
      <3>1. reader.at = "device" => Append(queue, reader.packet) \in Seq(Packets)  BY DEF TypeOK
      <3>2. queue' = queue \/ queue' = <<>> \/ (reader.at = "device" /\ queue' = Append(queue, reader.packet))
        BY <1>12 DEF Ffmpeg, ReaderLoop, ReaderLock, ReaderRewind, ReaderSeek, ReaderSought, ReaderUnlock, ReaderRead,
          ReaderWrite, ReaderQueues, ReaderStarts, ReaderDelivers, ReaderWrote, ReaderEnds, ReaderCloses, fifo
      <3>3. drain' = drain
        BY <1>12 DEF Ffmpeg, ReaderLoop, ReaderLock, ReaderRewind, ReaderSeek, ReaderSought, ReaderUnlock, ReaderRead,
          ReaderWrite, ReaderQueues, ReaderStarts, ReaderDelivers, ReaderWrote, ReaderEnds, ReaderCloses, fifo
      <3>4. <<>> \in Seq(Packets) /\ queue \in Seq(Packets)  BY DEF TypeOK
      <3> QED  BY <3>1, <3>2, <3>3, <3>4
    <2>8. dev' \in [Types -> DeviceType]
      <3>1. CASE ReaderRewind
        <4>1. "video" \in Types  BY DEF Types
        <4> QED  BY <3>1, <4>1, DeviceKeeps DEF ReaderRewind, TypeOK
      <3>2. CASE ReaderDelivers
        <4>1. reader.packet.type \in Types  BY <3>2 DEF ReaderDelivers, TypeOK, Packets
        <4>2. dev' = dev \/ dev' = [dev EXCEPT ![reader.packet.type].data = @ + 1]  BY <3>2 DEF ReaderDelivers
        <4>3. dev \in [Types -> DeviceType]  BY DEF TypeOK
        <4>4. [dev EXCEPT ![reader.packet.type].data = @ + 1] \in [Types -> DeviceType]  BY <4>1, DataStep
        <4> QED  BY <4>2, <4>3, <4>4
      <3>3. CASE ~ReaderRewind /\ ~ReaderDelivers
        BY <1>12, <3>3 DEF TypeOK, Ffmpeg, ReaderLoop, ReaderLock, ReaderSeek, ReaderSought, ReaderUnlock, ReaderRead,
          ReaderWrite, ReaderQueues, ReaderStarts, ReaderWrote, ReaderEnds, ReaderCloses, devs
      <3> QED  BY <3>1, <3>2, <3>3
    <2> QED  BY <1>0, <2>1, <2>2, <2>3, <2>4, <2>5, <2>6, <2>7, <2>8 DEF TypeOK
  <1>13. CASE DrainTakes
    <2>1. reader' \in [at : ReaderAts, packet : PacketType] /\ (reader'.at \in {"write", "device", "full", "blocked"} => reader'.packet \in Packets)
      BY <1>13 DEF DrainTakes, TypeOK, ReaderAts
    <2>2. queue' \in Seq(Packets) /\ (queue # <<>> => Head(queue) \in Packets)
      <3>1. queue \in Seq(Packets)  BY DEF TypeOK
      <3>2. queue # <<>> => Tail(queue) \in Seq(Packets) /\ Head(queue) \in Packets  BY <3>1
      <3> QED  BY <1>13, <3>1, <3>2 DEF DrainTakes
    <2>3. drain' \in [at : {"none", "write", "written"}, packet : PacketType] /\ (drain'.at = "write" => drain'.packet \in Packets)
      BY <1>1, <1>13, <2>2 DEF DrainTakes, TypeOK
    <2> QED  BY <1>0, <1>13, <2>1, <2>2, <2>3 DEF DrainTakes, TypeOK, app, devs, hist
  <1>14. CASE DrainWrites
    <2>1. drain.packet.type \in Types  BY <1>14 DEF DrainWrites, TypeOK, Packets
    <2>2. dev' \in [Types -> DeviceType]
      <3>1. dev' = dev \/ dev' = [dev EXCEPT ![drain.packet.type].data = @ + 1]  BY <1>14 DEF DrainWrites
      <3>2. dev \in [Types -> DeviceType]  BY DEF TypeOK
      <3>3. [dev EXCEPT ![drain.packet.type].data = @ + 1] \in [Types -> DeviceType]  BY <2>1, DataStep
      <3> QED  BY <3>1, <3>2, <3>3
    <2>3. drain' \in [at : {"none", "write", "written"}, packet : PacketType] /\ drain'.at = "written"
      BY <1>1, <1>14 DEF DrainWrites
    <2>4. oldOnes' \in Nat  BY <1>14 DEF DrainWrites, Counts, TypeOK
    <2> QED  BY <1>0, <1>14, <2>2, <2>3, <2>4 DEF DrainWrites, TypeOK, app
  <1>15. ASSUME NEW t \in Types, Plays(t) PROVE TypeOK'
    <2>1. dev' \in [Types -> DeviceType]  BY <1>15, DataStep DEF Plays
    <2> QED  BY <1>0, <1>15, <2>1 DEF Plays, TypeOK, app, fifo, hist
  <1>16. CASE UNCHANGED vars  BY <1>0, <1>16 DEF TypeOK, vars, app, devs, fifo, hist
  <1> QED
    BY <1>2, <1>3, <1>4, <1>5, <1>6, <1>7, <1>8, <1>9, <1>10, <1>11, <1>12, <1>13, <1>14, <1>15, <1>16 DEF Next, AppStep

\* A sequence of one step.
LEMMA Single ==
  ASSUME NEW S, NEW e \in S
  PROVE  <<e>> \in Seq(S) /\ Len(<<e>>) = 1 /\ <<e>>[1] = e /\ \A i \in 1 .. Len(<<e>>) : i = 1
  OBVIOUS

\* The playback starts in that order.
LEMMA StartsRight == Init => TypeOK /\ Ordered
  <1> SUFFICES ASSUME Init PROVE TypeOK /\ Ordered
    OBVIOUS
  <1>1. /\ [op |-> "call", command |-> "start"] \in Starting /\ todo = <<[op |-> "call", command |-> "start"]>>
        /\ reader.at = "none" /\ ~left
    BY DEF Starting, Call, Init, Closed
  <1>2. todo \in Seq(Work) /\ todo[1] \in Starting /\ todo[1] \in Work /\ Len(todo) = 1 /\ \A i \in 1 .. Len(todo) : i = 1
    <2>1. [op |-> "call", command |-> "start"] \in Work  BY <1>1 DEF Work
    <2> QED  BY <1>1, <2>1, Single
  <1>3. TypeOK
    <2>1. output \in [box : {"mipsel", "sh4"}, buffered : BOOLEAN]  BY OutputsAssumption DEF Init, Closed
    <2>2. pb \in [Flags -> BOOLEAN]  BY DEF Init, Closed
    <2>3. NoPacket \in PacketType  BY DEF PacketType
    <2>4. dev \in [Types -> DeviceType]  BY DEF Init, Closed, NewDevice, DeviceType
    <2>5. reader \in [at : ReaderAts, packet : PacketType] /\ reader.at = "none"
      BY <2>3 DEF Init, Closed, ReaderAts
    <2>6. drain \in [at : {"none", "write", "written"}, packet : PacketType] /\ drain.at = "none"
      BY <2>3 DEF Init, Closed
    <2>7. queue \in Seq(Packets)
      <3>1. <<>> \in Seq(Packets)  OBVIOUS
      <3> QED  BY <3>1 DEF Init, Closed
    <2>8. /\ tracks \in {Types, {"audio"}} /\ dieNow \in BOOLEAN /\ dvb \in {"none", "reader"} /\ seekTo \in BOOLEAN
          /\ bofcount \in BOOLEAN /\ left \in BOOLEAN /\ oldOnes \in Nat /\ overtaken \in BOOLEAN /\ stopped \subseteq Types
      BY DEF Init, Closed
    <2> QED  BY <1>2, <2>1, <2>2, <2>4, <2>5, <2>6, <2>7, <2>8 DEF TypeOK
  <1>4. Ordered
    <2>1. todo[1] \notin Stopping /\ todo[1] # SeekFlag /\ todo[1] # SeekTarget  BY <1>2, Kinds
    <2>3. DiesFirst(todo, dieNow) /\ SeeksFirst(todo) /\ SeekIsWhole(todo)
      BY <1>2, <2>1 DEF DiesFirst, SeeksFirst, SeekIsWhole
    <2>4. StartsLast(todo)  BY <1>2 DEF StartsLast
    <2> QED  BY <1>1, <2>3, <2>4 DEF Ordered
  <1> QED  BY <1>3, <1>4

-----------------------------------------------------------------------------
(* Nothing gets into a decoder that was stopped.                           *)

\* Every step keeps the reader out of a decoder that was stopped.
LEMMA StopStep ==
  ASSUME StopInv, [Next]_vars
  PROVE  StopInv'
  <1>1. TypeOK /\ Ordered /\ ReaderIsOut  BY DEF StopInv
  <1>2. TypeOK' /\ Ordered'  BY <1>1, TypeStep, OrderStep
  <1> USE DEF IsSh4
  <1>3. ReaderIsOut'
    <2>1. CASE OutputStep
      <3>1. todo # <<>> /\ Head(todo) = todo[1] /\ todo[1] \in Work /\ (todo[1] \in Stopping => dieNow)
        BY <1>1, <2>1, TailOrder DEF OutputStep, TypeOK, Ordered
      <3>2. /\ UNCHANGED <<output, dieNow, dvb, reader>>
            /\ stopped' = stopped \/ todo[1].op = "stop"
            /\ Locked(todo[1].op) => dvb = "none"
        BY <2>1, <3>1 DEF OutputStep, Next1
      <3>3. CASE stopped' = stopped  BY <1>1, <3>2, <3>3 DEF ReaderIsOut
      <3>4. CASE todo[1].op = "stop"
        <4>1. todo[1] \in Stopping
          BY <3>1, <3>4 DEF Work, Ending, Plain, Quiets, PlainSteps, OwnSteps, PlainSets, PlainOps, OwnOps, Starting,
             SeekFlag, SeekTarget, Step
        <4>2. ~IsSh4 => dvb = "none"  BY <3>2, <3>4 DEF Locked, Mipsel!Locked
        <4> QED  BY <1>1, <3>1, <3>2, <4>1, <4>2 DEF ReaderIsOut
      <3> QED  BY <3>2, <3>3, <3>4
    <2>2. CASE \/ \E c \in Commands : Give(c)
               \/ Called \/ SetFlags \/ BuffFlush \/ DieNow \/ ContainerSeek \/ ContainerLocked \/ ContainerPlay \/ ContainerStop
               \/ DrainTakes \/ DrainWrites \/ (\E t \in Types : Plays(t)) \/ UNCHANGED vars
      <3>1. output' = output /\ dvb' = dvb /\ stopped' = stopped /\ (dieNow' = dieNow \/ dieNow' = TRUE)
        BY <1>1, <2>2 DEF Give, Called, SetFlags, BuffFlush, DieNow, ContainerSeek, ContainerLocked, ContainerPlay, ContainerStop,
           DrainTakes, DrainWrites, Plays, vars, hist
      <3>2. \/ reader'.at = reader.at \/ reader'.at \notin {"device", "full", "blocked"}
            \/ reader.at = "full" /\ reader'.at = "device"
        BY <1>1, <2>2 DEF TypeOK, Give, Called, SetFlags, SeekBegins, BuffFlush, DieNow, ContainerSeek, ContainerLocked, ContainerPlay, ContainerStop,
           DrainTakes, DrainWrites, Plays, vars
      <3> QED  BY <1>1, <3>1, <3>2 DEF ReaderIsOut
    <2>3. CASE Ffmpeg
      <3>1. output' = output /\ stopped' = stopped
        BY <2>3 DEF Ffmpeg, ReaderLoop, ReaderLock, ReaderRewind, ReaderSeek, ReaderSought, ReaderUnlock, ReaderRead,
          ReaderWrite, ReaderQueues, ReaderStarts, ReaderDelivers, ReaderWrote, ReaderEnds, ReaderCloses, ReaderKeeps
      <3>2. dieNow => dieNow'
        BY <2>3 DEF Ffmpeg, ReaderLoop, ReaderLock, ReaderRewind, ReaderSeek, ReaderSought, ReaderUnlock, ReaderRead,
          ReaderWrite, ReaderQueues, ReaderStarts, ReaderDelivers, ReaderWrote, ReaderEnds, ReaderCloses
      <3>3. ~IsSh4 /\ reader'.at \in {"device", "full", "blocked"} => dvb' = "reader"
        BY <1>1, <2>3 DEF TypeOK, ReaderIsOut, Ffmpeg, ReaderLoop, ReaderLock, ReaderRewind, ReaderSeek, ReaderSought, ReaderUnlock, ReaderRead,
          ReaderWrite, ReaderQueues, ReaderStarts, ReaderDelivers, ReaderWrote, ReaderEnds, ReaderCloses, Wrote, Reader
      <3>4. ~IsSh4 /\ stopped # {} => reader'.at # "blocked"
        BY <1>1, <2>3 DEF TypeOK, ReaderIsOut, Ffmpeg, ReaderLoop, ReaderLock, ReaderRewind, ReaderSeek, ReaderSought, ReaderUnlock, ReaderRead,
          ReaderWrite, ReaderQueues, ReaderStarts, ReaderDelivers, ReaderWrote, ReaderEnds, ReaderCloses, Wrote, Reader
      <3> QED  BY <1>1, <3>1, <3>2, <3>3, <3>4 DEF ReaderIsOut
    <2> QED  BY <2>1, <2>2, <2>3 DEF Next, AppStep
  <1> QED  BY <1>2, <1>3 DEF StopInv

\* Nothing gets into a decoder of the mipsel and ARM boxes after its OUTPUT_STOP: dieNow is set by
\* then, which every write tests, and the one under way had to end before LinuxDvbStop.
THEOREM NothingGetsInAfterStop == Spec => NothingAfterStop
  <1>1. Init => StopInv
    <2>1. Init => ReaderIsOut  BY DEF Init, Closed, ReaderIsOut
    <2> QED  BY <2>1, StartsRight DEF StopInv
  <1>2. StopInv /\ [Next]_vars => StopInv'  BY StopStep
  <1>3. StopInv /\ [Next]_vars => [\A t \in stopped : IsSh4 \/ dev'[t].data <= dev[t].data]_vars
    <2> SUFFICES ASSUME StopInv, Next, NEW t \in stopped, ~IsSh4 PROVE dev'[t].data <= dev[t].data
      OBVIOUS
    <2>1. TypeOK /\ ReaderIsOut /\ t \in Types /\ dev \in [Types -> DeviceType] /\ dev[t] \in DeviceType /\ dev[t].data \in Nat
      BY DEF StopInv, TypeOK, DeviceType
    <2>2. dieNow /\ reader.at # "blocked"  BY <2>1 DEF ReaderIsOut
    <2>3. dev' = dev => dev'[t].data <= dev[t].data  BY <2>1
    <2>4. CASE OutputStep
      <3>1. dev' = [dev EXCEPT ![Next1.type] = Device(Next1.op, Next1.type, @)]  BY <2>4 DEF OutputStep
      <3>2. t = Next1.type => dev'[t] = Device(Next1.op, Next1.type, dev[t])  BY <2>1, <3>1
      <3>3. t # Next1.type => dev'[t] = dev[t]  BY <2>1, <3>1
      <3> QED  BY <2>1, <3>2, <3>3, DeviceKeeps
    <2>5. CASE ReaderRewind
      <3>1. dev' = dev \/ dev' = [dev EXCEPT !["video"] = Device("clear", "video", @)]  BY <2>5 DEF ReaderRewind
      <3>2. dev'[t] = dev[t] \/ dev'[t] = Device("clear", "video", dev[t])  BY <2>1, <3>1
      <3> QED  BY <2>1, <3>2, DeviceKeeps
    <2>6. CASE DrainWrites  BY <2>2, <2>3, <2>6 DEF DrainWrites
    <2>7. ASSUME NEW v \in Types, Plays(v) PROVE dev'[t].data <= dev[t].data
      <3>1. dev'[t] = dev[t] \/ dev'[t] = [dev[t] EXCEPT !.data = dev[t].data - 1]  BY <2>1, <2>7 DEF Plays
      <3>2. [dev[t] EXCEPT !.data = dev[t].data - 1].data = dev[t].data - 1  BY <2>1 DEF DeviceType
      <3>3. dev'[t].data = dev[t].data \/ dev'[t].data = dev[t].data - 1  BY <3>1, <3>2
      <3> QED  BY <2>1, <3>3
    <2>8. CASE ~OutputStep /\ ~ReaderRewind /\ ~DrainWrites /\ ~(\E v \in Types : Plays(v))
      <3>1. ~ReaderDelivers  BY <2>2 DEF ReaderDelivers
      <3>2. dev' = dev
        BY <2>8, <3>1 DEF Next, AppStep, Ffmpeg, DrainTakes, Give, Called, SetFlags, BuffFlush, DieNow, ContainerSeek, ContainerLocked,
           ContainerPlay, ContainerStop, ReaderLoop, ReaderLock, ReaderSeek, ReaderSought, ReaderUnlock, ReaderRead,
           ReaderWrite, ReaderQueues, ReaderStarts, ReaderWrote, ReaderEnds, ReaderCloses, devs
      <3> QED  BY <2>3, <3>2
    <2> QED  BY <2>4, <2>5, <2>6, <2>7, <2>8
  <1> QED  BY <1>1, <1>2, <1>3, PTL DEF Spec, NothingAfterStop

-----------------------------------------------------------------------------
(* What is left of a seek: the queue, the target, and the way of the seek. *)

\* A seek under way is at the head.
LEMMA SeekHead ==
  ASSUME TypeOK, Ordered, todo # <<>>
  PROVE  /\ Head(todo) = todo[1] /\ todo[1] \in Work
         /\ HasTarget(Tail(todo)) => HasTarget(todo) /\ todo[1] \in Clears \cup {SeekFlag}
         /\ HasTarget(todo) => todo[1] = SeekTarget \/ (todo[1] \in Clears \cup {SeekFlag} /\ HasTarget(Tail(todo)))
         /\ todo[1] = SeekTarget => HasTarget(todo)
         /\ FlushesFirst(todo) => /\ todo[1] \in Clears \cup {SeekFlag}
                                  /\ todo[1].op # "buffFlush" => FlushesFirst(Tail(todo))
  <1>1. todo \in Seq(Work) /\ dieNow \in BOOLEAN /\ SeeksFirst(todo)  BY DEF TypeOK, Ordered
  <1>2. /\ Head(todo) = todo[1] /\ todo[1] \in Work
        /\ HasTarget(Tail(todo)) => HasTarget(todo) /\ todo[1] \in Clears \cup {SeekFlag}
        /\ HasTarget(todo) /\ todo[1] # SeekTarget => HasTarget(Tail(todo))
        /\ FlushesFirst(todo) /\ todo[1].op # "buffFlush" => FlushesFirst(Tail(todo))
    BY <1>1, TailOrder
  <1>3. 1 \in 1 .. Len(todo)  BY <1>1
  <1>4. todo[1] = SeekTarget => HasTarget(todo)  BY <1>3 DEF HasTarget
  <1>5. ASSUME FlushesFirst(todo) PROVE todo[1] \in Clears \cup {SeekFlag}
    <2>1. PICK i \in 1 .. Len(todo) : todo[i] = SeekTarget /\ \E j \in 1 .. i - 1 : todo[j].op = "buffFlush"
      BY <1>5 DEF FlushesFirst
    <2>2. 1 \in 1 .. i - 1  BY <1>1, <2>1
    <2> QED  BY <1>1, <2>1, <2>2 DEF SeeksFirst
  <1> QED  BY <1>2, <1>4, <1>5

\* The queue is used by the buffered output only.
LEMMA QueueStep ==
  ASSUME TypeOK, QueueUsed, [Next]_vars
  PROVE  QueueUsed'
  <1> USE DEF QueueUsed, Buffered
  <1>1. CASE \/ \E c \in Commands : Give(c)
             \/ Called \/ OutputStep \/ BuffFlush \/ DieNow \/ ContainerSeek \/ ContainerLocked \/ ContainerPlay \/ ContainerStop
             \/ (\E t \in Types : Plays(t)) \/ UNCHANGED vars
    <2>1. output' = output /\ drain' = drain /\ (queue' = queue \/ queue' = <<>>)
      BY <1>1 DEF Give, Called, OutputStep, BuffFlush, DieNow, ContainerSeek, ContainerLocked, ContainerPlay, ContainerStop,
         Plays, vars, fifo
    <2>2. reader'.at = reader.at \/ reader'.at = "loop" \/ (output.buffered /\ reader'.at = "device")
      BY <1>1 DEF TypeOK, Give, Called, OutputStep, BuffFlush, DieNow, ContainerSeek, ContainerLocked, ContainerPlay, ContainerStop,
         Plays, vars
    <2> QED  BY <2>1, <2>2
  <1>2. CASE SetFlags
    <2>1. output' = output  BY <1>2 DEF SetFlags
    <2>2. CASE SeekBegins
      <3>1. reader'.at = reader.at /\ drain'.at = drain.at  BY <2>2 DEF SeekBegins, TypeOK
      <3>2. queue = <<>> => queue' = <<>>
        <4>1. queue' \in Seq(Packets) /\ Len(queue') = Len(queue)  BY <2>2, OldQueue DEF SeekBegins, TypeOK
        <4> QED  BY <4>1
      <3> QED  BY <2>1, <3>1, <3>2
    <2>3. CASE UNCHANGED <<oldOnes, left, reader, fifo>>  BY <2>1, <2>3 DEF fifo
    <2> QED  BY <1>2, <2>2, <2>3 DEF SetFlags
  <1>3. CASE Ffmpeg
    <2>1. output' = output /\ drain' = drain
      BY <1>3 DEF Ffmpeg, ReaderLoop, ReaderLock, ReaderRewind, ReaderSeek, ReaderSought, ReaderUnlock, ReaderRead,
        ReaderWrite, ReaderQueues, ReaderStarts, ReaderDelivers, ReaderWrote, ReaderEnds, ReaderCloses, ReaderKeeps, fifo
    <2>2. output.buffered \/ queue' = queue \/ queue' = <<>>
      BY <1>3 DEF Ffmpeg, ReaderLoop, ReaderLock, ReaderRewind, ReaderSeek, ReaderSought, ReaderUnlock, ReaderRead,
        ReaderWrite, ReaderQueues, ReaderStarts, ReaderDelivers, ReaderWrote, ReaderEnds, ReaderCloses, fifo
    <2>3. (reader'.at = "full" => output.buffered) /\ (reader'.at = "blocked" => ~output.buffered)
      BY <1>3 DEF TypeOK, Ffmpeg, ReaderLoop, ReaderLock, ReaderRewind, ReaderSeek, ReaderSought, ReaderUnlock, ReaderRead,
        ReaderWrite, ReaderQueues, ReaderStarts, ReaderDelivers, ReaderWrote, ReaderEnds, ReaderCloses, Reader, Wrote
    <2> QED  BY <2>1, <2>2, <2>3
  <1>4. CASE DrainTakes
    <2>1. output' = output /\ output.buffered  BY <1>4 DEF DrainTakes
    <2>2. reader'.at # "blocked"  BY <1>4, <2>1 DEF DrainTakes, TypeOK
    <2> QED  BY <2>1, <2>2
  <1>5. CASE DrainWrites
    <2>1. output' = output /\ reader' = reader /\ drain.at = "write" /\ queue' = queue  BY <1>5 DEF DrainWrites
    <2> QED  BY <2>1
  <1> QED  BY <1>1, <1>2, <1>3, <1>4, <1>5 DEF Next, AppStep

\* A target is on its way only while the reader can take it.
LEMMA TargetStep ==
  ASSUME TypeOK, Ordered, TargetCounts, [Next]_vars
  PROVE  TargetCounts'
  <1> SUFFICES ASSUME HasTarget(todo)' PROVE pb'["isPlaying"] \/ reader'.at \in {"close", "gone"}
    BY DEF TargetCounts
  <1>0. HasTarget(todo')  BY DEF HasTarget
  <1>1. ASSUME NEW c \in Commands, Give(c) PROVE FALSE
    <2>1. c \in PlainCalls  BY CommandsAssumption DEF PlainCalls
    <2>2. todo' \in Seq(Ending)  BY <1>1, <2>1, Pieces DEF Give
    <2> QED  BY <1>0, <2>2, EndingOrder
  <1>2. CASE Called
    <2>1. pb["isPlaying"]  BY <1>0, <1>2, CalledOrder
    <2> QED  BY <1>2, <2>1 DEF Called
  <1>3. ASSUME todo # <<>>, todo' = Tail(todo), pb'["isPlaying"] = pb["isPlaying"] \/ todo[1] \notin Clears \cup {SeekFlag},
               reader.at \in {"close", "gone"} => reader'.at \in {"close", "gone"}
        PROVE  pb'["isPlaying"] \/ reader'.at \in {"close", "gone"}
    <2>1. HasTarget(todo) /\ todo[1] \in Clears \cup {SeekFlag}  BY <1>0, <1>3, SeekHead
    <2> QED  BY <1>3, <2>1 DEF TargetCounts
  <1>4. CASE SetFlags
    <2>1. todo # <<>> /\ todo' = Tail(todo) /\ todo[1].op = "set" /\ Head(todo) = todo[1] /\ reader'.at = reader.at
      BY <1>4, SeekHead DEF SetFlags, Done, Next1, SeekBegins, TypeOK
    <2>2. todo[1] \notin Clears  BY <2>1 DEF Clears
    <2>3. todo[1] = SeekFlag => pb'["isPlaying"] = pb["isPlaying"]
      <3>1. pb["isPlaying"] \in BOOLEAN /\ "isPlaying" \in Flags  BY DEF TypeOK, Flags
      <3> QED  BY <1>4, <2>1, <3>1 DEF SetFlags, Next1, SeekFlag
    <2> QED  BY <1>3, <2>1, <2>2, <2>3
  <1>5. CASE OutputStep \/ BuffFlush \/ DieNow \/ ContainerSeek \/ ContainerLocked
    <2>1. todo # <<>> /\ todo' = Tail(todo) /\ pb' = pb
      BY <1>5 DEF OutputStep, BuffFlush, DieNow, ContainerSeek, ContainerLocked, Done
    <2>2. reader.at \in {"close", "gone"} => reader'.at = reader.at
      BY <1>5 DEF OutputStep, BuffFlush, DieNow, ContainerSeek, ContainerLocked
    <2> QED  BY <1>3, <2>1, <2>2
  <1>6. ASSUME ContainerPlay \/ ContainerStop PROVE FALSE
    <2>1. /\ todo # <<>> /\ todo' \in {Tail(todo), SubSeq(todo, 3, Len(todo))} /\ Head(todo) = todo[1]
          /\ todo[1] \in {Step("containerPlay", "none"), Step("containerStop", "none")}
          /\ todo' = Tail(todo) \/ todo[1] \in Stopping
      BY <1>6, SeekHead DEF ContainerPlay, ContainerStop, Done, Next1, Stopping
    <2>2. todo[1] \notin Clears \cup {SeekFlag}  BY <2>1 DEF Clears, SeekFlag, Step
    <2>3. ~HasTarget(Tail(todo))  BY <2>1, <2>2, SeekHead
    <2>4. CASE todo' = SubSeq(todo, 3, Len(todo))
      <3> DEFINE t == Tail(todo)
      <3>1. todo \in Seq(Work) /\ t \in Seq(Work) /\ Len(t) = Len(todo) - 1 /\ \A i \in 1 .. Len(t) : t[i] = todo[i + 1]
        BY <2>1 DEF TypeOK
      <3>2. \A i \in 1 .. Len(todo') : i + 1 \in 1 .. Len(t) /\ todo'[i] = t[i + 1]
        BY <2>4, <3>1
      <3> HIDE DEF t
      <3>3. HasTarget(t)  BY <1>0, <3>2 DEF HasTarget
      <3> QED  BY <2>3, <3>3 DEF t
    <2> QED  BY <1>0, <2>1, <2>3, <2>4
  <1>7. CASE Ffmpeg
    <2>1. todo' = todo
      BY <1>7 DEF Ffmpeg, ReaderLoop, ReaderLock, ReaderRewind, ReaderSeek, ReaderSought, ReaderUnlock, ReaderRead,
        ReaderWrite, ReaderQueues, ReaderStarts, ReaderDelivers, ReaderWrote, ReaderEnds, ReaderCloses, ReaderKeeps, app
    <2>2. \/ pb' = pb /\ (reader.at \in {"close", "gone"} => reader'.at \in {"close", "gone"})
          \/ reader'.at = "close"
      BY <1>7 DEF TypeOK, Ffmpeg, ReaderLoop, ReaderLock, ReaderRewind, ReaderSeek, ReaderSought, ReaderUnlock, ReaderRead,
        ReaderWrite, ReaderQueues, ReaderStarts, ReaderDelivers, ReaderWrote, ReaderEnds, ReaderCloses, Reader, Wrote
    <2>3. HasTarget(todo)  BY <1>0, <2>1
    <2> QED  BY <2>2, <2>3 DEF TargetCounts
  <1>8. CASE DrainTakes \/ DrainWrites \/ (\E t \in Types : Plays(t)) \/ UNCHANGED vars
    <2>1. todo' = todo /\ pb' = pb  BY <1>8 DEF DrainTakes, DrainWrites, Plays, vars, app
    <2>2. reader.at \in {"close", "gone"} => reader'.at = reader.at
      BY <1>8 DEF DrainTakes, DrainWrites, Plays, vars
    <2>3. HasTarget(todo)  BY <1>0, <2>1
    <2> QED  BY <2>1, <2>2, <2>3 DEF TargetCounts
  <1> QED
    BY <1>1, <1>2, <1>4, <1>5, <1>6, <1>7, <1>8 DEF Next, AppStep

\* Only a seek begins one.
LEMMA FlagsStep ==
  ASSUME TypeOK, Ordered, SetFlags
  PROVE  /\ todo # <<>> /\ todo' = Tail(todo) /\ output' = output /\ seekTo' = seekTo /\ overtaken' = overtaken
         /\ reader'.at = reader.at
         /\ todo[1] \notin Clears /\ todo[1] # SeekTarget /\ todo[1].op = "set"
         /\ todo[1] = SeekFlag => pb'["isSeeking"]
         /\ UNCHANGED <<oldOnes, left, reader, fifo>> \/ (SeekBegins /\ todo[1] = SeekFlag)
  <1>1. todo # <<>> /\ Head(todo) = todo[1] /\ todo[1] \in Work  BY SeekHead DEF SetFlags
  <1>2. todo[1].op = "set"  BY <1>1 DEF SetFlags, Next1
  <1>3. todo[1] \notin Clears /\ todo[1] # SeekTarget  BY <1>2 DEF Clears, SeekTarget, Step
  <1>4. todo' = Tail(todo) /\ output' = output /\ seekTo' = seekTo /\ overtaken' = overtaken /\ reader'.at = reader.at
    BY DEF SetFlags, Done, SeekBegins, TypeOK
  <1>5. ASSUME todo[1] = SeekFlag PROVE pb'["isSeeking"]
    <2>1. "isSeeking" \in Flags  BY DEF Flags
    <2>2. "isSeeking" \in Next1.on  BY <1>1, <1>5 DEF Next1, SeekFlag
    <2>3. pb'["isSeeking"] = ("isSeeking" \in Next1.on \/ (pb["isSeeking"] /\ "isSeeking" \notin Next1.off))
      BY <2>1 DEF SetFlags
    <2> QED  BY <2>2, <2>3
  <1>6. UNCHANGED <<oldOnes, left, reader, fifo>> \/ (SeekBegins /\ todo[1] = SeekFlag)
    <2>1. CASE todo[1] = SeekFlag  BY <2>1 DEF SetFlags
    <2>2. CASE todo[1] # SeekFlag
      <3>1. todo[1] \in PlainSets
        BY <1>1, <1>2, <2>2 DEF Work, Ending, Plain, Quiets, PlainSteps, OwnSteps, PlainOps, OwnOps, Stopping, Starting, SeekTarget, Step
      <3>2. ~(pb'.isSeeking /\ ~pb'.BackWard /\ ~pb.isSeeking)
        BY <1>1, <3>1 DEF SetFlags, Next1, PlainSets, Flags
      <3> QED  BY <3>2 DEF SetFlags
    <2> QED  BY <2>1, <2>2
  <1> QED  BY <1>1, <1>2, <1>3, <1>4, <1>5, <1>6

\* As long as old data is read the seek is on its way.
LEMMA ComingStep ==
  ASSUME TypeOK, Ordered, TargetCounts, SeekIsComing, [Next]_vars, ~overtaken'
  PROVE  SeekIsComing'
  <1> SUFFICES ASSUME left'
               PROVE  \/ pb'["isSeeking"] /\ HasTarget(todo')
                      \/ seekTo' /\ reader'.at # "seeking"
                      \/ reader'.at \in {"close", "gone"}
    BY DEF SeekIsComing, HasTarget
  <1>1. ASSUME NEW c \in Commands, Give(c)
        PROVE  (seekTo' /\ reader'.at # "seeking") \/ reader'.at \in {"close", "gone"}
    <2>1. todo = <<>> /\ left' = left /\ seekTo' = seekTo /\ reader' = reader  BY <1>1 DEF Give
    <2>2. ~HasTarget(todo)  BY <2>1 DEF HasTarget
    <2> QED  BY <2>1, <2>2 DEF SeekIsComing
  <1>2. CASE Called
    <2>1. todo # <<>> /\ todo[1].op = "call" /\ left' = left /\ seekTo' = seekTo /\ reader' = reader /\ todo[1] \in Work
      BY <1>2, SeekHead DEF Called, Next1
    <2>2. ~HasTarget(todo)  BY <2>1, SeekHead, Kinds
    <2> QED  BY <2>1, <2>2 DEF SeekIsComing
  <1>3. CASE SetFlags
    <2>1. CASE todo[1] = SeekFlag
      <3>1. todo[1] # SeekTarget /\ todo # <<>> /\ todo' = Tail(todo) /\ pb'["isSeeking"]  BY <1>3, <2>1, FlagsStep
      <3>2. HasTarget(todo)  BY <2>1, <3>1, SeekHead DEF Ordered, SeekIsWhole
      <3> QED  BY <3>1, <3>2, SeekHead
    <2>2. CASE todo[1] # SeekFlag
      <3>1. todo # <<>> /\ todo[1] \notin Clears \cup {SeekFlag, SeekTarget} /\ left' = left /\ seekTo' = seekTo /\ reader'.at = reader.at
        BY <1>3, <2>2, FlagsStep
      <3>2. ~HasTarget(todo)  BY <3>1, SeekHead
      <3> QED  BY <3>1, <3>2 DEF SeekIsComing
    <2> QED  BY <2>1, <2>2
  <1>4. CASE OutputStep \/ BuffFlush \/ DieNow \/ ContainerLocked
    <2>1. todo # <<>> /\ todo' = Tail(todo) /\ pb' = pb /\ left' = left /\ seekTo' = seekTo
      BY <1>4 DEF OutputStep, BuffFlush, DieNow, ContainerLocked, Done
    <2>2. reader'.at = reader.at \/ (reader'.at = "device" /\ reader.at = "full")
      BY <1>4 DEF OutputStep, BuffFlush, DieNow, ContainerLocked, TypeOK
    <2>3. todo[1] # SeekTarget
      <3>1. Head(todo) = todo[1]  BY <2>1, SeekHead
      <3>2. \/ Head(todo).type # "none" \/ Head(todo).op = "buffFlush" \/ Head(todo) = Step("dieNow", "none")
            \/ Head(todo) \in {Step("containerSwitch", "none"), Step("containerClose", "none")}
        BY <1>4 DEF OutputStep, BuffFlush, DieNow, ContainerLocked, Next1
      <3> QED  BY <3>1, <3>2 DEF SeekTarget, Step
    <2>4. HasTarget(todo) => HasTarget(todo')  BY <2>1, <2>3, SeekHead
    <2> QED  BY <2>1, <2>2, <2>4 DEF SeekIsComing
  <1>5. CASE ContainerSeek
    <2>1. todo # <<>> /\ Head(todo) = SeekTarget /\ seekTo' = (seekTo \/ pb["isPlaying"]) /\ reader' = reader
          /\ reader.at # "seeking"
      BY <1>5 DEF ContainerSeek, Next1, SeekTarget
    <2>2. HasTarget(todo)  BY <2>1, SeekHead
    <2>3. pb["isPlaying"] \/ reader.at \in {"close", "gone"}  BY <2>2 DEF TargetCounts
    <2> QED  BY <2>1, <2>3
  <1>6. CASE ContainerPlay \/ ContainerStop
    <2>1. /\ todo # <<>> /\ Head(todo) = todo[1] /\ left' = left /\ seekTo' = seekTo
          /\ todo[1] \in {Step("containerPlay", "none"), Step("containerStop", "none")}
          /\ \/ reader' = reader
             \/ todo[1] = Step("containerPlay", "none") /\ reader'.at = "loop"
      BY <1>6, SeekHead DEF ContainerPlay, ContainerStop, Next1, TypeOK
    <2>2. todo[1] \notin Clears \cup {SeekFlag, SeekTarget}  BY <2>1 DEF Clears, SeekFlag, SeekTarget, Step
    <2>3. ~HasTarget(todo)  BY <2>1, <2>2, SeekHead
    <2>4. todo[1] = Step("containerPlay", "none") => ~left
      <3>1. 1 \in 1 .. Len(todo)  BY <2>1 DEF TypeOK
      <3> QED  BY <3>1 DEF Ordered, HasStart, Starting
    <2> QED  BY <2>1, <2>3, <2>4 DEF SeekIsComing
  <1>7. CASE Ffmpeg
    <2>1. todo' = todo
      BY <1>7 DEF Ffmpeg, ReaderLoop, ReaderLock, ReaderRewind, ReaderSeek, ReaderSought, ReaderUnlock, ReaderRead,
        ReaderWrite, ReaderQueues, ReaderStarts, ReaderDelivers, ReaderWrote, ReaderEnds, ReaderCloses, ReaderKeeps, app
    <2>2. pb'["isSeeking"] = pb["isSeeking"]
      <3>1. pb' = pb \/ pb' = [pb EXCEPT !["isPlaying"] = FALSE]
        BY <1>7 DEF Ffmpeg, ReaderLoop, ReaderLock, ReaderRewind, ReaderSeek, ReaderSought, ReaderUnlock, ReaderRead,
          ReaderWrite, ReaderQueues, ReaderStarts, ReaderDelivers, ReaderWrote, ReaderEnds, ReaderCloses
      <3> QED  BY <3>1 DEF TypeOK, Flags
    <2>3. left /\ (seekTo' = seekTo \/ seekTo' = TRUE \/ reader.at = "seeking")
      BY <1>7 DEF Ffmpeg, ReaderLoop, ReaderLock, ReaderRewind, ReaderSeek, ReaderSought, ReaderUnlock, ReaderRead,
        ReaderWrite, ReaderQueues, ReaderStarts, ReaderDelivers, ReaderWrote, ReaderEnds, ReaderCloses
    <2>4. reader'.at # "seeking"
      <3>1. \A a \in ReaderAts : Reader(a) => reader'.at = a  BY DEF Reader, TypeOK
      <3>2. CASE ReaderSeek
        <4>1. Reader("sought")  BY <3>2 DEF ReaderSeek
        <4> QED  BY <3>1, <4>1 DEF ReaderAts
      <3>3. CASE ReaderLoop
        <4>1. Reader("lock") \/ Reader("end")  BY <3>3 DEF ReaderLoop
        <4> QED  BY <3>1, <4>1 DEF ReaderAts
      <3>4. CASE ReaderRead
        <4>1. reader'.at = "write" \/ Reader("loop") \/ Reader("end")  BY <3>4 DEF ReaderRead
        <4> QED  BY <3>1, <4>1 DEF ReaderAts
      <3>5. CASE ReaderLock \/ ReaderRewind
        <4>1. Reader("loop") \/ Reader("rewind") \/ Reader("seek")  BY <3>5 DEF ReaderLock, ReaderRewind
        <4> QED  BY <3>1, <4>1 DEF ReaderAts
      <3>6. CASE ReaderQueues \/ ReaderStarts \/ ReaderDelivers
        <4>1. Wrote \/ Reader("full") \/ Reader("blocked")
          <5>1. ReaderDelivers => Wrote  BY DEF ReaderDelivers
          <5>2. ReaderQueues => Wrote \/ Reader("full")  BY DEF ReaderQueues
          <5>3. ReaderStarts => Wrote \/ Reader("blocked")  BY DEF ReaderStarts
          <5> QED  BY <3>6, <5>1, <5>2, <5>3
        <4>2. Wrote => reader'.at = "wrote"  BY DEF Wrote
        <4> QED  BY <3>1, <4>1, <4>2 DEF ReaderAts
      <3>7. CASE ReaderSought \/ ReaderUnlock \/ ReaderWrite \/ ReaderWrote \/ ReaderEnds \/ ReaderCloses
        <4>1. Reader("sought") \/ Reader("read") \/ Reader("device") \/ Reader("loop") \/ Reader("close") \/ Reader("gone")
          BY <3>7 DEF ReaderSought, ReaderUnlock, ReaderWrite, ReaderWrote, ReaderEnds, ReaderCloses
        <4> QED  BY <3>1, <4>1 DEF ReaderAts
      <3> QED  BY <1>7, <3>2, <3>3, <3>4, <3>5, <3>6, <3>7 DEF Ffmpeg
    <2>5. reader.at \in {"close", "gone"} => reader'.at \in {"close", "gone"}
      BY <1>7 DEF TypeOK, Ffmpeg, ReaderLoop, ReaderLock, ReaderRewind, ReaderSeek, ReaderSought, ReaderUnlock, ReaderRead,
        ReaderWrite, ReaderQueues, ReaderStarts, ReaderDelivers, ReaderWrote, ReaderEnds, ReaderCloses, Reader, Wrote
    <2> QED  BY <2>1, <2>2, <2>3, <2>4, <2>5 DEF SeekIsComing
  <1>8. CASE DrainTakes \/ DrainWrites \/ (\E t \in Types : Plays(t)) \/ UNCHANGED vars
    <2>1. todo' = todo /\ pb' = pb /\ left' = left /\ seekTo' = seekTo  BY <1>8 DEF DrainTakes, DrainWrites, Plays, vars, app
    <2>2. reader'.at = reader.at \/ (reader'.at = "device" /\ reader.at = "full")
      BY <1>8 DEF DrainTakes, DrainWrites, Plays, vars, TypeOK
    <2> QED  BY <2>1, <2>2 DEF SeekIsComing
  <1> QED
    BY <1>1, <1>2, <1>3, <1>4, <1>5, <1>6, <1>7, <1>8 DEF Next, AppStep

-----------------------------------------------------------------------------
(* What is old is counted, wherever it waits.                              *)

\* What adds nothing old keeps the count.
LEMMA CountKept ==
  ASSUME TypeOK, Counted, output' = output, oldOnes' = oldOnes, DrainsOld' => DrainsOld,
         (HasOld \/ ReadsOld)' => HasOld \/ ReadsOld, queue' = queue \/ queue' = <<>>
  PROVE  Counted'
  <1>1. QueuedOld' => QueuedOld  BY DEF QueuedOld
  <1>2. OneToCome'
    <2>1. CASE queue' = queue  BY <1>1, <2>1 DEF Counted, OneToCome
    <2>2. CASE queue' = <<>>  BY <2>2 DEF OneToCome, QueuedOld
    <2> QED  BY <2>1, <2>2
  <1>3. Ahead' => Ahead  BY <1>1 DEF Ahead
  <1>4. Limit' = Limit  BY DEF Limit, Buffered
  <1> QED  BY <1>2, <1>3, <1>4 DEF Counted

\* The seek has not emptied the queue yet, and nothing gets out of it.
LEMMA FlushKept ==
  ASSUME Flushing, output' = output, oldOnes' = oldOnes, pb'["isSeeking"], FlushesFirst(todo')
  PROVE  Flushing'
  BY DEF Flushing, Buffered, FlushesFirst

\* A step of the reader that hands nothing on.
LEMMA ReaderKeepsCount ==
  ASSUME TypeOK, SeekIsComing, QueueUsed, Counted, Ffmpeg, ~ReaderQueues, ~ReaderDelivers
  PROVE  Counted'
  <1>1. output' = output /\ drain' = drain /\ (queue' = queue \/ queue' = <<>>) /\ oldOnes' = oldOnes
    BY DEF Ffmpeg, ReaderLoop, ReaderLock, ReaderRewind, ReaderSeek, ReaderSought, ReaderUnlock, ReaderRead,
      ReaderWrite, ReaderStarts, ReaderWrote, ReaderEnds, ReaderCloses, ReaderKeeps, fifo
  <1>2. DrainsOld' => DrainsOld  BY <1>1 DEF DrainsOld
  <1>3. (HasOld \/ ReadsOld)' => HasOld \/ ReadsOld
    <2> USE DEF HasOld, ReadsOld, TypeOK, Reader
    <2>1. CASE ReaderLoop
      <3>1. left /\ pb.isPlaying => seekTo  BY <2>1 DEF ReaderLoop, SeekIsComing
      <3> QED  BY <2>1, <3>1 DEF ReaderLoop
    <2>2. CASE ReaderLock  BY <2>2 DEF ReaderLock
    <2>3. CASE ReaderRewind  BY <2>3 DEF ReaderRewind
    <2>4. CASE ReaderSeek  BY <2>4 DEF ReaderSeek
    <2>5. CASE ReaderSought  BY <2>5 DEF ReaderSought
    <2>6. CASE ReaderUnlock  BY <2>6 DEF ReaderUnlock
    <2>7. CASE ReaderRead  BY <2>7 DEF ReaderRead, Packet
    <2>8. CASE ReaderWrite  BY <2>8 DEF ReaderWrite
    <2>9. CASE ReaderStarts
      <3>1. reader.at = "device" /\ left' = left /\ (Wrote \/ Reader("blocked"))  BY <2>9 DEF ReaderStarts
      <3>2. CASE Wrote  BY <3>1, <3>2 DEF Wrote
      <3>3. CASE Reader("blocked")  BY <3>1, <3>3
      <3> QED  BY <3>1, <3>2, <3>3
    <2>10. CASE ReaderWrote \/ ReaderEnds \/ ReaderCloses  BY <2>10 DEF ReaderWrote, ReaderEnds, ReaderCloses
    <2> QED  BY <2>1, <2>2, <2>3, <2>4, <2>5, <2>6, <2>7, <2>8, <2>9, <2>10 DEF Ffmpeg
  <1> QED  BY <1>1, <1>2, <1>3, CountKept

\* The packet in hand goes into the queue.
LEMMA QueuesCounted ==
  ASSUME TypeOK, Counted, ReaderQueues
  PROVE  Counted'
  <1>1. output' = output /\ drain' = drain /\ oldOnes' = oldOnes  BY DEF ReaderQueues, ReaderKeeps
  <1>2. DrainsOld' => DrainsOld  BY <1>1 DEF DrainsOld
  <1>3. CASE queue' = queue
    <2>1. (HasOld \/ ReadsOld)' => HasOld \/ ReadsOld
      BY DEF ReaderQueues, Wrote, Reader, HasOld, ReadsOld, TypeOK
    <2> QED  BY <1>1, <1>2, <1>3, <2>1, CountKept
  <1>4. CASE Wrote /\ queue' = Append(queue, reader.packet)
    <2> DEFINE q == Append(queue, reader.packet)  n == Len(queue)
    <2>1. reader.at = "device" /\ reader.packet \in Packets /\ queue \in Seq(Packets) /\ n \in Nat  BY DEF ReaderQueues, TypeOK
    <2>2. Len(q) = n + 1 /\ q[n + 1] = reader.packet /\ \A i \in 1 .. n : q[i] = queue[i]  BY <2>1
    <2>3. \A i \in 1 .. n + 1 : i \in 1 .. n \/ i = n + 1  BY <2>1
    <2> HIDE DEF q
    <2>4. queue' = q  BY <1>4 DEF q
    <2>5. ~HasOld' /\ ~ReadsOld'  BY <1>4 DEF Wrote, HasOld, ReadsOld
    <2>6. reader.packet.old => HasOld  BY <2>1 DEF HasOld
    <2>7. QueuedOld' => HasOld \/ QueuedOld
      <3>1. ASSUME NEW i \in 1 .. Len(q), q[i].old PROVE HasOld \/ QueuedOld
        BY <2>2, <2>3, <2>6, <3>1 DEF QueuedOld
      <3> QED  BY <2>4, <3>1 DEF QueuedOld
    <2>8. OneToCome'
      <3>1. ASSUME NEW i \in 1 .. Len(q), NEW j \in 1 .. Len(q), q[i].old, q[j].old PROVE i = j
        <4>1. CASE HasOld
          <5>1. \A k \in 1 .. n : ~queue[k].old  BY <4>1 DEF Counted, OneToCome, QueuedOld
          <5> QED  BY <2>2, <2>3, <3>1, <5>1
        <4>2. CASE ~HasOld
          <5>1. i \in 1 .. n /\ j \in 1 .. n  BY <2>2, <2>3, <2>6, <3>1, <4>2
          <5> QED  BY <2>2, <3>1, <5>1 DEF Counted, OneToCome
        <4> QED  BY <4>1, <4>2
      <3> QED  BY <2>4, <2>5, <3>1 DEF OneToCome
    <2>9. (Ahead' => Ahead) /\ Limit' = Limit  BY <1>1, <2>5, <2>7 DEF Ahead, Limit, Buffered
    <2> QED  BY <1>1, <1>2, <2>8, <2>9 DEF Counted
  <1> QED  BY <1>3, <1>4 DEF ReaderQueues

\* The packet in hand goes to the decoder.
LEMMA DeliversCounted ==
  ASSUME TypeOK, QueueUsed, Counted, ReaderDelivers
  PROVE  Counted'
  <1>1. output' = output /\ drain' = drain /\ queue' = queue /\ reader.at = "blocked"
    BY DEF ReaderDelivers, ReaderKeeps, fifo
  <1>2. ~HasOld' /\ ~ReadsOld'  BY DEF ReaderDelivers, Wrote, HasOld, ReadsOld
  <1>3. reader.packet.old => HasOld  BY <1>1 DEF HasOld
  <1>4. oldOnes' = oldOnes \/ (reader.packet.old /\ oldOnes' = oldOnes + 1)  BY DEF ReaderDelivers, Counts
  <1>5. (DrainsOld' => DrainsOld) /\ (QueuedOld' => QueuedOld)  BY <1>1 DEF DrainsOld, QueuedOld
  <1>6. OneToCome'  BY <1>1, <1>2 DEF Counted, OneToCome
  <1>7. HasOld => ~Ahead' /\ Ahead  BY <1>2, <1>5 DEF Ahead, Counted, OneToCome
  <1>8. (Ahead' => Ahead) /\ Limit' = Limit /\ Limit \in Nat /\ oldOnes \in Nat
    BY <1>1, <1>2, <1>5 DEF Ahead, Limit, Buffered, TypeOK
  <1>9. CASE oldOnes' = oldOnes  BY <1>5, <1>6, <1>8, <1>9 DEF Counted
  <1>10. CASE reader.packet.old /\ oldOnes' = oldOnes + 1  BY <1>3, <1>5, <1>6, <1>7, <1>8, <1>10 DEF Counted
  <1> QED  BY <1>4, <1>9, <1>10

\* The thread of the queue takes a packet.
LEMMA TakesCounted ==
  ASSUME TypeOK, Counted, DrainTakes
  PROVE  Counted'
  <1>1. output' = output /\ oldOnes' = oldOnes /\ left' = left /\ seekTo' = seekTo /\ drain.at # "write"
    BY DEF DrainTakes, hist
  <1>2. (HasOld \/ ReadsOld)' => HasOld \/ ReadsOld
    BY <1>1 DEF DrainTakes, HasOld, ReadsOld, TypeOK
  <1>3. ~DrainsOld  BY <1>1 DEF DrainsOld
  <1>4. CASE queue = <<>>
    <2>1. queue' = queue /\ ~DrainsOld'  BY <1>4 DEF DrainTakes, DrainsOld
    <2> QED  BY <1>1, <1>2, <2>1, CountKept
  <1>5. CASE queue # <<>>
    <2> DEFINE q == Tail(queue)  n == Len(queue)
    <2>1. queue \in Seq(Packets) /\ n \in Nat /\ n >= 1  BY <1>5 DEF TypeOK
    <2>2. Len(q) = n - 1 /\ Head(queue) = queue[1] /\ \A i \in 1 .. Len(q) : q[i] = queue[i + 1] /\ i + 1 \in 1 .. n
      BY <1>5, <2>1
    <2> HIDE DEF q
    <2>3. queue' = q /\ drain'.at = "write" /\ drain'.packet = queue[1]  BY <1>5, <2>2 DEF DrainTakes, q
    <2>4. \A i, j \in 1 .. n : queue[i].old /\ queue[j].old => i = j  BY DEF Counted, OneToCome
    <2>5. 1 \in 1 .. n  BY <2>1
    <2>6. QueuedOld' => QueuedOld  BY <2>2, <2>3 DEF QueuedOld
    <2>7. DrainsOld' => QueuedOld /\ ~QueuedOld' /\ ~HasOld /\ ~ReadsOld
      <3> SUFFICES ASSUME DrainsOld' PROVE QueuedOld /\ ~QueuedOld' /\ ~HasOld /\ ~ReadsOld
        OBVIOUS
      <3>1. queue[1].old  BY <2>3 DEF DrainsOld
      <3>2. QueuedOld  BY <2>5, <3>1 DEF QueuedOld
      <3>3. \A i \in 1 .. Len(q) : ~q[i].old
        <4> SUFFICES ASSUME NEW i \in 1 .. Len(q), q[i].old PROVE FALSE
          OBVIOUS
        <4>1. queue[i + 1].old /\ i + 1 \in 1 .. n  BY <2>2
        <4>2. i + 1 = 1  BY <2>4, <2>5, <3>1, <4>1
        <4> QED  BY <2>1, <4>2
      <3> QED  BY <2>3, <3>2, <3>3 DEF QueuedOld, Counted, OneToCome
    <2>8. OneToCome'
      <3>1. \A i, j \in 1 .. Len(q) : q[i].old /\ q[j].old => i = j
        <4> SUFFICES ASSUME NEW i \in 1 .. Len(q), NEW j \in 1 .. Len(q), q[i].old, q[j].old PROVE i = j
          OBVIOUS
        <4>1. i + 1 = j + 1  BY <2>2, <2>4
        <4> QED  BY <4>1
      <3> QED  BY <1>2, <2>3, <2>6, <3>1 DEF Counted, OneToCome
    <2>9. (Ahead' => Ahead) /\ (DrainsOld' => Ahead /\ ~Ahead')  BY <1>2, <2>6, <2>7 DEF Ahead
    <2>10. Limit' = Limit  BY <1>1 DEF Limit, Buffered
    <2> QED  BY <1>1, <2>8, <2>9, <2>10 DEF Counted
  <1> QED  BY <1>4, <1>5

\* The thread of the queue gives the packet to the decoder, or gives up.
LEMMA WritesCounted ==
  ASSUME TypeOK, Counted, DrainWrites
  PROVE  Counted'
  <1>1. output' = output /\ left' = left /\ seekTo' = seekTo /\ reader' = reader /\ queue' = queue /\ drain.at = "write"
        /\ drain'.at = "written"
    BY DEF DrainWrites
  <1>2. ~DrainsOld' /\ (drain.packet.old => DrainsOld)  BY <1>1 DEF DrainsOld
  <1>3. oldOnes' = oldOnes \/ (drain.packet.old /\ oldOnes' = oldOnes + 1)  BY DEF DrainWrites, Counts
  <1>4. OneToCome'  BY <1>1 DEF Counted, OneToCome, HasOld, ReadsOld, QueuedOld
  <1>5. (Ahead' <=> Ahead) /\ Limit' = Limit /\ Limit \in Nat /\ oldOnes \in Nat
    BY <1>1 DEF Ahead, HasOld, ReadsOld, QueuedOld, Limit, Buffered, TypeOK
  <1>6. CASE oldOnes' = oldOnes  BY <1>2, <1>4, <1>5, <1>6 DEF Counted
  <1>7. CASE drain.packet.old /\ oldOnes' = oldOnes + 1  BY <1>2, <1>4, <1>5, <1>7 DEF Counted
  <1> QED  BY <1>3, <1>6, <1>7

\* A step that only moves on what was counted before.
LEMMA MovesOn ==
  ASSUME TypeOK, output' = output, oldOnes' = oldOnes, drain' = drain, queue' = queue \/ queue' = <<>>,
         left' = left, seekTo => seekTo',
         \/ reader' = reader
         \/ reader'.at = "loop"
         \/ reader.at = "full" /\ reader' = [reader EXCEPT !.at = "device"]
  PROVE  Counted => Counted'
  <1>1. DrainsOld' => DrainsOld  BY DEF DrainsOld
  <1>2. (HasOld \/ ReadsOld)' => HasOld \/ ReadsOld
    <2>1. CASE reader' = reader  BY <2>1 DEF HasOld, ReadsOld
    <2>2. CASE reader'.at = "loop"  BY <2>2 DEF HasOld, ReadsOld
    <2>3. CASE reader.at = "full" /\ reader' = [reader EXCEPT !.at = "device"]
      <3>1. reader'.at = "device" /\ reader'.packet = reader.packet  BY <2>3 DEF TypeOK
      <3> QED  BY <2>3, <3>1 DEF HasOld, ReadsOld
    <2> QED  BY <2>1, <2>2, <2>3
  <1> QED  BY <1>1, <1>2, CountKept

\* A step of the command that leaves the queue as it is.
LEMMA FlushesOn ==
  ASSUME TypeOK, Ordered, Flushing, todo # <<>>, todo' = Tail(todo), todo[1].op # "buffFlush",
         output' = output, oldOnes' = oldOnes, pb'["isSeeking"]
  PROVE  Flushing'
  <1>1. FlushesFirst(todo)  BY DEF Flushing
  <1>2. FlushesFirst(Tail(todo))  BY <1>1, SeekHead
  <1> QED  BY <1>2, FlushKept

\* The count, or the seek that begins it.
LEMMA CountStep ==
  ASSUME TypeOK, Ordered, QueueUsed, SeekIsComing, Flushing \/ Counted, [Next]_vars
  PROVE  Flushing' \/ Counted'
  <1>1. Flushing => /\ todo # <<>> /\ Buffered /\ pb["isSeeking"] /\ oldOnes = 0
                    /\ todo[1] \in Clears \cup {SeekFlag}
    <2>1. FlushesFirst(todo) => todo # <<>>
      <3>1. todo = <<>> => Len(todo) = 0  OBVIOUS
      <3>2. Len(todo) = 0 => 1 .. Len(todo) = {}  OBVIOUS
      <3> QED  BY <3>1, <3>2 DEF FlushesFirst
    <2>2. Flushing => FlushesFirst(todo) /\ Buffered /\ pb["isSeeking"] /\ oldOnes = 0  BY DEF Flushing
    <2>3. todo # <<>> /\ FlushesFirst(todo) => todo[1] \in Clears \cup {SeekFlag}  BY SeekHead
    <2> QED  BY <2>1, <2>2, <2>3
  <1>2. todo # <<>> => Next1 = todo[1]  BY SeekHead DEF Next1
  <1>3. ASSUME NEW c \in Commands, Give(c) PROVE Counted'
    <2>1. Counted  BY <1>1, <1>3 DEF Give
    <2> QED  BY <1>3, <2>1, MovesOn DEF Give, fifo, hist
  <1>4. CASE Called
    <2>1. Counted
      <3>1. todo[1].op = "call"  BY <1>2, <1>4 DEF Called
      <3> QED  BY <1>1, <3>1 DEF Clears, SeekFlag
    <2> QED  BY <1>4, <2>1, MovesOn DEF Called, fifo, hist
  <1>5. CASE SetFlags
    <2>1. CASE UNCHANGED <<oldOnes, left, reader, fifo>>
      <3>1. Flushing => Flushing'
        <4> SUFFICES ASSUME Flushing PROVE Flushing'
          OBVIOUS
        <4>1. todo[1] = SeekFlag  BY <1>1, <1>5, FlagsStep
        <4>2. pb'["isSeeking"] /\ todo[1].op # "buffFlush"  BY <1>5, <4>1, FlagsStep DEF SeekFlag
        <4> QED  BY <1>5, <2>1, <4>2, FlagsStep, FlushesOn
      <3>2. Counted => Counted'  BY <1>5, <2>1, FlagsStep, MovesOn DEF fifo
      <3> QED  BY <3>1, <3>2
    <2>2. CASE SeekBegins /\ todo[1] = SeekFlag
      <3>1. oldOnes' = 0 /\ output' = output /\ todo' = Tail(todo) /\ todo # <<>> /\ pb'["isSeeking"]
        BY <1>5, <2>2, FlagsStep DEF SeekBegins
      <3>2. CASE Buffered
        <4>1. FlushesFirst(todo)  BY <2>2, <3>1, <3>2 DEF Ordered, SeekIsWhole
        <4>2. FlushesFirst(todo')  BY <2>2, <3>1, <4>1, SeekHead DEF SeekFlag
        <4>3. Buffered'  BY <3>1, <3>2 DEF Buffered
        <4>4. FlushesFirst(todo)'  BY <4>2 DEF FlushesFirst
        <4> QED  BY <3>1, <4>3, <4>4 DEF Flushing
      <3>3. CASE ~Buffered
        <4>1. queue = <<>> /\ drain.at = "none"  BY <3>3 DEF QueueUsed
        <4>2. queue' = <<>>
          <5>1. queue' \in Seq(Packets) /\ Len(queue') = Len(queue)  BY <2>2, OldQueue DEF SeekBegins, TypeOK
          <5> QED  BY <4>1, <5>1
        <4>3. drain'.at = "none"  BY <2>2, <4>1 DEF SeekBegins, TypeOK
        <4>4. ~QueuedOld' /\ ~DrainsOld' /\ OneToCome'
          BY <4>2, <4>3 DEF QueuedOld, DrainsOld, OneToCome
        <4>5. Limit' = 1  BY <3>1, <3>3 DEF Limit, Buffered
        <4> QED  BY <3>1, <4>4, <4>5 DEF Counted
      <3> QED  BY <3>2, <3>3
    <2> QED  BY <1>5, <2>1, <2>2, FlagsStep
  <1>6. CASE OutputStep \/ DieNow \/ ContainerLocked
    <2>1. /\ todo # <<>> /\ todo' = Tail(todo) /\ todo[1].op # "buffFlush"
          /\ UNCHANGED <<output, oldOnes, pb, drain, queue, left, seekTo, reader>>
      <3>1. CASE OutputStep  BY <1>2, <3>1 DEF OutputStep, Done, fifo
      <3>2. CASE DieNow  BY <1>2, <3>2 DEF DieNow, Done, fifo, hist, Step
      <3>3. CASE ContainerLocked  BY <1>2, <3>3 DEF ContainerLocked, Done, fifo, hist, Step
      <3> QED  BY <1>6, <3>1, <3>2, <3>3
    <2>2. Flushing => Flushing'  BY <1>1, <2>1, FlushesOn
    <2>3. Counted => Counted'  BY <2>1, MovesOn
    <2> QED  BY <2>2, <2>3
  <1>7. CASE BuffFlush
    <2>1. /\ output' = output /\ oldOnes' = oldOnes /\ queue' = <<>> /\ drain' = drain /\ left' = left /\ seekTo' = seekTo
          /\ reader' = reader \/ (reader.at = "full" /\ reader' = [reader EXCEPT !.at = "device"])
      BY <1>7 DEF BuffFlush, hist
    <2>2. CASE Flushing
      <3>1. oldOnes' = 0 /\ Limit' = 2  BY <1>1, <2>1, <2>2 DEF Limit, Buffered
      <3>2. OneToCome'  BY <2>1 DEF OneToCome, QueuedOld
      <3> QED  BY <3>1, <3>2 DEF Counted
    <2>3. CASE Counted  BY <2>1, <2>3, MovesOn
    <2> QED  BY <2>2, <2>3
  <1>8. CASE ContainerSeek \/ ContainerPlay \/ ContainerStop
    <2>1. /\ todo # <<>>
          /\ todo[1] \in {Step("containerSeek", "none"), Step("containerPlay", "none"), Step("containerStop", "none")}
      BY <1>2, <1>8 DEF ContainerSeek, ContainerPlay, ContainerStop
    <2>2. Counted  BY <1>1, <2>1 DEF Clears, SeekFlag, Step
    <2>3. /\ UNCHANGED <<output, oldOnes, drain, queue, left>> /\ (seekTo => seekTo')
          /\ reader' = reader \/ reader'.at = "loop"
      BY <1>8 DEF ContainerSeek, ContainerPlay, ContainerStop, fifo, hist, TypeOK
    <2> QED  BY <2>2, <2>3, MovesOn
  <1>9. CASE Ffmpeg
    <2>1. CASE Flushing
      <3>1. reader.at # "blocked"  BY <1>1, <2>1 DEF QueueUsed
      <3>2. output' = output /\ todo' = todo
        BY <1>9 DEF Ffmpeg, ReaderLoop, ReaderLock, ReaderRewind, ReaderSeek, ReaderSought, ReaderUnlock, ReaderRead,
          ReaderWrite, ReaderQueues, ReaderStarts, ReaderDelivers, ReaderWrote, ReaderEnds, ReaderCloses, ReaderKeeps, app
      <3>3. oldOnes' = oldOnes
        BY <1>9, <3>1 DEF Ffmpeg, ReaderLoop, ReaderLock, ReaderRewind, ReaderSeek, ReaderSought, ReaderUnlock, ReaderRead,
          ReaderWrite, ReaderQueues, ReaderStarts, ReaderDelivers, ReaderWrote, ReaderEnds, ReaderCloses
      <3>4. pb' = pb \/ pb' = [pb EXCEPT !["isPlaying"] = FALSE]
        BY <1>9 DEF Ffmpeg, ReaderLoop, ReaderLock, ReaderRewind, ReaderSeek, ReaderSought, ReaderUnlock, ReaderRead,
          ReaderWrite, ReaderQueues, ReaderStarts, ReaderDelivers, ReaderWrote, ReaderEnds, ReaderCloses
      <3>5. pb'["isSeeking"] = pb["isSeeking"]  BY <3>4 DEF TypeOK, Flags
      <3>6. pb'["isSeeking"]  BY <1>1, <2>1, <3>5
      <3>7. FlushesFirst(todo')  BY <2>1, <3>2 DEF Flushing
      <3> QED  BY <2>1, <3>2, <3>3, <3>6, <3>7, FlushKept
    <2>2. CASE Counted  BY <1>9, <2>2, ReaderKeepsCount, QueuesCounted, DeliversCounted
    <2> QED  BY <2>1, <2>2
  <1>10. CASE DrainTakes \/ DrainWrites
    <2>1. CASE Flushing
      <3>1. UNCHANGED <<output, todo, pb, oldOnes>>
        BY <1>1, <1>10, <2>1 DEF DrainTakes, DrainWrites, app, hist
      <3>2. FlushesFirst(todo')  BY <2>1, <3>1 DEF Flushing
      <3> QED  BY <1>1, <2>1, <3>1, <3>2, FlushKept
    <2>2. CASE Counted  BY <1>10, <2>2, TakesCounted, WritesCounted
    <2> QED  BY <2>1, <2>2
  <1>11. CASE (\E t \in Types : Plays(t)) \/ UNCHANGED vars
    <2>1. UNCHANGED <<output, todo, pb, oldOnes, drain, queue, left, seekTo, reader>>
      BY <1>11 DEF Plays, vars, app, fifo, hist
    <2>2. Flushing => Flushing'
      <3>1. Flushing => FlushesFirst(todo')  BY <2>1 DEF Flushing
      <3> QED  BY <1>1, <2>1, <3>1, FlushKept
    <2>3. Counted => Counted'  BY <2>1, MovesOn
    <2> QED  BY <2>2, <2>3
  <1> QED
    BY <1>3, <1>4, <1>5, <1>6, <1>7, <1>8, <1>9, <1>10, <1>11 DEF Next, AppStep

-----------------------------------------------------------------------------
(* A seek leaves behind what was read before it.                           *)

\* What one seek overtook stays overtaken.
LEMMA OvertakenStays ==
  ASSUME TypeOK, [Next]_vars
  PROVE  overtaken => overtaken'
  <1>1. CASE AppStep
    BY <1>1 DEF AppStep, Called, SetFlags, OutputStep, BuffFlush, DieNow, ContainerSeek, ContainerLocked,
       ContainerPlay, ContainerStop, hist
  <1>2. CASE Ffmpeg
    BY <1>2 DEF Ffmpeg, ReaderLoop, ReaderLock, ReaderRewind, ReaderSeek, ReaderSought, ReaderUnlock, ReaderRead,
      ReaderWrite, ReaderQueues, ReaderStarts, ReaderDelivers, ReaderWrote, ReaderEnds, ReaderCloses, ReaderKeeps
  <1>3. CASE (\E c \in Commands : Give(c)) \/ DrainTakes \/ DrainWrites \/ (\E t \in Types : Plays(t)) \/ UNCHANGED vars
    BY <1>3 DEF Give, DrainTakes, DrainWrites, Plays, vars, hist
  <1> QED  BY <1>1, <1>2, <1>3 DEF Next

\* The first state has nothing to leave behind.
LEMMA SeekStarts == Init => SeekInv
  <1> SUFFICES ASSUME Init PROVE SeekInv
    OBVIOUS
  <1>1. TypeOK /\ Ordered  BY StartsRight
  <1>2. queue = <<>> /\ drain.at = "none" /\ reader.at = "none" /\ left = FALSE /\ oldOnes = 0
    BY DEF Init, Closed
  <1>3. QueueUsed  BY <1>2 DEF QueueUsed
  <1>4. todo = <<[op |-> "call", command |-> "start"]>>  BY DEF Init, Call
  <1>5. Len(todo) = 1 /\ todo[1] = [op |-> "call", command |-> "start"]  BY <1>4
  <1>6. \A i \in 1 .. Len(todo) : i = 1  BY <1>5
  <1>7. todo[1] # SeekTarget  BY <1>5 DEF SeekTarget, Step
  <1>8. TargetCounts  BY <1>6, <1>7 DEF TargetCounts, HasTarget
  <1>9. ~QueuedOld /\ ~HasOld /\ ~ReadsOld /\ ~DrainsOld /\ OneToCome
    BY <1>2 DEF QueuedOld, HasOld, ReadsOld, DrainsOld, OneToCome
  <1>10. Limit \in {1, 2}  BY DEF Limit
  <1>11. Counted  BY <1>2, <1>9, <1>10 DEF Counted, Ahead
  <1>12. SeekIsComing  BY <1>2 DEF SeekIsComing
  <1> QED  BY <1>1, <1>3, <1>8, <1>11, <1>12 DEF SeekInv

\* Every step keeps what makes a seek right.
LEMMA SeekStep ==
  ASSUME SeekInv, [Next]_vars
  PROVE  SeekInv'
  <1>1. TypeOK /\ Ordered /\ QueueUsed /\ TargetCounts  BY DEF SeekInv
  <1>2. TypeOK' /\ Ordered' /\ QueueUsed' /\ TargetCounts'  BY <1>1, TypeStep, OrderStep, QueueStep, TargetStep
  <1>3. CASE overtaken'  BY <1>2, <1>3 DEF SeekInv
  <1>4. CASE ~overtaken'
    <2>1. ~overtaken  BY <1>1, <1>4, OvertakenStays
    <2>2. SeekIsComing /\ (Flushing \/ Counted)  BY <2>1 DEF SeekInv
    <2>3. SeekIsComing'  BY <1>1, <1>4, <2>2, ComingStep
    <2>4. Flushing' \/ Counted'  BY <1>1, <2>2, CountStep
    <2> QED  BY <1>2, <2>3, <2>4 DEF SeekInv
  <1> QED  BY <1>3, <1>4

\* From the moment a seek sets isSeeking at most the packet the reader has in hand gets to a
\* decoder, and with the queue the one its thread has, whatever the bounds of queue, decoders
\* and commands: PlaybackSeek sets the flag, clears the outputs, which empties the queue, and
\* gives the reader its target before it clears the flag.
THEOREM OldDataIsLeftBehind == Spec => []SeekLeavesOldDataBehind
  <1>1. Init => SeekInv  BY SeekStarts
  <1>2. SeekInv /\ [Next]_vars => SeekInv'  BY SeekStep
  <1>3. SeekInv => SeekLeavesOldDataBehind
    <2>1. Flushing => oldOnes = 0  BY DEF Flushing
    <2>2. Counted => oldOnes <= Limit  BY DEF Counted
    <2> QED  BY <2>1, <2>2 DEF SeekInv, SeekLeavesOldDataBehind, Limit
  <1> QED  BY <1>1, <1>2, <1>3, PTL DEF Spec

-----------------------------------------------------------------------------
(* What the flags say of the decoders.  `todo' is read as a path through   *)
(* labels: each says what holds of the flags and the decoders at a place   *)
(* in a command, and each deed leads from one label to the next.           *)

CallOf(c) == [op |-> "call", command |-> c]

SetPlaying == [op |-> "set", on |-> {"isPlaying"}, off |-> {"isPaused"} \cup Normal]
SetStopped == [op |-> "set", on |-> {}, off |-> {"isPlaying", "isPaused"} \cup Normal]
SetNormal  == [op |-> "set", on |-> {}, off |-> {"isPaused"} \cup Normal]
SetPaused  == [op |-> "set", on |-> {"isPaused"}, off |-> Normal]
SetForward == [op |-> "set", on |-> {"isForwarding"}, off |-> {}]

\* With one of these a playback begins to play.
Beginnings == {s \in PlainSets : "isPlaying" \in s.on} \cup {CallOf("start"), CallOf("play")}

\* Deeds that leave the decoders, and the flags the property speaks of, as they are.
Unseen  == {"isSeeking", "BackWard", "SlowMotion"}
Neutral == [op : {"clear", "reset", "buffFlush", "slowMotion", "avsync"}, type : Types]
           \cup [op : {"dieNow", "containerSwitch", "containerClose", "containerSeek", "containerPlay"},
                 type : {"none"}]
           \cup [op : {"set"}, on : SUBSET Unseen, off : SUBSET Unseen]

\* What the picture and the sound may do.
PictureDoes(state) == "video" \in tracks => dev["video"].state = state
PictureFast(fast)  == "video" \in tracks => dev["video"].fast = fast
SoundIsOn          == ~heldSound => dev["audio"].state # "stopped" /\ ~muted

\* Both are open and were started; only the sh4 boxes stop the sound to mute it.
Underway ==
  /\ pb["isPlaying"] /\ dev["audio"].open
  /\ "video" \in tracks => dev["video"].open /\ dev["video"].state # "stopped"
  /\ ~IsSh4 => dev["audio"].state # "stopped"

\* Between two commands the decoders are what the flags say.
AsTheFlagsSay ==
  /\ pb["isPaused"] /\ ~pb["isForwarding"] => PictureDoes("frozen")
  /\ ~pb["isPaused"] => /\ PictureDoes("playing") /\ PictureFast(pb["isForwarding"])
                        /\ dev["audio"].state # "frozen"
  /\ ~pb["isForwarding"] => SoundIsOn

NotYet ==
  /\ \A f \in Flags : ~pb[f]
  /\ reader.at = "none" /\ ~heldSound /\ ~muted
  /\ \A t \in Types : ~dev[t].fast

\* The places: between two commands ("steady", and "normal" after PLAYBACK_CONTINUE), in a pause,
\* in PLAYBACK_CONTINUE, in PLAYBACK_FASTFORWARD, in the start, and after the end.
Running  == {"steady", "normal", "pausing", "held", "resuming", "audible", "released", "shown",
             "speeding", "fast"}
Upcoming == {"closed", "halfOpen", "open", "halfPlays", "plays"}
Places   == Running \cup Upcoming \cup {"over"}

Holds(l) ==
  /\ l = "over" => ~pb["isPlaying"]
  /\ l \in Running => Underway
  /\ l \in {"steady", "normal", "pausing"} => AsTheFlagsSay
  /\ l \in {"normal", "released", "shown"} => ~pb["isPaused"] /\ ~pb["isForwarding"]
  /\ l \in {"pausing", "held"} => ~pb["isPaused"]
  /\ l = "held" => PictureDoes("frozen") /\ (~pb["isForwarding"] => SoundIsOn)
  /\ l \in {"audible", "released", "shown"} => SoundIsOn
  /\ l = "shown" => PictureDoes("playing") /\ PictureFast(FALSE)
  /\ l \in {"speeding", "fast"} =>
       pb["isForwarding"] /\ (~pb["isPaused"] => PictureDoes("playing") /\ dev["audio"].state # "frozen")
  /\ l = "fast" => PictureFast(TRUE)
  /\ l \in Upcoming => NotYet
  /\ l = "halfOpen" => ("video" \in tracks => dev["video"].open)
  /\ l \in {"open", "halfPlays", "plays"} => \A t \in tracks : dev[t].open
  /\ l = "halfPlays" => PictureDoes("playing")
  /\ l = "plays" => \A t \in tracks : dev[t].state = "playing"

\* From l a deed e leads to m; a playback without a picture skips the deeds of the video.
Here(l, m) == IF "video" \in tracks THEN l ELSE m
Moves(l, e, m) ==
  \/ l = "pausing"  /\ e = Step("pause", "video")       /\ m = "held"
  \/ l = "held"     /\ e = Step("pause", "audio")       /\ m = "held"
  \/ l = "held"     /\ e = SetPaused                    /\ m = "steady"
  \/ l = "resuming" /\ e = Step("unmute", "audio")      /\ m = "audible"
  \/ l = "audible"  /\ e = SetNormal                    /\ m = Here("released", "shown")
  \/ l = "released" /\ e = Step("continue", "video")    /\ m = "shown"
  \/ l = "shown"    /\ e = Step("continue", "audio")    /\ m \in {"steady", "normal"}
  \/ l \in {"steady", "normal"} /\ e = SetForward       /\ m = "speeding"
  \/ l = "speeding" /\ e = Step("fastForward", "video") /\ m = "fast"
  \/ l = "fast"     /\ e = Step("fastForward", "audio") /\ m = "fast"
  \/ l = "fast"     /\ e = Step("mute", "audio")        /\ m = "steady"
  \/ l = "normal"   /\ e = SetNormal                    /\ m = "normal"
  \/ l \in {"steady", "normal"} /\ e = Step("switch", "audio") /\ m = l
  \/ l \in {"steady", "normal"} /\ e = SetStopped       /\ m = "over"

Begins(l, e, m) ==
  \/ l = "closed" /\ e = CallOf("start")      /\ m = "steady"
  \/ l = "closed" /\ e = Step("open", "video") /\ m = "halfOpen"
  \/ l = Here("halfOpen", "closed") /\ e = Step("open", "audio") /\ m = "open"
  \/ l = "open"   /\ e = CallOf("play")       /\ m = "steady"
  \/ l = "open"   /\ e = Step("avsync", "audio") /\ m = "open"
  \/ l = "open"   /\ e = Step("play", "video") /\ m = "halfPlays" /\ "video" \in tracks
  \/ l = Here("halfPlays", "open") /\ e = Step("play", "audio") /\ m = "plays"
  \/ l = "plays"  /\ e = SetPlaying           /\ m = "steady"

Ordinary == PlainCalls \ {"stop"}

Follows(l, e, m) ==
  \/ l = "over" /\ m = "over" /\ e \notin Beginnings
  \/ l \in Running /\ e \in Neutral /\ (m = l \/ (l = "normal" /\ m = "steady"))
  \/ /\ l \in {"steady", "normal"}
     /\ \E c \in Ordinary : e = CallOf(c) /\ (m = "steady" \/ (c = "continue" /\ m = "normal"))
  \/ l \in {"steady", "normal"} /\ e \in {CallOf("stop"), CallOf("stopOutput")} /\ m = "over"
  \/ Moves(l, e, m) \/ Begins(l, e, m)

\* What is to be done leads from l to m; nothing leads back before the start.
Path(s, l, m) ==
  \E w \in [0 .. Len(s) -> Places] :
    /\ w[0] = l /\ w[Len(s)] = m
    /\ \A i \in 1 .. Len(s) : Follows(w[i - 1], s[i], w[i])
    /\ \A i, k \in 0 .. Len(s) : i < k /\ w[i] \notin Upcoming => w[k] \notin Upcoming

Between == {"steady", "normal", "over"}

OnTheWay == \E l \in Places, m \in Between : Path(todo, l, m) /\ Holds(l)

FlagsInv == TypeOK /\ Ordered /\ OnTheWay

\* The kinds of deeds do not overlap, and only the start leads to the start.
LEMMA DeedKinds ==
  ASSUME NEW l \in Places \ Upcoming, NEW e, NEW m \in Places, Follows(l, e, m)
  PROVE  m \notin Upcoming /\ e \notin Beginnings
  <1> USE DEF Places, Running, Upcoming
  <1>1. CASE l = "over" /\ m = "over" /\ e \notin Beginnings
    BY <1>1
  <1>2. CASE e \in Neutral /\ (m = l \/ (l = "normal" /\ m = "steady"))
    <2>1. e.op # "call" /\ (e.op = "set" => "isPlaying" \notin e.on)  BY <1>2 DEF Neutral, Unseen
    <2>2. e \notin Beginnings  BY <2>1 DEF Beginnings, PlainSets, CallOf
    <2> QED  BY <1>2, <2>2
  <1>3. CASE \E c \in Ordinary : e = CallOf(c) /\ (m = "steady" \/ (c = "continue" /\ m = "normal"))
    <2>3. PICK c \in Ordinary : e = CallOf(c)  BY <1>3
    <2>4. c \notin {"start", "play"}  BY DEF Ordinary, PlainCalls
    <2>1. e.op = "call" /\ e.command \notin {"start", "play"}  BY <2>3, <2>4 DEF CallOf
    <2>2. e \notin Beginnings  BY <2>1 DEF Beginnings, PlainSets, CallOf
    <2> QED  BY <1>3, <2>2
  <1>4. CASE e \in {CallOf("stop"), CallOf("stopOutput")} /\ m = "over"
    BY <1>4 DEF Beginnings, PlainSets, CallOf
  <1>5. CASE Moves(l, e, m)
    <2>1. m \notin Upcoming  BY <1>5 DEF Moves, Here
    <2>2. e.op # "call" /\ (e.op = "set" => "isPlaying" \notin e.on)
      BY <1>5 DEF Moves, Step, SetPaused, SetNormal, SetForward, SetStopped
    <2> QED  BY <2>1, <2>2 DEF Beginnings, PlainSets, CallOf
  <1>6. CASE Begins(l, e, m)
    BY <1>6 DEF Begins, Here
  <1> QED  BY <1>1, <1>2, <1>3, <1>4, <1>5, <1>6 DEF Follows

\* Nothing to do.
LEMMA PathNone ==
  ASSUME NEW l \in Places
  PROVE  Path(<<>>, l, l)
  <1> DEFINE w == [i \in 0 .. 0 |-> l]
  <1>1. Len(<<>>) = 0  OBVIOUS
  <1>2. w \in [0 .. 0 -> Places] /\ w[0] = l  OBVIOUS
  <1>3. \A i, k \in 0 .. 0 : ~(i < k)  OBVIOUS
  <1> HIDE DEF w
  <1> QED  BY <1>1, <1>2, <1>3 DEF Path

\* One deed.
LEMMA PathOne ==
  ASSUME NEW l \in Places, NEW e, NEW m \in Places, Follows(l, e, m)
  PROVE  Path(<<e>>, l, m)
  <1> DEFINE w == [i \in 0 .. 1 |-> IF i = 0 THEN l ELSE m]  s == <<e>>
  <1>1. Len(s) = 1 /\ s[1] = e  OBVIOUS
  <1>2. w \in [0 .. 1 -> Places] /\ w[0] = l /\ w[1] = m  OBVIOUS
  <1>3. \A i, k \in 0 .. 1 : i < k => i = 0 /\ k = 1  OBVIOUS
  <1>4. l \notin Upcoming => m \notin Upcoming  BY DeedKinds
  <1>5. \A i \in 1 .. 1 : i = 1 /\ i - 1 = 0  OBVIOUS
  <1> HIDE DEF w, s
  <1> QED  BY <1>1, <1>2, <1>3, <1>4, <1>5 DEF Path, s

\* One sequence of deeds behind another.
LEMMA PathJoin ==
  ASSUME NEW S, NEW s \in Seq(S), NEW t \in Seq(S), NEW l, NEW m, NEW n, Path(s, l, m), Path(t, m, n)
  PROVE  Path(s \o t, l, n)
  <1> DEFINE u == s \o t  a == Len(s)  b == Len(t)
  <1>1. /\ a \in Nat /\ b \in Nat /\ Len(u) = a + b
        /\ \A i \in 1 .. a : u[i] = s[i]
        /\ \A i \in 1 .. b : u[a + i] = t[i]
    BY Join
  <1>2. PICK v \in [0 .. a -> Places] :
          /\ v[0] = l /\ v[a] = m
          /\ \A i \in 1 .. a : Follows(v[i - 1], s[i], v[i])
          /\ \A i, k \in 0 .. a : i < k /\ v[i] \notin Upcoming => v[k] \notin Upcoming
    BY DEF Path
  <1>3. PICK w \in [0 .. b -> Places] :
          /\ w[0] = m /\ w[b] = n
          /\ \A i \in 1 .. b : Follows(w[i - 1], t[i], w[i])
          /\ \A i, k \in 0 .. b : i < k /\ w[i] \notin Upcoming => w[k] \notin Upcoming
    BY DEF Path
  <1> HIDE DEF u, a, b
  <1> DEFINE x == [i \in 0 .. a + b |-> IF i <= a THEN v[i] ELSE w[i - a]]
  <1>4. /\ x \in [0 .. a + b -> Places]
        /\ \A i \in 0 .. a : x[i] = v[i]
    BY <1>1, <1>2, <1>3
  <1>5. \A i \in 0 .. b : x[a + i] = w[i]
    <2> SUFFICES ASSUME NEW i \in 0 .. b PROVE x[a + i] = w[i]
      OBVIOUS
    <2>1. CASE i = 0  BY <1>1, <1>2, <1>3, <1>4, <2>1
    <2>2. CASE i # 0
      <3>1. a + i \in 0 .. a + b /\ ~(a + i <= a) /\ (a + i) - a = i  BY <1>1, <2>2
      <3> QED  BY <3>1
    <2> QED  BY <2>1, <2>2
  <1>6. \A i \in 0 .. a + b : i \in 0 .. a \/ (i - a \in 1 .. b /\ i = a + (i - a))
    BY <1>1
  <1> HIDE DEF x
  <1>7. x[0] = l /\ x[a + b] = n
    BY <1>1, <1>2, <1>3, <1>4, <1>5
  <1>8. ASSUME NEW i \in 1 .. a + b PROVE Follows(x[i - 1], u[i], x[i])
    <2>1. CASE i \in 1 .. a
      <3>1. i - 1 \in 0 .. a /\ i \in 0 .. a  BY <1>1, <2>1
      <3> QED  BY <1>1, <1>2, <1>4, <2>1, <3>1
    <2>2. CASE i \notin 1 .. a
      <3>1. PICK k \in 1 .. b : i = a + k  BY <1>1, <2>2
      <3>2. i - 1 = a + (k - 1) /\ k - 1 \in 0 .. b /\ k \in 0 .. b  BY <1>1, <3>1
      <3>3. x[i - 1] = w[k - 1] /\ x[i] = w[k] /\ u[i] = t[k]  BY <1>1, <1>5, <3>1, <3>2
      <3> QED  BY <1>3, <3>3
    <2> QED  BY <2>1, <2>2
  <1>9. ASSUME NEW i \in 0 .. a + b, NEW k \in 0 .. a + b, i < k, x[i] \notin Upcoming
        PROVE  x[k] \notin Upcoming
    <2>1. CASE k \in 0 .. a
      <3>1. i \in 0 .. a  BY <1>1, <1>9, <2>1
      <3> QED  BY <1>2, <1>4, <1>9, <2>1, <3>1
    <2>2. CASE k \notin 0 .. a
      <3>1. PICK j \in 1 .. b : k = a + j  BY <1>6, <2>2
      <3>2. x[k] = w[j] /\ j \in 0 .. b /\ 0 \in 0 .. b /\ 0 < j  BY <1>1, <1>5, <3>1
      <3>3. CASE i \in 0 .. a
        <4>1. m \notin Upcoming
          <5>1. CASE i = a  BY <1>2, <1>4, <1>9, <3>3, <5>1
          <5>2. CASE i # a
            <6>1. i < a /\ a \in 0 .. a  BY <1>1, <3>3, <5>2
            <6> QED  BY <1>2, <1>4, <1>9, <3>3, <6>1
          <5> QED  BY <5>1, <5>2
        <4> QED  BY <1>3, <3>2, <4>1
      <3>4. CASE i \notin 0 .. a
        <4>1. PICK h \in 1 .. b : i = a + h  BY <1>6, <3>4
        <4>2. x[i] = w[h] /\ h \in 0 .. b /\ h < j  BY <1>1, <1>5, <1>9, <3>1, <4>1
        <4> QED  BY <1>3, <1>9, <3>2, <4>2
      <3> QED  BY <3>3, <3>4
    <2> QED  BY <2>1, <2>2
  <1> QED  BY <1>1, <1>4, <1>7, <1>8, <1>9 DEF Path, u

\* The first deed of a path, and the rest.
LEMMA PathTail ==
  ASSUME NEW S, NEW s \in Seq(S), s # <<>>, NEW l, NEW m, Path(s, l, m)
  PROVE  \E k \in Places : Follows(l, s[1], k) /\ Path(Tail(s), k, m)
  <1> DEFINE t == Tail(s)  n == Len(t)
  <1>1. n \in Nat /\ Len(s) = n + 1 /\ \A i \in 1 .. n : t[i] = s[i + 1]
    OBVIOUS
  <1>2. PICK w \in [0 .. n + 1 -> Places] :
          /\ w[0] = l /\ w[n + 1] = m
          /\ \A i \in 1 .. n + 1 : Follows(w[i - 1], s[i], w[i])
          /\ \A i, k \in 0 .. n + 1 : i < k /\ w[i] \notin Upcoming => w[k] \notin Upcoming
    BY <1>1 DEF Path
  <1> HIDE DEF t, n
  <1> DEFINE x == [i \in 0 .. n |-> w[i + 1]]
  <1>3. x \in [0 .. n -> Places] /\ x[0] = w[1] /\ x[n] = m /\ \A i \in 0 .. n : x[i] = w[i + 1]
    BY <1>1, <1>2
  <1> HIDE DEF x
  <1>4. Follows(l, s[1], w[1])
    <2>1. 1 \in 1 .. n + 1 /\ 1 - 1 = 0  BY <1>1
    <2> QED  BY <1>2, <2>1
  <1>5. ASSUME NEW i \in 1 .. n PROVE Follows(x[i - 1], t[i], x[i])
    <2>1. i + 1 \in 1 .. n + 1 /\ (i + 1) - 1 = i /\ i - 1 \in 0 .. n /\ (i - 1) + 1 = i /\ i \in 0 .. n
      BY <1>1
    <2>2. x[i - 1] = w[i] /\ x[i] = w[i + 1] /\ t[i] = s[i + 1]  BY <1>1, <1>3, <2>1
    <2>3. Follows(w[(i + 1) - 1], s[i + 1], w[i + 1])  BY <1>2, <2>1
    <2> QED  BY <2>1, <2>2, <2>3
  <1>6. ASSUME NEW i \in 0 .. n, NEW k \in 0 .. n, i < k, x[i] \notin Upcoming PROVE x[k] \notin Upcoming
    <2>1. i + 1 \in 0 .. n + 1 /\ k + 1 \in 0 .. n + 1 /\ i + 1 < k + 1  BY <1>1, <1>6
    <2> QED  BY <1>2, <1>3, <1>6, <2>1
  <1>7. Path(t, w[1], m)
    <2>1. Len(t) = n  BY DEF n
    <2> QED  BY <1>3, <1>5, <1>6, <2>1 DEF Path
  <1>8. w[1] \in Places  BY <1>1, <1>2
  <1> QED  BY <1>4, <1>7, <1>8 DEF t

\* A path of nothing leads nowhere.
LEMMA PathEnd ==
  ASSUME NEW l, NEW m, Path(<<>>, l, m)
  PROVE  l = m
  BY DEF Path

\* Deeds that change nothing.
LEMMA PathKeep ==
  ASSUME NEW s \in Seq(Neutral), NEW l \in Running
  PROVE  Path(s, l, l)
  <1> DEFINE w == [i \in 0 .. Len(s) |-> l]
  <1>1. Len(s) \in Nat /\ \A i \in 1 .. Len(s) : s[i] \in Neutral  OBVIOUS
  <1>2. l \in Places /\ l \notin Upcoming  BY DEF Places, Running, Upcoming
  <1>3. w \in [0 .. Len(s) -> Places] /\ \A i \in 0 .. Len(s) : w[i] = l  BY <1>2
  <1>4. \A i \in 1 .. Len(s) : i - 1 \in 0 .. Len(s) /\ i \in 0 .. Len(s)  BY <1>1
  <1>5. 0 \in 0 .. Len(s) /\ Len(s) \in 0 .. Len(s)  BY <1>1
  <1> HIDE DEF w
  <1>6. \A i \in 1 .. Len(s) : Follows(w[i - 1], s[i], w[i])  BY <1>1, <1>3, <1>4 DEF Follows
  <1> QED  BY <1>2, <1>3, <1>5, <1>6 DEF Path

\* After the end every deed but a beginning may come.
LEMMA PathOver ==
  ASSUME NEW S, NEW s \in Seq(S), \A i \in 1 .. Len(s) : s[i] \notin Beginnings
  PROVE  Path(s, "over", "over")
  <1> DEFINE w == [i \in 0 .. Len(s) |-> "over"]
  <1>1. Len(s) \in Nat  OBVIOUS
  <1>2. "over" \in Places /\ "over" \notin Upcoming  BY DEF Places, Upcoming
  <1>3. w \in [0 .. Len(s) -> Places] /\ \A i \in 0 .. Len(s) : w[i] = "over"  BY <1>2
  <1>4. \A i \in 1 .. Len(s) : i - 1 \in 0 .. Len(s) /\ i \in 0 .. Len(s)  BY <1>1
  <1>5. 0 \in 0 .. Len(s) /\ Len(s) \in 0 .. Len(s)  BY <1>1
  <1> HIDE DEF w
  <1>6. \A i \in 1 .. Len(s) : Follows(w[i - 1], s[i], w[i])  BY <1>3, <1>4 DEF Follows
  <1> QED  BY <1>2, <1>3, <1>5, <1>6 DEF Path

\* Once the playback has begun there is no beginning to come.
LEMMA PathOngoing ==
  ASSUME NEW S, NEW s \in Seq(S), NEW l \in Places \ Upcoming, NEW m, Path(s, l, m)
  PROVE  \A i \in 1 .. Len(s) : s[i] \notin Beginnings
  <1>1. PICK w \in [0 .. Len(s) -> Places] :
          /\ w[0] = l
          /\ \A i \in 1 .. Len(s) : Follows(w[i - 1], s[i], w[i])
          /\ \A i, k \in 0 .. Len(s) : i < k /\ w[i] \notin Upcoming => w[k] \notin Upcoming
    BY DEF Path
  <1> SUFFICES ASSUME NEW i \in 1 .. Len(s) PROVE s[i] \notin Beginnings
    OBVIOUS
  <1>2. Len(s) \in Nat /\ 0 \in 0 .. Len(s) /\ i - 1 \in 0 .. Len(s) /\ i \in 0 .. Len(s)
    OBVIOUS
  <1>3. w[i - 1] \notin Upcoming
    <2>1. CASE i = 1  BY <1>1, <2>1
    <2>2. CASE i # 1
      <3>1. 0 < i - 1  BY <2>2
      <3> QED  BY <1>1, <1>2, <3>1
    <2> QED  BY <2>1, <2>2
  <1>4. w[i - 1] \in Places \ Upcoming /\ w[i] \in Places /\ Follows(w[i - 1], s[i], w[i])
    BY <1>1, <1>2, <1>3
  <1> QED  BY <1>4, DeedKinds

-----------------------------------------------------------------------------
(* What each step does to what holds at a place.                           *)

\* What an operation leaves of a decoder that is open, as far as the flags go.
Same(d, e) == e.open = d.open /\ e.state = d.state /\ e.fast = d.fast

\* The operations that leave a decoder as it is, but for its data.
LEMMA DeviceSame ==
  ASSUME TypeOK, NEW t \in Types, NEW d \in DeviceType,
         NEW op \in {"clear", "reset", "slowMotion", "avsync"}
  PROVE  Same(d, Device(op, t, d))
  <1>1. Mipsel!Operation(op, t, d, pb.isForwarding) \in {d, Mipsel!LinuxDvbClear(d)}
    BY DEF Mipsel!Operation, Mipsel!LinuxDvbSlowMotion, Mipsel!LinuxDvbAVSync
  <1>2. Sh4!OperationSh4(op, t, d) \in {d, Sh4!Clear(d)}
    BY DEF Sh4!OperationSh4, Sh4!SlowMotion, Sh4!AVSync
  <1>3. Same(d, Mipsel!LinuxDvbClear(d)) /\ Same(d, Sh4!Clear(d)) /\ Same(d, d)
    BY DEF Same, DeviceType, Mipsel!LinuxDvbClear, Mipsel!IfOpen, Mipsel!Empty, Sh4!Clear, Sh4!IfOpen,
           Sh4!Empty
  <1> QED  BY <1>1, <1>2, <1>3 DEF Device

\* Opening and starting a decoder.
LEMMA DeviceStarts ==
  ASSUME TypeOK, NEW t \in Types, NEW d \in DeviceType
  PROVE  /\ LET e == Device("open", t, d) IN e.open /\ e.state = d.state /\ (~d.fast => ~e.fast)
         /\ d.open => LET e == Device("play", t, d) IN e.open /\ e.state = "playing" /\ e.fast = d.fast
  <1>1. LET e == Mipsel!LinuxDvbOpen(d) IN e.open /\ e.state = d.state /\ (~d.fast => ~e.fast)
    BY DEF DeviceType, Mipsel!LinuxDvbOpen
  <1>2. LET e == Sh4!Open(d) IN e.open /\ e.state = d.state /\ (~d.fast => ~e.fast)
    BY DEF DeviceType, Sh4!Open
  <1>3. d.open => LET e == Mipsel!LinuxDvbPlay(t, d) IN e.open /\ e.state = "playing" /\ e.fast = d.fast
    BY DEF DeviceType, Mipsel!LinuxDvbPlay, Mipsel!IfOpen, Mipsel!Run, Mipsel!Empty
  <1>4. d.open => LET e == Sh4!Play(d) IN e.open /\ e.state = "playing" /\ e.fast = d.fast
    BY DEF DeviceType, Sh4!Play, Sh4!IfOpen, Sh4!Run
  <1>5. /\ Device("open", t, d) = IF IsSh4 THEN Sh4!Open(d) ELSE Mipsel!LinuxDvbOpen(d)
        /\ Device("play", t, d) = IF IsSh4 THEN Sh4!Play(d) ELSE Mipsel!LinuxDvbPlay(t, d)
    BY DEF Device, Mipsel!Operation, Sh4!OperationSh4
  <1> QED  BY <1>1, <1>2, <1>3, <1>4, <1>5

\* Holding and releasing a decoder that is open.
LEMMA DeviceHolds ==
  ASSUME TypeOK, NEW t \in Types, NEW d \in DeviceType, d.open
  PROVE  /\ Device("pause", t, d).open
         /\ d.state = "playing" => Device("pause", t, d).state = "frozen"
         /\ d.state # "playing" => Device("pause", t, d).state = d.state
         /\ Device("continue", t, d).open
         /\ d.state = "frozen" => Device("continue", t, d).state = "playing"
         /\ d.state # "frozen" => Device("continue", t, d).state = d.state
         /\ t = "video" => ~Device("continue", t, d).fast \/ pb["isForwarding"]
  <1> USE DEF DeviceType
  <1>1. LET e == Mipsel!LinuxDvbPause(d) IN
          e.open /\ e.fast = d.fast /\ e.state = IF d.state = "playing" THEN "frozen" ELSE d.state
    BY DEF Mipsel!LinuxDvbPause, Mipsel!IfOpen, Mipsel!Hold
  <1>2. LET e == Sh4!Pause(d) IN
          e.open /\ e.fast = d.fast /\ e.state = IF d.state = "playing" THEN "frozen" ELSE d.state
    BY DEF Sh4!Pause, Sh4!IfOpen, Sh4!Hold
  <1>3. ASSUME NEW f \in BOOLEAN
        PROVE  LET e == Mipsel!LinuxDvbContinue(t, d, f) IN
                 /\ e.open /\ e.state = IF d.state = "frozen" THEN "playing" ELSE d.state
                 /\ t = "video" /\ ~f => e.fast = FALSE
    <2>1. [d EXCEPT !.state = IF @ = "frozen" THEN "playing" ELSE @]
            = [d EXCEPT !.state = IF d.state = "frozen" THEN "playing" ELSE d.state]
      OBVIOUS
    <2> DEFINE r == [d EXCEPT !.state = IF d.state = "frozen" THEN "playing" ELSE d.state]
    <2>2. r \in DeviceType /\ r.open /\ r.state = IF d.state = "frozen" THEN "playing" ELSE d.state  OBVIOUS
    <2>3. Mipsel!LinuxDvbContinue(t, d, f) = [r EXCEPT !.fast = r.fast /\ (t = "audio" \/ f)]
      BY <2>1 DEF Mipsel!LinuxDvbContinue, Mipsel!IfOpen, Mipsel!Release
    <2> HIDE DEF r
    <2>4. (t = "video" /\ ~f) => (r.fast /\ (t = "audio" \/ f)) = FALSE  OBVIOUS
    <2> QED  BY <2>2, <2>3, <2>4
  <1>4. LET e == Sh4!Continue(d) IN
          e.open /\ e.state = (IF d.state = "frozen" THEN "playing" ELSE d.state) /\ e.fast = FALSE
    BY DEF Sh4!Continue, Sh4!IfOpen, Sh4!Release
  <1>5. pb["isForwarding"] \in BOOLEAN  BY DEF TypeOK, Flags
  <1>6. /\ Device("pause", t, d) = IF IsSh4 THEN Sh4!Pause(d) ELSE Mipsel!LinuxDvbPause(d)
        /\ Device("continue", t, d)
             = IF IsSh4 THEN Sh4!Continue(d) ELSE Mipsel!LinuxDvbContinue(t, d, pb["isForwarding"])
    BY DEF Device, Mipsel!Operation, Sh4!OperationSh4
  <1> QED  BY <1>1, <1>2, <1>3, <1>4, <1>5, <1>6

\* Fast forward, of a decoder that is open.
LEMMA DeviceForwards ==
  ASSUME TypeOK, NEW d \in DeviceType, d.open
  PROVE  /\ Same(d, Device("fastForward", "audio", d))
         /\ LET e == Device("fastForward", "video", d) IN
              /\ e.open /\ e.fast = TRUE
              /\ d.state # "stopped" => e.state # "stopped"
              /\ d.state = "playing" => e.state = "playing"
  <1>1. /\ Device("fastForward", "audio", d) = d
        /\ Device("fastForward", "video", d)
             = IF IsSh4 THEN Sh4!FastForward("video", d) ELSE Mipsel!LinuxDvbFastForward("video", d)
    BY DEF Device, Mipsel!Operation, Sh4!OperationSh4, Sh4!FastForward, Mipsel!LinuxDvbFastForward
  <1>2. LET e == Sh4!FastForward("video", d) IN e.open /\ e.fast = TRUE /\ e.state = d.state
    BY DEF DeviceType, Sh4!FastForward, Sh4!IfOpen
  <1>3. LET e == Mipsel!LinuxDvbFastForward("video", d) IN
          e.open /\ e.fast = TRUE /\ e.state = IF d.state = "frozen" THEN "playing" ELSE d.state
    BY DEF DeviceType, Mipsel!LinuxDvbFastForward, Mipsel!IfOpen, Mipsel!Release
  <1> QED  BY <1>1, <1>2, <1>3 DEF Same

\* The sound of a decoder that is open: muted, heard again, on another track.
LEMMA DeviceSounds ==
  ASSUME TypeOK, NEW d \in DeviceType, d.open
  PROVE  /\ LET e == Device("mute", "audio", d) IN
              e.open /\ (~IsSh4 => e.state = d.state) /\ (IsSh4 => e.state # "frozen")
         /\ LET e == Device("unmute", "audio", d) IN
              e.open /\ (~IsSh4 => e.state = d.state) /\ (IsSh4 => e.state = "playing")
         /\ LET e == Device("switch", "audio", d) IN e.open /\ e.state = "playing"
  <1>1. /\ Device("mute", "audio", d) = IF IsSh4 THEN Sh4!AudioMute("mute", d) ELSE d
        /\ Device("unmute", "audio", d) = IF IsSh4 THEN Sh4!AudioMute("unmute", d) ELSE d
        /\ Device("switch", "audio", d) = IF IsSh4 THEN Sh4!Switch(d) ELSE Mipsel!LinuxDvbSwitch(d)
    BY DEF Device, Mipsel!Operation, Sh4!OperationSh4, Mipsel!LinuxDvbAudioMute
  <1>2. /\ Sh4!AudioMute("mute", d).open /\ Sh4!AudioMute("mute", d).state # "frozen"
        /\ Sh4!AudioMute("unmute", d).open /\ Sh4!AudioMute("unmute", d).state = "playing"
    BY DEF DeviceType, Sh4!AudioMute, Sh4!IfOpen, Sh4!Halt, Sh4!Run
  <1>3. Sh4!Switch(d).open /\ Sh4!Switch(d).state = "playing"
    BY DEF DeviceType, Sh4!Switch, Sh4!IfOpen, Sh4!Halt, Sh4!Run, Sh4!Empty
  <1>4. Mipsel!LinuxDvbSwitch(d).open /\ Mipsel!LinuxDvbSwitch(d).state = "playing"
    BY DEF DeviceType, Mipsel!LinuxDvbSwitch, Mipsel!IfOpen, Mipsel!Halt, Mipsel!Run, Mipsel!Empty
  <1> QED  BY <1>1, <1>2, <1>3, <1>4

\* The decoders are as they were, but for their data, and so are the flags the property speaks of.
Untouched ==
  /\ output' = output /\ tracks' = tracks /\ muted' = muted
  /\ heldSound' <=> heldSound
  /\ \A f \in Flags \ Unseen : pb'[f] = pb[f]
  /\ \A t \in Types : Same(dev[t], dev'[t])

\* Then what holds at a place goes on to hold.
LEMMA StillHolds ==
  ASSUME Untouched, NEW l \in Places, Holds(l), l \in Upcoming => pb' = pb /\ reader'.at = "none",
         TypeOK
  PROVE  Holds(l)'
  <1>1. /\ pb'["isPlaying"] = pb["isPlaying"] /\ pb'["isPaused"] = pb["isPaused"]
        /\ pb'["isForwarding"] = pb["isForwarding"]
    BY DEF Untouched, Flags, Unseen
  <1>2. /\ dev'["video"].open = dev["video"].open /\ dev'["video"].state = dev["video"].state
        /\ dev'["video"].fast = dev["video"].fast
        /\ dev'["audio"].open = dev["audio"].open /\ dev'["audio"].state = dev["audio"].state
        /\ dev'["audio"].fast = dev["audio"].fast
        /\ tracks \subseteq Types
    BY DEF Untouched, Same, Types, TypeOK
  <1>3. output' = output /\ tracks' = tracks /\ muted' = muted /\ (heldSound' <=> heldSound)
        /\ \A t \in Types :
             dev'[t].open = dev[t].open /\ dev'[t].state = dev[t].state /\ dev'[t].fast = dev[t].fast
    BY DEF Untouched, Same
  <1>4. (Underway => Underway') /\ (AsTheFlagsSay => AsTheFlagsSay') /\ (SoundIsOn => SoundIsOn')
    BY <1>1, <1>2, <1>3 DEF Underway, AsTheFlagsSay, SoundIsOn, PictureDoes, PictureFast, IsSh4
  <1>5. l \in Upcoming => NotYet'
    BY <1>3 DEF Holds, NotYet
  <1> HIDE DEF Underway, AsTheFlagsSay, SoundIsOn, NotYet
  <1> QED  BY <1>1, <1>2, <1>3, <1>4, <1>5 DEF Holds, PictureDoes, PictureFast

\* A deed that changes nothing leads to the same place, or to one where less holds.
LEMMA NeutralStays ==
  ASSUME NEW l \in Places, NEW m \in Places, NEW e \in Neutral, Follows(l, e, m)
  PROVE  m = l \/ (l = "normal" /\ m = "steady")
  <1>1. /\ e.op \in {"clear", "reset", "buffFlush", "slowMotion", "avsync", "dieNow", "containerSwitch",
                     "containerClose", "containerSeek", "containerPlay", "set"}
        /\ e.op = "set" => e.on \subseteq Unseen /\ e.off \subseteq Unseen
    BY DEF Neutral
  <1>2. \A c : CallOf(c).op = "call"  BY DEF CallOf
  <1>3. "isPaused" \notin Unseen /\ "isForwarding" \notin Unseen /\ "isPlaying" \notin Unseen
    BY DEF Unseen
  <1>4. e \notin {SetPaused, SetNormal, SetForward, SetStopped, SetPlaying}
    BY <1>1, <1>3 DEF SetPaused, SetNormal, SetForward, SetStopped, SetPlaying
  <1>5. ~Moves(l, e, m)  BY <1>1, <1>4 DEF Moves, Step
  <1>6. Begins(l, e, m) => m = l  BY <1>1, <1>2, <1>4 DEF Begins, Step
  <1> QED  BY <1>1, <1>2, <1>5, <1>6 DEF Follows

\* What a command leaves at rest is more than what the flags say.
LEMMA NormalIsSteady ==
  Holds("normal")' => Holds("steady")'
  BY DEF Holds, Running, Upcoming

LEMMA NeutralHolds ==
  ASSUME TypeOK, Untouched, NEW l \in Places, Holds(l), l \in Upcoming => pb' = pb /\ reader'.at = "none",
         NEW m \in Places, NEW e \in Neutral, Follows(l, e, m)
  PROVE  Holds(m)'
  <1>1. Holds(l)'  BY StillHolds
  <1>2. m = l \/ (l = "normal" /\ m = "steady")  BY NeutralStays
  <1> QED  BY <1>1, <1>2, NormalIsSteady

\* The flags.
LEMMA FlagsHold ==
  ASSUME TypeOK, SetFlags, NEW l \in Places, NEW m \in Places, Holds(l), Follows(l, todo[1], m)
  PROVE  Holds(m)'
  <1> DEFINE e == todo[1]
  <1>1. todo # <<>> /\ e \in Work /\ Head(todo) = e  BY TailOrder DEF SetFlags, TypeOK
  <1>2. /\ e.op = "set" /\ UNCHANGED <<output, tracks, dev, muted>>
        /\ pb' = [f \in Flags |-> f \in e.on \/ (pb[f] /\ f \notin e.off)]
        /\ heldSound' = (heldSound \/ (pb'["isPaused"] /\ ~pb["isPaused"] /\ pb["isForwarding"]))
    BY <1>1 DEF SetFlags, Next1, devs
  <1>3. reader'.at = reader.at
    BY DEF SetFlags, SeekBegins, TypeOK
  <1>4. e \in PlainSets \/ e = SeekFlag
    BY <1>1, <1>2
    DEF Work, Ending, Plain, Quiets, PlainSteps, OwnSteps, PlainOps, OwnOps, Stopping, Starting,
        SeekTarget, Step
  <1> HIDE DEF e
  <1>5. \A f \in Flags : pb'[f] <=> (f \in e.on \/ (pb[f] /\ f \notin e.off))
    BY <1>2
  <1>6. {"isPlaying", "isPaused", "isForwarding"} \subseteq Flags  BY DEF Flags
  <1>7. CASE l = "over"
    <2>1. m = "over" /\ e \notin Beginnings
      BY <1>7 DEF Follows, Moves, Begins, Here, Running, e
    <2>2. "isPlaying" \notin e.on
      BY <1>4, <2>1 DEF Beginnings, SeekFlag
    <2>3. ~pb'["isPlaying"]  BY <1>5, <1>6, <1>7, <2>2 DEF Holds
    <2> QED  BY <2>1, <2>3 DEF Holds, Running, Upcoming
  <1>8. CASE e \in Neutral
    <2>1. e.on \subseteq Unseen /\ e.off \subseteq Unseen
      BY <1>2, <1>8 DEF Neutral
    <2>2. \A f \in Flags \ Unseen : pb'[f] = pb[f]
      BY <1>2, <2>1 DEF TypeOK
    <2>3. heldSound' <=> heldSound
      <3>1. pb'["isPaused"] <=> pb["isPaused"]
        BY <2>2 DEF Flags, Unseen
      <3> QED  BY <1>2, <3>1
    <2>4. Untouched  BY <1>2, <2>2, <2>3 DEF Untouched, Same
    <2>5. l \notin Upcoming
      BY <1>2, <1>8, NeutralStays
      DEF Follows, Begins, Step, Moves, Running, Upcoming, CallOf, Neutral, SetPlaying, Unseen, e
    <2> QED  BY <1>8, <2>4, <2>5, NeutralHolds DEF e
  <1>9. CASE l # "over" /\ e \notin Neutral
    <2>1. Moves(l, e, m) \/ Begins(l, e, m)
      <3>1. \A c : e # CallOf(c)  BY <1>2 DEF CallOf
      <3>2. e = todo[1]  BY DEF e
      <3> QED  BY <1>9, <3>1, <3>2 DEF Follows
    <2>2. \/ l = "held" /\ e = SetPaused /\ m = "steady"
          \/ l = "audible" /\ e = SetNormal /\ m = Here("released", "shown")
          \/ l \in {"steady", "normal"} /\ e = SetForward /\ m = "speeding"
          \/ l = "normal" /\ e = SetNormal /\ m = "normal"
          \/ l \in {"steady", "normal"} /\ e = SetStopped /\ m = "over"
          \/ l = "plays" /\ e = SetPlaying /\ m = "steady"
      BY <1>2, <2>1 DEF Moves, Begins, Step, CallOf
    <2>3. tracks \subseteq Types /\ "audio" \in tracks  BY DEF TypeOK, Types
    <2> USE DEF Normal
    <2>4. CASE l = "held" /\ e = SetPaused /\ m = "steady"
      <3>1. pb'["isPlaying"] /\ pb'["isPaused"] /\ ~pb'["isForwarding"]
        BY <1>5, <1>6, <2>4 DEF SetPaused, Holds, Running, Underway
      <3>2. ~heldSound' => ~heldSound /\ ~pb["isForwarding"]
        BY <1>2, <2>4, <3>1 DEF Holds
      <3> QED
        BY <1>2, <2>4, <3>1, <3>2
        DEF Holds, Running, Upcoming, Underway, AsTheFlagsSay, SoundIsOn, PictureDoes, PictureFast,
            IsSh4
    <2>5. CASE l \in {"audible", "normal"} /\ e = SetNormal
      <3>1. pb'["isPlaying"] /\ ~pb'["isPaused"] /\ ~pb'["isForwarding"]
        BY <1>5, <1>6, <2>5 DEF SetNormal, Holds, Running, Underway
      <3>2. ~heldSound' => ~heldSound
        BY <1>2
      <3>3. e \notin {SetPaused, SetForward, SetStopped, SetPlaying}
        BY <2>5 DEF SetNormal, SetPaused, SetForward, SetStopped, SetPlaying
      <3>4. CASE l = "audible" /\ m = Here("released", "shown")
        BY <1>2, <3>1, <3>2, <3>4
        DEF Holds, Running, Upcoming, Underway, SoundIsOn, PictureDoes, PictureFast, IsSh4, Here
      <3>5. CASE l = "normal" /\ m = "normal"
        <4>1. pb'["isForwarding"] = FALSE /\ pb["isForwarding"] = FALSE
          BY <1>2, <1>6, <2>5, <3>5 DEF SetNormal, Holds, TypeOK
        <4> QED
          BY <1>2, <3>1, <3>2, <3>5, <4>1
          DEF Holds, Running, Upcoming, Underway, AsTheFlagsSay, SoundIsOn, PictureDoes, PictureFast,
              IsSh4
      <3> QED  BY <2>2, <2>5, <3>3, <3>4, <3>5
    <2>6. CASE l \in {"steady", "normal"} /\ e = SetForward /\ m = "speeding"
      <3>1. pb'["isPlaying"] /\ (pb'["isPaused"] <=> pb["isPaused"]) /\ pb'["isForwarding"]
        BY <1>5, <1>6, <2>6 DEF SetForward, Holds, Running, Underway
      <3> QED
        BY <1>2, <2>6, <3>1
        DEF Holds, Running, Upcoming, Underway, AsTheFlagsSay, PictureDoes, PictureFast, IsSh4
    <2>7. CASE e = SetStopped /\ m = "over"
      <3>1. ~pb'["isPlaying"]
        BY <1>5, <1>6, <2>7 DEF SetStopped
      <3> QED  BY <2>7, <3>1 DEF Holds, Running, Upcoming
    <2>8. CASE l = "plays" /\ e = SetPlaying /\ m = "steady"
      <3>1. pb'["isPlaying"] /\ ~pb'["isPaused"] /\ ~pb'["isForwarding"]
        BY <1>5, <1>6, <2>8 DEF SetPlaying
      <3>2. \A t \in tracks : dev[t].open /\ dev[t].state = "playing" /\ ~dev[t].fast
        BY <2>3, <2>8 DEF Holds, Upcoming, NotYet
      <3>3. ~muted  BY <2>8 DEF Holds, Upcoming, NotYet
      <3>4. "video" \in tracks => dev["video"].fast = FALSE
        BY <2>3, <3>2 DEF TypeOK, DeviceType
      <3>5. Underway'
        BY <1>2, <2>3, <3>1, <3>2 DEF Underway, IsSh4
      <3>6. SoundIsOn' /\ PictureDoes("playing")' /\ (PictureFast(FALSE))' /\ dev'["audio"].state # "frozen"
        BY <1>2, <2>3, <3>2, <3>3, <3>4 DEF SoundIsOn, PictureDoes, PictureFast
      <3>7. pb'["isForwarding"] = FALSE
        BY <1>2, <1>6, <2>8 DEF SetPlaying, Holds, Upcoming, NotYet
      <3> QED
        BY <2>8, <3>1, <3>5, <3>6, <3>7
        DEF Holds, Running, Upcoming, AsTheFlagsSay, PictureDoes, PictureFast
    <2> QED  BY <2>2, <2>4, <2>5, <2>6, <2>7, <2>8
  <1> QED  BY <1>7, <1>8, <1>9

\* The operations of the output.
LEMMA OpsHold ==
  ASSUME TypeOK, OutputStep, NEW l \in Places, NEW m \in Places, Holds(l), Follows(l, todo[1], m)
  PROVE  Holds(m)'
  <1> DEFINE e == todo[1]  v == dev["video"]  a == dev["audio"]
  <1>1. todo # <<>> /\ e \in Work /\ Head(todo) = e  BY TailOrder DEF OutputStep, TypeOK
  <1>2. e.op \notin {"call", "set", "buffFlush"} /\ e.type # "none"
    BY <1>1 DEF OutputStep, Next1
  <1>3. e \in PlainSteps \cup [op : {"stop", "close"}, type : Types]
    BY <1>1, <1>2
    DEF Work, Ending, Plain, Quiets, OwnSteps, PlainSets, Stopping, Starting, SeekFlag, SeekTarget, Step
  <1>4. e.type \in Types  BY <1>3 DEF PlainSteps
  <1>5. output' = output /\ tracks' = tracks /\ pb' = pb /\ heldSound' = heldSound /\ reader' = reader
    BY DEF OutputStep
  <1>6. /\ dev' = [dev EXCEPT ![e.type] = Device(e.op, e.type, dev[e.type])]
        /\ muted' = IF e.op = "mute" /\ ~IsSh4 THEN TRUE ELSE IF e.op = "unmute" THEN FALSE ELSE muted
    BY <1>1 DEF OutputStep, Next1
  <1>7. /\ dev \in [Types -> DeviceType] /\ v \in DeviceType /\ a \in DeviceType
        /\ "video" \in Types /\ "audio" \in Types
    BY DEF TypeOK, Types
  <1>8. /\ dev'[e.type] = Device(e.op, e.type, dev[e.type])
        /\ \A t \in Types : t # e.type => dev'[t] = dev[t]
    BY <1>4, <1>6, <1>7
  <1>9. tracks \subseteq Types /\ "audio" \in tracks  BY DEF TypeOK, Types
  <1>10. pb["isForwarding"] \in BOOLEAN /\ pb["isPaused"] \in BOOLEAN  BY DEF TypeOK, Flags
  <1> HIDE DEF e
  <1>11. CASE l = "over"
    <2>1. m = "over"  BY <1>11 DEF Follows, Moves, Begins, Here, Running
    <2> QED  BY <1>5, <1>11, <2>1 DEF Holds, Running, Upcoming
  <1>12. CASE e \in Neutral
    <2>1. e.op \in {"clear", "reset", "slowMotion", "avsync"}
      BY <1>2, <1>12 DEF Neutral
    <2>2. Same(dev[e.type], dev'[e.type])
      BY <1>4, <1>7, <1>8, <2>1, DeviceSame
    <2>3. \A t \in Types : Same(dev[t], dev'[t])
      BY <1>8, <2>2 DEF Same
    <2>4. Untouched  BY <1>5, <1>6, <2>1, <2>3 DEF Untouched
    <2>5. l \in Upcoming => reader'.at = "none"  BY <1>5 DEF Holds, NotYet
    <2> QED  BY <1>5, <1>12, <2>4, <2>5, NeutralHolds DEF e
  <1>13. CASE l # "over" /\ e \notin Neutral
    <2>1. Moves(l, e, m) \/ Begins(l, e, m)
      <3>1. \A c : e # CallOf(c)  BY <1>2 DEF CallOf
      <3>2. e = todo[1]  BY DEF e
      <3> QED  BY <1>13, <3>1, <3>2 DEF Follows
    <2>2. \/ l = "pausing"  /\ e = Step("pause", "video")       /\ m = "held"
          \/ l = "held"     /\ e = Step("pause", "audio")       /\ m = "held"
          \/ l = "resuming" /\ e = Step("unmute", "audio")      /\ m = "audible"
          \/ l = "released" /\ e = Step("continue", "video")    /\ m = "shown"
          \/ l = "shown"    /\ e = Step("continue", "audio")    /\ m \in {"steady", "normal"}
          \/ l = "speeding" /\ e = Step("fastForward", "video") /\ m = "fast"
          \/ l = "fast"     /\ e = Step("fastForward", "audio") /\ m = "fast"
          \/ l = "fast"     /\ e = Step("mute", "audio")        /\ m = "steady"
          \/ l \in {"steady", "normal"} /\ e = Step("switch", "audio") /\ m = l
          \/ l = "closed" /\ e = Step("open", "video") /\ m = "halfOpen"
          \/ l = Here("halfOpen", "closed") /\ e = Step("open", "audio") /\ m = "open"
          \/ l = "open" /\ "video" \in tracks /\ e = Step("play", "video") /\ m = "halfPlays"
          \/ l = Here("halfPlays", "open") /\ e = Step("play", "audio") /\ m = "plays"
      <3>1. Step("avsync", "audio") \in Neutral  BY <1>7 DEF Neutral, Step
      <3>2. e.op \notin {"set", "call"}  BY <1>2
      <3> QED
        BY <1>13, <2>1, <3>1, <3>2
        DEF Moves, Begins, SetPaused, SetNormal, SetForward, SetStopped, SetPlaying, CallOf
    <2> USE DEF Running, Upcoming
    <2>3. CASE l = "pausing" /\ e = Step("pause", "video") /\ m = "held"
      <3>1. dev'["video"] = Device("pause", "video", v) /\ dev'["audio"] = a /\ muted' = muted
        BY <1>6, <1>7, <1>8, <2>3 DEF Step
      <3>2. "video" \in tracks => v.open /\ v.state = "playing"
        BY <2>3 DEF Holds, Underway, AsTheFlagsSay, PictureDoes
      <3>3. "video" \in tracks => dev'["video"].open /\ dev'["video"].state = "frozen"
        BY <1>7, <3>1, <3>2, DeviceHolds
      <3> QED
        BY <1>5, <2>3, <3>1, <3>3 DEF Holds, Underway, AsTheFlagsSay, PictureDoes, SoundIsOn, IsSh4
    <2>4. CASE l = "held" /\ e = Step("pause", "audio") /\ m = "held"
      <3>1. dev'["audio"] = Device("pause", "audio", a) /\ dev'["video"] = v /\ muted' = muted
        BY <1>6, <1>7, <1>8, <2>4 DEF Step
      <3>2. a.open  BY <2>4 DEF Holds, Underway
      <3>3. dev'["audio"].open /\ (a.state # "stopped" => dev'["audio"].state # "stopped")
        BY <1>7, <3>1, <3>2, DeviceHolds
      <3> QED
        BY <1>5, <2>4, <3>1, <3>3 DEF Holds, Underway, PictureDoes, SoundIsOn, IsSh4
    <2>5. CASE l = "resuming" /\ e = Step("unmute", "audio") /\ m = "audible"
      <3>1. dev'["audio"] = Device("unmute", "audio", a) /\ dev'["video"] = v /\ muted' = FALSE
        BY <1>6, <1>7, <1>8, <2>5 DEF Step
      <3>2. a.open /\ (~IsSh4 => a.state # "stopped")  BY <2>5 DEF Holds, Underway
      <3>3. dev'["audio"].open /\ dev'["audio"].state # "stopped"
        BY <1>7, <3>1, <3>2, DeviceSounds
      <3> QED
        BY <1>5, <2>5, <3>1, <3>3 DEF Holds, Underway, SoundIsOn, IsSh4
    <2>6. CASE l = "released" /\ e = Step("continue", "video") /\ m = "shown"
      <3>1. dev'["video"] = Device("continue", "video", v) /\ dev'["audio"] = a /\ muted' = muted
        BY <1>6, <1>7, <1>8, <2>6 DEF Step
      <3>2. /\ "video" \in tracks => v.open /\ v.state # "stopped"
            /\ ~pb["isForwarding"] /\ v.state \in {"stopped", "playing", "frozen"}
        BY <1>7, <2>6 DEF Holds, Underway, DeviceType
      <3>3. "video" \in tracks => /\ dev'["video"].open /\ dev'["video"].state = "playing"
                                  /\ dev'["video"].fast = FALSE
        BY <1>7, <3>1, <3>2, DeviceHolds
      <3> QED
        BY <1>5, <2>6, <3>1, <3>3 DEF Holds, Underway, PictureDoes, PictureFast, SoundIsOn, IsSh4
    <2>7. CASE l = "shown" /\ e = Step("continue", "audio") /\ m \in {"steady", "normal"}
      <3>1. dev'["audio"] = Device("continue", "audio", a) /\ dev'["video"] = v /\ muted' = muted
        BY <1>6, <1>7, <1>8, <2>7 DEF Step
      <3>2. a.open /\ (~IsSh4 => a.state # "stopped")  BY <2>7 DEF Holds, Underway
      <3>3. /\ dev'["audio"].open /\ dev'["audio"].state # "frozen"
            /\ a.state # "stopped" => dev'["audio"].state # "stopped"
        BY <1>7, <3>1, <3>2, DeviceHolds
      <3>4. pb["isForwarding"] = FALSE  BY <1>10, <2>7 DEF Holds
      <3> QED
        BY <1>5, <2>7, <3>1, <3>2, <3>3, <3>4
        DEF Holds, Underway, AsTheFlagsSay, PictureDoes, PictureFast, SoundIsOn, IsSh4
    <2>8. CASE l = "speeding" /\ e = Step("fastForward", "video") /\ m = "fast"
      <3>1. dev'["video"] = Device("fastForward", "video", v) /\ dev'["audio"] = a /\ muted' = muted
        BY <1>6, <1>7, <1>8, <2>8 DEF Step
      <3>2. "video" \in tracks => v.open /\ v.state # "stopped"
        BY <2>8 DEF Holds, Underway
      <3>3. "video" \in tracks => /\ dev'["video"].open /\ dev'["video"].state # "stopped"
                                  /\ v.state = "playing" => dev'["video"].state = "playing"
                                  /\ dev'["video"].fast = TRUE
        BY <1>7, <3>1, <3>2, DeviceForwards
      <3> QED
        BY <1>5, <2>8, <3>1, <3>3 DEF Holds, Underway, PictureDoes, PictureFast, IsSh4
    <2>9. CASE l = "fast" /\ e = Step("fastForward", "audio") /\ m = "fast"
      <3>1. dev'["audio"] = Device("fastForward", "audio", a) /\ dev'["video"] = v /\ muted' = muted
        BY <1>6, <1>7, <1>8, <2>9 DEF Step
      <3>2. a.open  BY <2>9 DEF Holds, Underway
      <3>3. dev'["audio"].open = a.open /\ dev'["audio"].state = a.state
        BY <1>7, <3>1, <3>2, DeviceForwards DEF Same
      <3> QED
        BY <1>5, <2>9, <3>1, <3>3 DEF Holds, Underway, PictureDoes, PictureFast, IsSh4
    <2>10. CASE l = "fast" /\ e = Step("mute", "audio") /\ m = "steady"
      <3>1. dev'["audio"] = Device("mute", "audio", a) /\ dev'["video"] = v
        BY <1>6, <1>7, <1>8, <2>10 DEF Step
      <3>2. a.open  BY <2>10 DEF Holds, Underway
      <3>3. /\ dev'["audio"].open /\ (~IsSh4 => dev'["audio"].state = a.state)
            /\ a.state # "frozen" => dev'["audio"].state # "frozen"
        BY <1>7, <3>1, <3>2, DeviceSounds
      <3>4. pb["isForwarding"] = TRUE  BY <1>10, <2>10 DEF Holds
      <3> QED
        BY <1>5, <2>10, <3>1, <3>3, <3>4
        DEF Holds, Underway, AsTheFlagsSay, PictureDoes, PictureFast, IsSh4
    <2>11. CASE l \in {"steady", "normal"} /\ e = Step("switch", "audio") /\ m = l
      <3>1. dev'["audio"] = Device("switch", "audio", a) /\ dev'["video"] = v /\ muted' = muted
        BY <1>6, <1>7, <1>8, <2>11 DEF Step
      <3>2. a.open  BY <2>11 DEF Holds, Underway
      <3>3. dev'["audio"].open /\ dev'["audio"].state = "playing"
        BY <1>7, <3>1, <3>2, DeviceSounds
      <3>4. Underway'  BY <1>5, <2>11, <3>1, <3>3 DEF Holds, Underway, IsSh4
      <3>5. AsTheFlagsSay'
        BY <1>5, <2>11, <3>1, <3>3 DEF Holds, AsTheFlagsSay, PictureDoes, PictureFast, SoundIsOn
      <3> HIDE DEF Underway, AsTheFlagsSay
      <3> QED  BY <1>5, <2>11, <3>4, <3>5 DEF Holds
    <2>12. CASE l = "closed" /\ e = Step("open", "video") /\ m = "halfOpen"
      <3>1. dev'["video"] = Device("open", "video", v) /\ dev'["audio"] = a /\ muted' = muted
        BY <1>6, <1>7, <1>8, <2>12 DEF Step
      <3>2. dev'["video"].open /\ (~v.fast => ~dev'["video"].fast)
        BY <1>7, <3>1, DeviceStarts
      <3>3. NotYet'  BY <1>5, <2>12, <3>1, <3>2 DEF Holds, NotYet, Types
      <3> QED  BY <2>12, <3>2, <3>3 DEF Holds
    <2>13. CASE l = Here("halfOpen", "closed") /\ e = Step("open", "audio") /\ m = "open"
      <3>1. dev'["audio"] = Device("open", "audio", a) /\ dev'["video"] = v /\ muted' = muted
        BY <1>6, <1>7, <1>8, <2>13 DEF Step
      <3>2. dev'["audio"].open /\ (~a.fast => ~dev'["audio"].fast)
        BY <1>7, <3>1, DeviceStarts
      <3>3. NotYet'  BY <1>5, <2>13, <3>1, <3>2 DEF Holds, NotYet, Types, Here
      <3>4. \A t \in tracks' : dev'[t].open
        BY <1>5, <1>9, <2>13, <3>1, <3>2 DEF Holds, Types, Here
      <3> QED  BY <2>13, <3>3, <3>4 DEF Holds
    <2>14. CASE l = "open" /\ "video" \in tracks /\ e = Step("play", "video") /\ m = "halfPlays"
      <3>1. dev'["video"] = Device("play", "video", v) /\ dev'["audio"] = a /\ muted' = muted
        BY <1>6, <1>7, <1>8, <2>14 DEF Step
      <3>2. v.open => dev'["video"].open /\ dev'["video"].state = "playing" /\ dev'["video"].fast = v.fast
        BY <1>7, <3>1, DeviceStarts
      <3>3. \A t \in tracks : dev[t].open  BY <2>14 DEF Holds
      <3>4. dev'["video"].open /\ dev'["video"].state = "playing" /\ dev'["video"].fast = v.fast
        BY <2>14, <3>2, <3>3
      <3>5. NotYet'  BY <1>5, <2>14, <3>1, <3>4 DEF Holds, NotYet, Types
      <3>6. \A t \in tracks' : dev'[t].open
        BY <1>5, <1>9, <3>1, <3>3, <3>4 DEF Types
      <3> QED  BY <1>5, <2>14, <3>4, <3>5, <3>6 DEF Holds, PictureDoes
    <2>15. CASE l = Here("halfPlays", "open") /\ e = Step("play", "audio") /\ m = "plays"
      <3>1. dev'["audio"] = Device("play", "audio", a) /\ dev'["video"] = v /\ muted' = muted
        BY <1>6, <1>7, <1>8, <2>15 DEF Step
      <3>2. a.open  BY <1>9, <2>15 DEF Holds, Here
      <3>3. dev'["audio"].open /\ dev'["audio"].state = "playing" /\ dev'["audio"].fast = a.fast
        BY <1>7, <3>1, <3>2, DeviceStarts
      <3>4. NotYet'  BY <1>5, <2>15, <3>1, <3>3 DEF Holds, NotYet, Types, Here
      <3>5. \A t \in tracks' : dev'[t].open /\ dev'[t].state = "playing"
        BY <1>5, <1>9, <2>15, <3>1, <3>3 DEF Holds, Types, Here, PictureDoes
      <3> QED  BY <2>15, <3>4, <3>5 DEF Holds
    <2> QED
      BY <2>2, <2>3, <2>4, <2>5, <2>6, <2>7, <2>8, <2>9, <2>10, <2>11, <2>12, <2>13, <2>14, <2>15
  <1> QED  BY <1>11, <1>12, <1>13

\* The deeds that stop the threads or speak to the container.
LEMMA AfterTheEnd ==
  ASSUME NEW e, NEW m, Follows("over", e, m)
  PROVE  m = "over" /\ e \notin Beginnings
  BY DEF Follows, Moves, Begins, Here, Running

LEMMA NeutralComes ==
  ASSUME NEW l \in Upcoming, NEW e \in Neutral, NEW m, Follows(l, e, m)
  PROVE  e.op = "avsync"
  <1>1. /\ e.op \in {"clear", "reset", "buffFlush", "slowMotion", "avsync", "dieNow", "containerSwitch",
                     "containerClose", "containerSeek", "containerPlay", "set"}
        /\ e.op = "set" => "isPlaying" \notin e.on
    BY DEF Neutral, Unseen
  <1>2. l \notin Running /\ l # "over" /\ l \notin {"steady", "normal"}  BY DEF Running, Upcoming
  <1>3. ~Moves(l, e, m)  BY DEF Moves, Upcoming
  <1>4. Begins(l, e, m)  BY <1>2, <1>3 DEF Follows
  <1>5. e # SetPlaying /\ \A c : e # CallOf(c)  BY <1>1 DEF SetPlaying, CallOf
  <1> QED  BY <1>1, <1>4, <1>5 DEF Begins, Step

\* The place in the next state.
LEMMA OnWay ==
  ASSUME tracks' = tracks, NEW l \in Places, NEW m \in Between, Path(todo', l, m), Holds(l)'
  PROVE  OnTheWay'
  <1>1. Path(todo, l, m)'
    BY DEF Path, Follows, Moves, Begins, Here
  <1> QED  BY <1>1 DEF OnTheWay

\* A deed is done.
LEMMA DeedDone ==
  ASSUME TypeOK, OnTheWay, todo # <<>>, tracks' = tracks, todo' = Tail(todo),
         \A l, k \in Places : Holds(l) /\ Follows(l, todo[1], k) => Holds(k)'
  PROVE  OnTheWay'
  <1>1. PICK l \in Places, m \in Between : Path(todo, l, m) /\ Holds(l)  BY DEF OnTheWay
  <1>2. PICK k \in Places : Follows(l, todo[1], k) /\ Path(Tail(todo), k, m)
    BY <1>1, PathTail DEF TypeOK
  <1>3. Holds(k)'  BY <1>1, <1>2
  <1> QED  BY <1>1, <1>2, <1>3, OnWay

\* A deed that leaves the decoders alone.
LEMMA NeutralDone ==
  ASSUME TypeOK, OnTheWay, todo # <<>>, todo' = Tail(todo), Untouched, pb' = pb,
         todo[1] \in Neutral, reader.at = "none" /\ todo[1].op = "avsync" => reader'.at = "none"
  PROVE  OnTheWay'
  <1>1. ASSUME NEW l \in Places, NEW k \in Places, Holds(l), Follows(l, todo[1], k)
        PROVE  Holds(k)'
    <2>1. l \in Upcoming => reader'.at = "none"
      BY <1>1, NeutralComes DEF Holds, NotYet
    <2> QED  BY <1>1, <2>1, NeutralHolds
  <1>2. tracks' = tracks  BY DEF Untouched
  <1> QED  BY <1>1, <1>2, DeedDone

\* A step of somebody else.
LEMMA OthersStep ==
  ASSUME TypeOK, OnTheWay, todo' = todo, Untouched, pb' = pb, reader.at = "none" => reader'.at = "none"
  PROVE  OnTheWay'
  <1>1. PICK l \in Places, m \in Between : Path(todo, l, m) /\ Holds(l)  BY DEF OnTheWay
  <1>2. l \in Upcoming => reader'.at = "none"  BY <1>1 DEF Holds, NotYet
  <1>3. Holds(l)'  BY <1>1, <1>2, StillHolds
  <1>4. tracks' = tracks  BY DEF Untouched
  <1> QED  BY <1>1, <1>3, <1>4, OnWay

\* The container stops.
LEMMA ContainerStops ==
  ASSUME TypeOK, OnTheWay, ContainerStop
  PROVE  OnTheWay'
  <1>1. PICK l \in Places, m \in Between : Path(todo, l, m) /\ Holds(l)  BY DEF OnTheWay
  <1>2. todo # <<>> /\ Head(todo) = todo[1] /\ todo \in Seq(Work)
    BY TailOrder DEF ContainerStop, TypeOK
  <1> DEFINE t == Tail(todo)
  <1>3. PICK k \in Places : Follows(l, todo[1], k) /\ Path(t, k, m)
    BY <1>1, <1>2, PathTail
  <1>4. todo[1].op = "containerStop"  BY <1>2 DEF ContainerStop, Next1, Step
  <1>5. l = "over"
    <2>1. todo[1] \notin Neutral  BY <1>4 DEF Neutral
    <2>2. ~Moves(l, todo[1], k) /\ ~Begins(l, todo[1], k)
      BY <1>4 DEF Moves, Begins, Step, CallOf, SetPaused, SetNormal, SetForward, SetStopped, SetPlaying
    <2>3. \A c : todo[1] # CallOf(c)  BY <1>4 DEF CallOf
    <2> QED  BY <1>3, <2>1, <2>2, <2>3 DEF Follows
  <1>6. k = "over"  BY <1>3, <1>5, AfterTheEnd
  <1>7. "over" \in Places  BY DEF Places
  <1>8. tracks' = tracks /\ ~pb'["isPlaying"]  BY DEF ContainerStop, TypeOK, Flags
  <1>9. Holds("over")'  BY <1>8 DEF Holds, Running, Upcoming
  <1>10. Path(todo', "over", m)
    <2>1. todo' = t \/ todo' = SubSeq(todo, 3, Len(todo))  BY DEF ContainerStop
    <2>2. t \in Seq(Work)  BY <1>2
    <2>3. CASE t = <<>>
      <3>1. Len(todo) \in Nat /\ Len(t) = Len(todo) - 1  BY <1>2
      <3>2. Len(t) = 0
        <4> HIDE DEF t
        <4> QED  BY <2>3
      <3>3. Len(todo) = 1  BY <3>1, <3>2
      <3>4. SubSeq(todo, 3, 1) = <<>>  BY <1>2
      <3> QED  BY <1>3, <1>6, <2>1, <2>3, <3>3, <3>4
    <2>4. CASE t # <<>>
      <3>1. SubSeq(todo, 3, Len(todo)) = Tail(t)  BY <1>2, <2>4
      <3> HIDE DEF t
      <3>2. PICK j \in Places : Follows("over", t[1], j) /\ Path(Tail(t), j, m)
        BY <1>3, <1>6, <2>2, <2>4, PathTail
      <3>3. j = "over"  BY <3>2, AfterTheEnd
      <3> QED  BY <1>3, <1>6, <2>1, <3>1, <3>2, <3>3
    <2> QED  BY <2>3, <2>4
  <1> QED  BY <1>1, <1>7, <1>8, <1>9, <1>10, OnWay

\* The reader ends, and with it the playback.
LEMMA ReaderStops ==
  ASSUME TypeOK, OnTheWay, ReaderEnds
  PROVE  OnTheWay'
  <1>1. PICK l \in Places, m \in Between : Path(todo, l, m) /\ Holds(l)  BY DEF OnTheWay
  <1>2. l \notin Upcoming  BY <1>1 DEF ReaderEnds, Holds, NotYet
  <1>3. \A i \in 1 .. Len(todo) : todo[i] \notin Beginnings
    BY <1>1, <1>2, PathOngoing DEF TypeOK
  <1>4. Path(todo, "over", "over")  BY <1>3, PathOver DEF TypeOK
  <1>5. tracks' = tracks /\ todo' = todo /\ ~pb'["isPlaying"]
    BY DEF ReaderEnds, ReaderKeeps, app, TypeOK, Flags
  <1>6. Holds("over")'  BY <1>5 DEF Holds, Running, Upcoming
  <1>7. "over" \in Places /\ "over" \in Between  BY DEF Places, Between
  <1> QED  BY <1>4, <1>5, <1>6, <1>7, OnWay

\* A new command.
LEMMA CommandGiven ==
  ASSUME TypeOK, OnTheWay, NEW c \in Commands, Give(c)
  PROVE  OnTheWay'
  <1>1. PICK l \in Places, m \in Between : Path(todo, l, m) /\ Holds(l)  BY DEF OnTheWay
  <1>2. todo = <<>> /\ todo' = <<CallOf(c)>> /\ UNCHANGED <<output, tracks, muted, heldSound, pb, dev, reader>>
    BY DEF Give, Call, CallOf, devs, hist
  <1>3. l = m  BY <1>1, <1>2, PathEnd
  <1>4. c \in PlainCalls  BY CommandsAssumption DEF PlainCalls
  <1>5. \E k \in Between : Follows(l, CallOf(c), k)
    <2>1. c \notin {"start", "play"}  BY <1>4 DEF PlainCalls
    <2>2. CallOf(c).op = "call" /\ CallOf(c).command = c
          /\ CallOf("start").command = "start" /\ CallOf("play").command = "play"
      BY DEF CallOf
    <2>3. CallOf(c) \notin Beginnings
      BY <2>1, <2>2 DEF Beginnings, PlainSets
    <2>4. CASE l = "over"  BY <2>3, <2>4 DEF Follows, Between
    <2>5. CASE l # "over" /\ c = "stop"  BY <1>3, <2>5 DEF Follows, Between
    <2>6. CASE l # "over" /\ c # "stop"
      <3>1. c \in Ordinary  BY <1>4, <2>6 DEF Ordinary
      <3> QED  BY <1>3, <2>6, <3>1 DEF Follows, Between
    <2> QED  BY <2>4, <2>5, <2>6
  <1>6. PICK k \in Between : Follows(l, CallOf(c), k)  BY <1>5
  <1>7. k \in Places  BY DEF Between, Places, Running, Upcoming
  <1>8. Path(todo', l, k)  BY <1>1, <1>2, <1>6, <1>7, PathOne
  <1>9. Untouched  BY <1>2 DEF Untouched, Same
  <1>10. l \in Upcoming => reader'.at = "none"  BY <1>1, <1>2 DEF Holds, NotYet
  <1>11. Holds(l)'  BY <1>1, <1>2, <1>9, <1>10, StillHolds
  <1> QED  BY <1>1, <1>2, <1>6, <1>8, <1>11, OnWay

-----------------------------------------------------------------------------
(* The way of each command.                                                *)

Deeds == Work \cup Neutral

Way(s, l, m) == s \in Seq(Deeds) /\ Path(s, l, m)

LEMMA WayOne ==
  ASSUME NEW l \in Places, NEW e \in Deeds, NEW m \in Places, Follows(l, e, m)
  PROVE  Way(<<e>>, l, m)
  BY PathOne DEF Way

LEMMA WayNone ==
  ASSUME NEW l \in Places
  PROVE  Way(<<>>, l, l)
  BY PathNone DEF Way

LEMMA WayJoin ==
  ASSUME NEW s, NEW t, NEW l, NEW n, NEW m, Way(s, l, n), Way(t, n, m)
  PROVE  Way(s \o t, l, m)
  <1>1. s \in Seq(Deeds) /\ t \in Seq(Deeds) /\ Path(s, l, n) /\ Path(t, n, m)  BY DEF Way
  <1>2. s \o t \in Seq(Deeds)  BY <1>1
  <1>3. Path(s \o t, l, m)  BY <1>1, PathJoin
  <1> QED  BY <1>2, <1>3 DEF Way

LEMMA WayKeep ==
  ASSUME NEW s \in Seq(Neutral), NEW l \in Running
  PROVE  Way(s, l, l)
  <1>1. s \in Seq(Deeds)  BY DEF Deeds
  <1> QED  BY <1>1, PathKeep DEF Way

\* Operations that the playback asks of each of its tracks.
LEMMA OneWay ==
  ASSUME TypeOK, NEW op \in PlainOps \ {"clear"}, NEW t \in tracks, NEW l \in Places, NEW m \in Places,
         Follows(l, Step(op, t), m)
  PROVE  Way(Dvb(op, t), l, m)
  <1>1. Dvb(op, t) = <<Step(op, t)>>  BY DEF Dvb, PlainOps, Resets
  <1>2. Step(op, t) \in Deeds
    <2>1. t \in Types  BY DEF TypeOK, Types
    <2> QED  BY <2>1 DEF Step, Deeds, Work, Ending, Plain, Quiets, PlainSteps
  <1> QED  BY <1>1, <1>2, WayOne

LEMMA OutWay ==
  ASSUME TypeOK, NEW op \in PlainOps \ {"clear"}, NEW l \in Places, NEW n \in Places, NEW m \in Places,
         IF "video" \in tracks THEN Follows(l, Step(op, "video"), n) ELSE n = l,
         Follows(n, Step(op, "audio"), m)
  PROVE  Way(Out(op), l, m)
  <1>1. "audio" \in tracks  BY DEF TypeOK, Types
  <1>2. Way(Dvb(op, "video"), l, n)
    <2>1. CASE "video" \in tracks  BY <2>1, OneWay
    <2>2. CASE "video" \notin tracks
      <3>1. Dvb(op, "video") = <<>>  BY <2>2 DEF Dvb
      <3> QED  BY <2>2, <3>1, WayNone
    <2> QED  BY <2>1, <2>2
  <1>3. Way(Dvb(op, "audio"), n, m)  BY <1>1, OneWay
  <1> QED  BY <1>2, <1>3, WayJoin DEF Out

LEMMA SetWay ==
  ASSUME NEW on \in SUBSET Flags, NEW off \in SUBSET Flags,
         "isSeeking" \in on => "BackWard" \in on \/ on = {"isSeeking"},
         NEW l \in Places, NEW m \in Places, Follows(l, [op |-> "set", on |-> on, off |-> off], m)
  PROVE  off = {} \/ on # {"isSeeking"} => Way(Set(on, off), l, m)
  <1> DEFINE e == [op |-> "set", on |-> on, off |-> off]
  <1>1. ASSUME off = {} \/ on # {"isSeeking"} PROVE e \in Deeds
    <2>1. CASE on = {"isSeeking"}  BY <1>1, <2>1 DEF Deeds, Work, SeekFlag
    <2>2. CASE on # {"isSeeking"}  BY <2>2 DEF Deeds, Work, Ending, Plain, Quiets, PlainSets
    <2> QED  BY <2>1, <2>2
  <1> QED  BY <1>1, WayOne DEF Set

LEMMA CallWay ==
  ASSUME NEW c \in Ordinary, NEW l \in {"steady", "normal"}, NEW m \in Places,
         m = "steady" \/ (c = "continue" /\ m = "normal")
  PROVE  Way(Call(c), l, m)
  <1>1. CallOf(c) \in Deeds  BY DEF CallOf, Deeds, Work, Ending, Plain, Ordinary
  <1>2. l \in Places  BY DEF Places, Running
  <1>3. Follows(l, CallOf(c), m)  BY DEF Follows
  <1> QED  BY <1>1, <1>2, <1>3, WayOne DEF Call, CallOf

\* The clearing of the decoders, at any place of a command.
LEMMA ClearWay ==
  ASSUME TypeOK, NEW l \in Running
  PROVE  Way(Out("clear"), l, l)
  <1>1. Clears \subseteq Neutral  BY DEF Clears, Neutral
  <1>2. Out("clear") \in Seq(Neutral)  BY <1>1, OutKinds
  <1> QED  BY <1>2, WayKeep

\* Flags the property does not speak of.
LEMMA UnseenWay ==
  ASSUME NEW on \in SUBSET Unseen, NEW off \in SUBSET Unseen, NEW l \in Running
  PROVE  Way(Set(on, off), l, l) /\ (l = "normal" => Way(Set(on, off), l, "steady"))
  <1> DEFINE e == [op |-> "set", on |-> on, off |-> off]
  <1>1. e \in Neutral  BY DEF Neutral
  <1>2. e \in Deeds /\ l \in Places /\ "steady" \in Places  BY <1>1 DEF Deeds, Places, Running
  <1>3. Follows(l, e, l) /\ (l = "normal" => Follows(l, e, "steady"))  BY <1>1 DEF Follows
  <1> QED  BY <1>2, <1>3, WayOne DEF Set

\* PLAYBACK_PAUSE.
LEMMA PauseWay ==
  ASSUME TypeOK, Holds("steady")
  PROVE  \E l \in Places : Holds(l) /\ Way(PlaybackPause, l, "steady")
  <1> USE DEF Places, Running
  <1>1. CASE ~pb["isPlaying"] \/ pb["isPaused"]
    <2>1. PlaybackPause = <<>>  BY <1>1 DEF PlaybackPause
    <2> QED  BY <2>1, WayNone
  <1>2. CASE pb["isPlaying"] /\ ~pb["isPaused"]
    <2> DEFINE l == Here("pausing", "held")
               c == IF pb.SlowMotion THEN Out("clear") ELSE <<>>
    <2>1. PlaybackPause = (c \o Out("pause")) \o Set({"isPaused"}, Normal)
      BY <1>2 DEF PlaybackPause
    <2>2. l \in Running /\ l \in Places  BY DEF Here
    <2>3. Way(c, l, l)  BY <2>2, ClearWay, WayNone
    <2>4. Way(Out("pause"), l, "held")
      <3>1. /\ Follows("pausing", Step("pause", "video"), "held")
            /\ Follows("held", Step("pause", "audio"), "held")
        BY DEF Follows, Moves
      <3> QED  BY <2>2, <3>1, OutWay DEF Here, PlainOps
    <2>5. Way(Set({"isPaused"}, Normal), "held", "steady")
      <3>1. Follows("held", SetPaused, "steady")  BY DEF Follows, Moves
      <3> QED  BY <3>1, SetWay DEF SetPaused, Flags, Normal
    <2>6. Holds(l)
      BY <1>2 DEF Holds, Upcoming, Here, Underway, AsTheFlagsSay, PictureDoes
    <2> HIDE DEF l, c
    <2>7. Way(c \o Out("pause"), l, "held")  BY <2>3, <2>4, WayJoin
    <2> QED  BY <2>1, <2>2, <2>5, <2>6, <2>7, WayJoin
  <1> QED  BY <1>1, <1>2

\* PLAYBACK_CONTINUE.
LEMMA ContinueWay ==
  ASSUME TypeOK, Holds("steady"), NEW m \in {"steady", "normal"}
  PROVE  \E l \in Places : Holds(l) /\ Way(PlaybackContinue, l, m)
  <1> USE DEF Places, Running
  <1>1. pb["isPlaying"] /\ Underway /\ AsTheFlagsSay  BY DEF Holds, Underway
  <1>2. CASE ~pb["isPaused"] /\ ~Trick
    <2>1. PlaybackContinue = <<>>  BY <1>2 DEF PlaybackContinue
    <2>2. Holds(m)  BY <1>1, <1>2 DEF Holds, Upcoming, Trick
    <2> QED  BY <2>1, <2>2, WayNone
  <1>3. CASE pb["isPaused"] \/ Trick
    <2> DEFINE back == pb.BackWard \/ pb.isForwarding
               l == IF back THEN "resuming" ELSE "audible"
               c == IF Trick THEN Out("clear") ELSE <<>>
               u == IF back THEN AudioMute("0") ELSE <<>>
               n == Here("released", "shown")
    <2>1. PlaybackContinue = ((c \o u) \o Set({}, {"isPaused"} \cup Normal)) \o Out("continue")
      BY <1>1, <1>3 DEF PlaybackContinue
    <2>2. l \in Running /\ l \in Places /\ n \in Places  BY DEF Here
    <2>3. Way(c, l, l)  BY <2>2, ClearWay, WayNone
    <2>4. Way(u, l, "audible")
      <3>1. Follows("resuming", Step("unmute", "audio"), "audible")  BY DEF Follows, Moves
      <3>2. Way(Dvb("unmute", "audio"), "resuming", "audible")
        BY <3>1, OneWay DEF PlainOps, TypeOK, Types
      <3> QED  BY <3>2, WayNone DEF AudioMute
    <2>5. Way(Set({}, {"isPaused"} \cup Normal), "audible", n)
      <3>1. Follows("audible", SetNormal, n)  BY DEF Follows, Moves
      <3> QED  BY <2>2, <3>1, SetWay DEF SetNormal, Flags, Normal
    <2>6. Way(Out("continue"), n, m)
      <3>1. /\ Follows("released", Step("continue", "video"), "shown")
            /\ Follows("shown", Step("continue", "audio"), m)
        BY DEF Follows, Moves
      <3> QED  BY <2>2, <3>1, OutWay DEF Here, PlainOps
    <2>7. Holds(l)
      BY <1>1, <1>3 DEF Holds, Upcoming, AsTheFlagsSay
    <2> HIDE DEF l, c, u, n
    <2>8. Way(c \o u, l, "audible")  BY <2>3, <2>4, WayJoin
    <2>9. Way((c \o u) \o Set({}, {"isPaused"} \cup Normal), l, n)  BY <2>5, <2>8, WayJoin
    <2> QED  BY <2>1, <2>2, <2>6, <2>7, <2>9, WayJoin
  <1> QED  BY <1>2, <1>3

\* PLAYBACK_FASTFORWARD.
LEMMA ForwardWay ==
  ASSUME TypeOK
  PROVE  Way(PlaybackFastForward, "steady", "steady")
  <1> USE DEF Places, Running
  <1>1. CASE PlaybackFastForward = <<>>  BY <1>1, WayNone
  <1>2. CASE PlaybackFastForward # <<>>
    <2>1. /\ "video" \in tracks
          /\ PlaybackFastForward = (Set({"isForwarding"}, {}) \o Out("fastForward")) \o AudioMute("1")
      BY <1>2 DEF PlaybackFastForward
    <2>2. Way(Set({"isForwarding"}, {}), "steady", "speeding")
      <3>1. Follows("steady", SetForward, "speeding")  BY DEF Follows, Moves
      <3> QED  BY <3>1, SetWay DEF SetForward, Flags
    <2>3. Way(Out("fastForward"), "speeding", "fast")
      <3>1. /\ Follows("speeding", Step("fastForward", "video"), "fast")
            /\ Follows("fast", Step("fastForward", "audio"), "fast")
        BY DEF Follows, Moves
      <3> QED  BY <2>1, <3>1, OutWay DEF PlainOps
    <2>4. Way(AudioMute("1"), "fast", "steady")
      <3>1. Follows("fast", Step("mute", "audio"), "steady")  BY DEF Follows, Moves
      <3>2. Way(Dvb("mute", "audio"), "fast", "steady")
        BY <3>1, OneWay DEF PlainOps, TypeOK, Types
      <3> QED  BY <3>2 DEF AudioMute
    <2>5. Way(Set({"isForwarding"}, {}) \o Out("fastForward"), "steady", "fast")  BY <2>2, <2>3, WayJoin
    <2> QED  BY <2>1, <2>4, <2>5, WayJoin
  <1> QED  BY <1>1, <1>2

\* PLAYBACK_FASTBACKWARD: after PLAYBACK_CONTINUE the flags are those of the normal speed.
LEMMA BackwardWay ==
  ASSUME TypeOK, NEW speed0 \in BOOLEAN
  PROVE  Way(PlaybackFastBackward(speed0), "steady", "steady")
  <1> USE DEF Places, Running
  <1> DEFINE quiet == Set({}, {"isSeeking"})
  <1>1. Way(quiet, "steady", "steady") /\ Way(quiet, "normal", "steady")
    BY UnseenWay DEF Unseen
  <1>2. CASE "video" \in tracks /\ ~pb.isForwarding /\ (~pb.isPaused \/ pb.isPlaying)
    <2> DEFINE normal == Set({}, {"isPaused"} \cup Normal)
               back   == IF speed0 THEN <<>> ELSE Set({"BackWard", "isSeeking"}, {})
    <2>1. PlaybackFastBackward(speed0) = (((Call("continue") \o normal) \o back) \o Out("clear")) \o quiet
      BY <1>2 DEF PlaybackFastBackward
    <2>2. Way(Call("continue"), "steady", "normal")  BY CallWay DEF Ordinary, PlainCalls
    <2>3. Way(normal, "normal", "normal")
      <3>1. Follows("normal", SetNormal, "normal")  BY DEF Follows, Moves
      <3> QED  BY <3>1, SetWay DEF SetNormal, Flags, Normal
    <2>4. Way(back, "normal", "normal")  BY UnseenWay, WayNone DEF Unseen
    <2>5. Way(Out("clear"), "normal", "normal")  BY ClearWay
    <2> HIDE DEF normal, back, quiet
    <2>6. Way(Call("continue") \o normal, "steady", "normal")  BY <2>2, <2>3, WayJoin
    <2>7. Way((Call("continue") \o normal) \o back, "steady", "normal")  BY <2>4, <2>6, WayJoin
    <2>8. Way(((Call("continue") \o normal) \o back) \o Out("clear"), "steady", "normal")
      BY <2>5, <2>7, WayJoin
    <2> QED  BY <1>1, <2>1, <2>8, WayJoin
  <1>3. CASE ~("video" \in tracks /\ ~pb.isForwarding /\ (~pb.isPaused \/ pb.isPlaying))
    <2>1. PlaybackFastBackward(speed0) = quiet  BY <1>3 DEF PlaybackFastBackward
    <2> HIDE DEF quiet
    <2> QED  BY <1>1, <2>1
  <1> QED  BY <1>2, <1>3

\* PLAYBACK_SLOWMOTION.
LEMMA SlowWay ==
  ASSUME TypeOK
  PROVE  Way(PlaybackSlowMotion, "steady", "steady")
  <1> USE DEF Places, Running
  <1>1. CASE ~("video" \in tracks /\ pb.isPlaying)
    <2>1. PlaybackSlowMotion = <<>>  BY <1>1 DEF PlaybackSlowMotion
    <2> QED  BY <2>1, WayNone
  <1>2. CASE "video" \in tracks /\ pb.isPlaying
    <2> DEFINE c == IF pb.isPaused THEN Call("continue") ELSE <<>>
    <2>1. PlaybackSlowMotion = (c \o Set({"SlowMotion"}, {})) \o Out("slowMotion")
      BY <1>2 DEF PlaybackSlowMotion
    <2>2. Way(c, "steady", "steady")  BY CallWay, WayNone DEF Ordinary, PlainCalls
    <2>3. Way(Set({"SlowMotion"}, {}), "steady", "steady")  BY UnseenWay DEF Unseen
    <2>4. Way(Out("slowMotion"), "steady", "steady")
      <3>1. \A t \in Types : Follows("steady", Step("slowMotion", t), "steady")
        BY DEF Follows, Neutral, Step
      <3> QED  BY <3>1, OutWay DEF PlainOps, Types
    <2> HIDE DEF c
    <2>5. Way(c \o Set({"SlowMotion"}, {}), "steady", "steady")  BY <2>2, <2>3, WayJoin
    <2> QED  BY <2>1, <2>4, <2>5, WayJoin
  <1> QED  BY <1>1, <1>2

\* A step of the container or of the threads.
LEMMA DoWay ==
  ASSUME NEW op \in {"dieNow", "containerSwitch", "containerSeek"}
  PROVE  Way(Do(op), "steady", "steady")
  <1>1. Step(op, "none") \in Neutral  BY DEF Neutral, Step
  <1>2. <<Step(op, "none")>> \in Seq(Neutral)  BY <1>1
  <1> QED  BY <1>2, WayKeep DEF Do, Running

\* PLAYBACK_SEEK and PLAYBACK_SWITCH_AUDIO.
LEMMA SeekWay ==
  ASSUME TypeOK
  PROVE  Way(PlaybackSeek, "steady", "steady") /\ Way(PlaybackSwitchAudio, "steady", "steady")
  <1> USE DEF Places, Running
  <1>1. Way(PlaybackSeek, "steady", "steady")
    <2>1. CASE PlaybackSeek = <<>>  BY <2>1, WayNone
    <2>2. CASE PlaybackSeek # <<>>
      <3>1. PlaybackSeek
              = ((Set({"isSeeking"}, {}) \o Out("clear")) \o Do("containerSeek")) \o Set({}, {"isSeeking"})
        BY <2>2 DEF PlaybackSeek
      <3>2. Way(Set({"isSeeking"}, {}), "steady", "steady") /\ Way(Set({}, {"isSeeking"}), "steady", "steady")
        BY UnseenWay DEF Unseen
      <3>3. Way(Out("clear"), "steady", "steady")  BY ClearWay
      <3>4. Way(Do("containerSeek"), "steady", "steady")  BY DoWay
      <3>5. Way(Set({"isSeeking"}, {}) \o Out("clear"), "steady", "steady")  BY <3>2, <3>3, WayJoin
      <3>6. Way((Set({"isSeeking"}, {}) \o Out("clear")) \o Do("containerSeek"), "steady", "steady")
        BY <3>4, <3>5, WayJoin
      <3> QED  BY <3>1, <3>2, <3>6, WayJoin
    <2> QED  BY <2>1, <2>2
  <1>2. Way(PlaybackSwitchAudio, "steady", "steady")
    <2>1. CASE PlaybackSwitchAudio = <<>>  BY <2>1, WayNone
    <2>2. CASE PlaybackSwitchAudio # <<>>
      <3>1. PlaybackSwitchAudio = (Dvb("switch", "audio") \o Do("containerSwitch")) \o Call("seek")
        BY <2>2 DEF PlaybackSwitchAudio, Switch, TypeOK, Types
      <3>2. Way(Dvb("switch", "audio"), "steady", "steady")
        <4>1. Follows("steady", Step("switch", "audio"), "steady")  BY DEF Follows, Moves
        <4> QED  BY <4>1, OneWay DEF PlainOps, TypeOK, Types
      <3>3. Way(Do("containerSwitch"), "steady", "steady")  BY DoWay
      <3>4. Way(Call("seek"), "steady", "steady")  BY CallWay DEF Ordinary, PlainCalls
      <3>5. Way(Dvb("switch", "audio") \o Do("containerSwitch"), "steady", "steady")
        BY <3>2, <3>3, WayJoin
      <3> QED  BY <3>1, <3>4, <3>5, WayJoin
    <2> QED  BY <2>1, <2>2
  <1> QED  BY <1>1, <1>2

\* cPlayback::SetSpeed.
LEMMA SpeedWay ==
  ASSUME NEW c \in {"speed 0", "speed 1", "speed 2", "speed -2"}
  PROVE  Way(SetSpeed(c), "steady", "steady")
  <1>1. \A x \in Ordinary : Way(Call(x), "steady", "steady")
    BY CallWay DEF Places, Running
  <1>2. Way(<<>>, "steady", "steady")  BY WayNone DEF Places, Running
  <1>3. {"pause", "continue", "forward", "backward", "backward 0"} \subseteq Ordinary
    BY DEF Ordinary, PlainCalls
  <1>4. CASE c = "speed 0"  BY <1>1, <1>3, <1>4 DEF SetSpeed
  <1>5. CASE c = "speed 1"  BY <1>1, <1>3, <1>5 DEF SetSpeed
  <1>6. CASE c = "speed 2"
    <2> DEFINE a == IF pb.isPaused THEN Call("continue") ELSE <<>>
               b == IF pb.BackWard THEN Call("backward 0") ELSE <<>>
    <2>1. SetSpeed(c) = (a \o b) \o Call("forward")  BY <1>6 DEF SetSpeed
    <2>2. Way(a, "steady", "steady") /\ Way(b, "steady", "steady")  BY <1>1, <1>2, <1>3
    <2> HIDE DEF a, b
    <2>3. Way(a \o b, "steady", "steady")  BY <2>2, WayJoin
    <2> QED  BY <1>1, <1>3, <2>1, <2>3, WayJoin
  <1>7. CASE c = "speed -2"
    <2> DEFINE a == IF pb.isForwarding THEN Call("continue") ELSE <<>>
    <2>1. SetSpeed(c) = a \o Call("backward")  BY <1>7 DEF SetSpeed
    <2>2. Way(a, "steady", "steady")  BY <1>1, <1>2, <1>3
    <2> HIDE DEF a
    <2> QED  BY <1>1, <1>3, <2>1, <2>2, WayJoin
  <1> QED  BY <1>4, <1>5, <1>6, <1>7

\* After the end nothing begins again: what the commands are made of.
Later == Deeds \ Beginnings

LEMMA WayOver ==
  ASSUME NEW s \in Seq(Later)
  PROVE  Way(s, "over", "over")
  <1>1. s \in Seq(Deeds) /\ \A i \in 1 .. Len(s) : s[i] \notin Beginnings  BY DEF Later
  <1> QED  BY <1>1, PathOver DEF Way

LEMMA LaterKinds ==
  /\ PlainSteps \subseteq Later /\ OwnSteps \subseteq Later
  /\ [op : {"stop", "close"}, type : Types] \subseteq Later
  /\ Step("containerStop", "none") \in Later /\ SeekTarget \in Later
  /\ \A c \in PlainCalls \cup {"stopOutput", "closeOutput"} : CallOf(c) \in Later
  /\ \A on, off \in SUBSET Flags :
       ("isSeeking" \in on => "BackWard" \in on) /\ "isPlaying" \notin on => Set(on, off) \in Seq(Later)
  /\ Set({"isSeeking"}, {}) \in Seq(Later)
  <1>1. \A e \in Beginnings : e.op \in {"set", "call"}
    BY DEF Beginnings, PlainSets, CallOf
  <1>2. /\ PlainSteps \subseteq Later /\ OwnSteps \subseteq Later
        /\ [op : {"stop", "close"}, type : Types] \subseteq Later
    <2>1. /\ PlainSteps \subseteq Deeds /\ OwnSteps \subseteq Deeds
          /\ [op : {"stop", "close"}, type : Types] \subseteq Deeds
      BY DEF Deeds, Work, Ending, Plain, Quiets, Stopping
    <2>2. \A e \in PlainSteps \cup OwnSteps \cup [op : {"stop", "close"}, type : Types] :
            e.op \notin {"set", "call"}
      BY DEF PlainSteps, PlainOps, OwnSteps, OwnOps
    <2> QED  BY <1>1, <2>1, <2>2 DEF Later
  <1>3. Step("containerStop", "none") \in Later /\ SeekTarget \in Later
    <2>1. Step("containerStop", "none").op = "containerStop" /\ SeekTarget.op = "containerSeek"
      BY DEF SeekTarget, Step
    <2>2. Step("containerStop", "none") \in Deeds /\ SeekTarget \in Deeds
      BY DEF Deeds, Work, Ending, Stopping
    <2> QED  BY <1>1, <2>1, <2>2 DEF Later
  <1>4. ASSUME NEW c \in PlainCalls \cup {"stopOutput", "closeOutput"} PROVE CallOf(c) \in Later
    <2>1. CallOf(c) \in Deeds  BY DEF CallOf, Deeds, Work, Ending, Plain, Stopping
    <2>2. c \notin {"start", "play"}  BY DEF PlainCalls
    <2>3. /\ CallOf(c).op = "call" /\ CallOf(c).command = c
          /\ CallOf("start").command = "start" /\ CallOf("play").command = "play"
      BY DEF CallOf
    <2>4. CallOf(c) \notin Beginnings  BY <2>2, <2>3 DEF Beginnings, PlainSets
    <2> QED  BY <2>1, <2>4 DEF Later
  <1>5. ASSUME NEW on \in SUBSET Flags, NEW off \in SUBSET Flags, "isPlaying" \notin on
        PROVE  [op |-> "set", on |-> on, off |-> off] \notin Beginnings
    BY <1>5 DEF Beginnings, CallOf
  <1>6. ASSUME NEW on \in SUBSET Flags, NEW off \in SUBSET Flags,
               ("isSeeking" \in on => "BackWard" \in on) /\ "isPlaying" \notin on
        PROVE  Set(on, off) \in Seq(Later)
    <2>1. [op |-> "set", on |-> on, off |-> off] \in PlainSets  BY <1>6 DEF PlainSets
    <2>2. [op |-> "set", on |-> on, off |-> off] \in Deeds
      BY <2>1 DEF Deeds, Work, Ending, Plain, Quiets
    <2>3. [op |-> "set", on |-> on, off |-> off] \in Later  BY <1>5, <1>6, <2>2 DEF Later
    <2> QED  BY <2>3 DEF Set
  <1>7. Set({"isSeeking"}, {}) \in Seq(Later)
    <2>1. SeekFlag \in Deeds  BY DEF Deeds, Work
    <2>2. SeekFlag \notin Beginnings  BY <1>5 DEF SeekFlag, Flags
    <2>3. SeekFlag \in Later  BY <2>1, <2>2 DEF Later
    <2> QED  BY <2>3 DEF Set, SeekFlag
  <1> QED  BY <1>2, <1>3, <1>4, <1>6, <1>7

\* The ends of the decoders.
LEMMA EndsLater ==
  ASSUME TypeOK
  PROVE  Out("stop") \in Seq(Later) /\ Out("close") \in Seq(Later)
  <1>1. ASSUME NEW t \in Types PROVE Dvb("stop", t) \in Seq(Later) /\ Dvb("close", t) \in Seq(Later)
    <2>1. /\ \A op \in {"reset", "buffFlush", "stop", "close"} : Step(op, t) \in Later
      BY LaterKinds DEF PlainSteps, PlainOps, Step
    <2>2. Reset(t) \in Seq(Later)
      <3>1. <<Step("reset", t)>> \in Seq(Later) /\ <<Step("buffFlush", t)>> \in Seq(Later)  BY <2>1
      <3> QED  BY <3>1, Join DEF Reset
    <2>3. <<Step("stop", t)>> \in Seq(Later) /\ <<Step("stop", t), Step("close", t)>> \in Seq(Later)
      BY <2>1
    <2>4. /\ <<Step("stop", t)>> \o Reset(t) \in Seq(Later)
          /\ <<Step("stop", t), Step("close", t)>> \o Reset(t) \in Seq(Later)
      BY <2>2, <2>3, Join
    <2> QED  BY <2>4 DEF Dvb, Resets
  <1>2. "video" \in Types /\ "audio" \in Types  BY DEF Types
  <1> QED  BY <1>1, <1>2, Join DEF Out

\* PLAYBACK_STOP: the first thing it does is to clear isPlaying.
LEMMA StopWay ==
  ASSUME TypeOK
  PROVE  /\ Way(StopOutput, "steady", "over") \/ ~pb["isPlaying"]
         /\ StopOutput \in Seq(Later)
  <1> DEFINE first == Set({}, {"isPlaying", "isPaused"} \cup Normal)
             rest  == (Out("stop") \o Do("containerStop")) \o Do("containerClose")
  <1>1. first \in Seq(Later)  BY LaterKinds DEF Flags, Normal
  <1>2. rest \in Seq(Later)
    <2>1. Step("containerClose", "none") \in Later  BY LaterKinds DEF OwnSteps, OwnOps, Step
    <2>2. Do("containerStop") \in Seq(Later) /\ Do("containerClose") \in Seq(Later)
      BY <2>1, LaterKinds DEF Do
    <2> QED  BY <2>2, EndsLater, Join
  <1>3. pb["isPlaying"] => StopOutput = first \o rest
    <2> DEFINE s == Out("stop")  d == Do("containerStop")  c == Do("containerClose")
    <2>1. Step("containerClose", "none") \in Later  BY LaterKinds DEF OwnSteps, OwnOps, Step
    <2>2. s \in Seq(Later) /\ d \in Seq(Later) /\ c \in Seq(Later)
      BY <2>1, EndsLater, LaterKinds DEF Do
    <2>3. pb["isPlaying"] => StopOutput = ((first \o s) \o d) \o c  BY DEF StopOutput
    <2> HIDE DEF first, s, d, c
    <2>4. (first \o s) \o d = first \o (s \o d)  BY <1>1, <2>2
    <2>5. s \o d \in Seq(Later)  BY <2>2
    <2> DEFINE sd == s \o d
    <2> HIDE DEF sd
    <2>6. (first \o sd) \o c = first \o (sd \o c)
      <3>1. sd \in Seq(Later)  BY <2>5 DEF sd
      <3> QED  BY <1>1, <2>2, <3>1
    <2> QED  BY <2>3, <2>4, <2>6 DEF sd, s, d, c
  <1>4. Way(first, "steady", "over")
    <2>1. Follows("steady", SetStopped, "over")  BY DEF Follows, Moves
    <2> QED  BY <2>1, SetWay DEF SetStopped, Flags, Normal, Places, Running
  <1> HIDE DEF first, rest
  <1>5. Way(rest, "over", "over")  BY <1>2, WayOver
  <1>6. first \o rest \in Seq(Later)  BY <1>1, <1>2, Join
  <1>7. ~pb["isPlaying"] => StopOutput = <<>>  BY DEF StopOutput
  <1>8. Way(first \o rest, "steady", "over")  BY <1>4, <1>5, WayJoin
  <1>9. <<>> \in Seq(Later)  OBVIOUS
  <1> QED  BY <1>3, <1>6, <1>7, <1>8, <1>9

\* Every command but the start.
LEMMA StepsLater ==
  ASSUME TypeOK, NEW c \in PlainCalls \cup {"stopOutput", "closeOutput"}
  PROVE  Steps(c) \in Seq(Later)
  <1>1. /\ \A op \in {"clear", "pause", "continue", "fastForward", "slowMotion"} : Out(op) \in Seq(Later)
        /\ Switch \in Seq(Later) /\ AudioMute("0") \in Seq(Later) /\ AudioMute("1") \in Seq(Later)
    <2>1. Seq(PlainSteps) \subseteq Seq(Later)  BY LaterKinds
    <2> QED  BY <2>1, OutKinds DEF PlainOps
  <1>2. \A x \in PlainCalls \cup {"stopOutput", "closeOutput"} : Call(x) \in Seq(Later)
    <2>1. \A x \in PlainCalls \cup {"stopOutput", "closeOutput"} : <<CallOf(x)>> \in Seq(Later)
      BY LaterKinds
    <2> QED  BY <2>1 DEF Call, CallOf
  <1>3. /\ Set({"isPaused"}, Normal) \in Seq(Later) /\ Set({}, {"isPaused"} \cup Normal) \in Seq(Later)
        /\ Set({"isForwarding"}, {}) \in Seq(Later) /\ Set({"BackWard", "isSeeking"}, {}) \in Seq(Later)
        /\ Set({"SlowMotion"}, {}) \in Seq(Later) /\ Set({}, {"isSeeking"}) \in Seq(Later)
        /\ Set({"isSeeking"}, {}) \in Seq(Later)
    BY LaterKinds DEF Flags, Normal
  <1>4. /\ Do("containerSwitch") \in Seq(Later) /\ Do("containerSeek") \in Seq(Later)
        /\ Do("dieNow") \in Seq(Later)
    <2>1. Step("containerSwitch", "none") \in Later /\ Step("dieNow", "none") \in Later
      BY LaterKinds DEF OwnSteps, OwnOps, Step
    <2> QED  BY <2>1, LaterKinds DEF Do, SeekTarget
  <1>5. <<>> \in Seq(Later) /\ \A s, t \in Seq(Later) : s \o t \in Seq(Later)
    OBVIOUS
  <1>6. PlaybackPause \in Seq(Later)  BY <1>1, <1>3, <1>5 DEF PlaybackPause
  <1>7. PlaybackContinue \in Seq(Later)  BY <1>1, <1>3, <1>5 DEF PlaybackContinue
  <1>8. PlaybackFastForward \in Seq(Later)  BY <1>1, <1>3, <1>5 DEF PlaybackFastForward
  <1>9. PlaybackFastBackward(TRUE) \in Seq(Later) /\ PlaybackFastBackward(FALSE) \in Seq(Later)
    BY <1>1, <1>2, <1>3, <1>5 DEF PlaybackFastBackward, PlainCalls
  <1>10. PlaybackSlowMotion \in Seq(Later)  BY <1>1, <1>2, <1>3, <1>5 DEF PlaybackSlowMotion, PlainCalls
  <1>11. PlaybackSeek \in Seq(Later)  BY <1>1, <1>3, <1>4, <1>5 DEF PlaybackSeek
  <1>12. PlaybackSwitchAudio \in Seq(Later)
    BY <1>1, <1>2, <1>4, <1>5 DEF PlaybackSwitchAudio, PlainCalls
  <1>13. PlaybackStop \o Call("closeOutput") \in Seq(Later)
    BY <1>2, <1>4, <1>5 DEF PlaybackStop
  <1>14. Out("close") \o <<Step("del", "audio"), Step("del", "video")>> \in Seq(Later)
    <2>1. Step("del", "audio") \in Later /\ Step("del", "video") \in Later
      BY LaterKinds DEF PlainSteps, PlainOps, Types, Step
    <2>2. <<Step("del", "audio"), Step("del", "video")>> \in Seq(Later)  BY <2>1
    <2> QED  BY <1>5, <2>2, EndsLater
  <1>15. ASSUME c \in {"speed 0", "speed 1", "speed 2", "speed -2"} PROVE SetSpeed(c) \in Seq(Later)
    <2>1. \A x \in {"pause", "continue", "forward", "backward", "backward 0"} : Call(x) \in Seq(Later)
      BY <1>2 DEF PlainCalls
    <2>2. CASE c = "speed 0"   BY <2>1, <2>2 DEF SetSpeed
    <2>3. CASE c = "speed 1"   BY <2>1, <2>3 DEF SetSpeed
    <2>4. CASE c = "speed 2"   BY <2>1, <2>4, <1>5 DEF SetSpeed
    <2>5. CASE c = "speed -2"  BY <2>1, <2>5, <1>5 DEF SetSpeed
    <2> QED  BY <1>15, <2>2, <2>3, <2>4, <2>5
  <1> QED
    BY <1>6, <1>7, <1>8, <1>9, <1>10, <1>11, <1>12, <1>13, <1>14, <1>15, StopWay DEF Steps, PlainCalls

\* The start.
LEMMA StartWay ==
  ASSUME TypeOK
  PROVE  Way(Steps("start"), "closed", "steady")
  <1> USE DEF Places, Running, Upcoming
  <1>1. Steps("start") = Out("open") \o Call("play")  BY DEF Steps
  <1>2. Way(Out("open"), "closed", "open")
    <2> DEFINE n == Here("halfOpen", "closed")
    <2>1. n \in Places  BY DEF Here
    <2>2. "video" \in tracks => Follows("closed", Step("open", "video"), n)
      BY DEF Follows, Begins, Here
    <2>3. Follows(n, Step("open", "audio"), "open")  BY DEF Follows, Begins, Here
    <2>4. "video" \notin tracks => n = "closed"  BY DEF Here
    <2> HIDE DEF n
    <2> QED  BY <2>1, <2>2, <2>3, <2>4, OutWay DEF PlainOps
  <1>3. Way(Call("play"), "open", "steady")
    <2>1. Follows("open", CallOf("play"), "steady")  BY DEF Follows, Begins
    <2>2. CallOf("play") \in Deeds  BY DEF CallOf, Deeds, Work, Starting
    <2> QED  BY <2>1, <2>2, WayOne DEF Call, CallOf
  <1> QED  BY <1>1, <1>2, <1>3, WayJoin

LEMMA PlayWay ==
  ASSUME TypeOK, Holds("open")
  PROVE  Way(PlaybackPlay, "open", "steady")
  <1> USE DEF Places, Running, Upcoming
  <1>1. ~pb["isPlaying"]  BY DEF Holds, NotYet, Flags
  <1> DEFINE a == AVSync  o == Out("play")  s == Set({"isPlaying"}, {"isPaused"} \cup Normal)
             c == Do("containerPlay")
  <1>2. PlaybackPlay = ((a \o o) \o s) \o c  BY <1>1 DEF PlaybackPlay
  <1>3. Way(a, "open", "open")
    <2>1. Follows("open", Step("avsync", "audio"), "open")  BY DEF Follows, Begins
    <2>2. "audio" \in tracks  BY DEF TypeOK, Types
    <2>3. Way(Dvb("avsync", "audio"), "open", "open")  BY <2>1, <2>2, OneWay DEF PlainOps
    <2> QED  BY <2>3, WayNone DEF AVSync
  <1>4. Way(o, "open", "plays")
    <2> DEFINE n == Here("halfPlays", "open")
    <2>1. n \in Places  BY DEF Here
    <2>2. "video" \in tracks => Follows("open", Step("play", "video"), n)
      BY DEF Follows, Begins, Here
    <2>3. Follows(n, Step("play", "audio"), "plays")  BY DEF Follows, Begins, Here
    <2>4. "video" \notin tracks => n = "open"  BY DEF Here
    <2> HIDE DEF n
    <2> QED  BY <2>1, <2>2, <2>3, <2>4, OutWay DEF PlainOps
  <1>5. Way(s, "plays", "steady")
    <2>1. Follows("plays", SetPlaying, "steady")  BY DEF Follows, Begins
    <2> QED  BY <2>1, SetWay DEF SetPlaying, Flags, Normal
  <1>6. Way(c, "steady", "steady")
    <2>1. <<Step("containerPlay", "none")>> \in Seq(Neutral)  BY DEF Neutral, Step
    <2> QED  BY <2>1, WayKeep DEF Do
  <1> HIDE DEF a, o, s, c
  <1>7. Way(a \o o, "open", "plays")  BY <1>3, <1>4, WayJoin
  <1>8. Way((a \o o) \o s, "open", "steady")  BY <1>5, <1>7, WayJoin
  <1> QED  BY <1>2, <1>6, <1>8, WayJoin

\* Every command finds its way from a place that holds to where the next one goes on.
LEMMA CommandWay ==
  ASSUME TypeOK, NEW l \in Places, Holds(l), NEW c, NEW k \in Places, Follows(l, CallOf(c), k),
         c \in PlainCalls \cup {"stopOutput", "closeOutput", "start", "play"}
  PROVE  \E n \in Places : Holds(n) /\ Way(Steps(c), n, k)
  <1>1. CallOf(c).op = "call" /\ \A x : CallOf(x) = CallOf(c) => x = c
    <2>1. \A x : CallOf(x).command = x /\ CallOf(x).op = "call"  BY DEF CallOf
    <2> QED  BY <2>1
  <1>2. CASE l = "over"
    <2>1. k = "over" /\ c \notin {"start", "play"}  BY <1>2, AfterTheEnd DEF Beginnings
    <2>2. Way(Steps(c), "over", "over")  BY <2>1, StepsLater, WayOver
    <2> QED  BY <1>2, <2>1, <2>2
  <1>3. CASE l \in {"steady", "normal"} /\ c \in Ordinary /\ (k = "steady" \/ (c = "continue" /\ k = "normal"))
    <2>1. Holds("steady")  BY <1>3 DEF Holds, Running, Upcoming
    <2>2. "steady" \in Places  BY DEF Places, Running
    <2>3. CASE c = "pause"  BY <1>3, <2>1, <2>3, PauseWay DEF Steps
    <2>4. CASE c = "continue"  BY <1>3, <2>1, <2>4, ContinueWay DEF Steps
    <2>5. CASE c \notin {"pause", "continue"}
      <3>1. k = "steady"  BY <1>3, <2>5
      <3>2. CASE c = "forward"     BY <2>1, <2>2, <3>1, <3>2, ForwardWay DEF Steps
      <3>3. CASE c = "backward"    BY <2>1, <2>2, <3>1, <3>3, BackwardWay DEF Steps
      <3>4. CASE c = "backward 0"  BY <2>1, <2>2, <3>1, <3>4, BackwardWay DEF Steps
      <3>5. CASE c = "slow"        BY <2>1, <2>2, <3>1, <3>5, SlowWay DEF Steps
      <3>6. CASE c = "seek"        BY <2>1, <2>2, <3>1, <3>6, SeekWay DEF Steps
      <3>7. CASE c = "audio"       BY <2>1, <2>2, <3>1, <3>7, SeekWay DEF Steps
      <3>8. CASE c \in {"speed 0", "speed 1", "speed 2", "speed -2"}
        <4>1. Steps(c) = SetSpeed(c)  BY <3>8 DEF Steps
        <4> QED  BY <2>1, <2>2, <3>1, <3>8, <4>1, SpeedWay
      <3> QED  BY <1>3, <2>5, <3>2, <3>3, <3>4, <3>5, <3>6, <3>7, <3>8 DEF Ordinary, PlainCalls
    <2> QED  BY <2>3, <2>4, <2>5
  <1>4. CASE l \in {"steady", "normal"} /\ c \in {"stop", "stopOutput"} /\ k = "over"
    <2>1. Holds("steady") /\ pb["isPlaying"]  BY <1>4 DEF Holds, Running, Upcoming, Underway
    <2>2. "steady" \in Places /\ "over" \in Places  BY DEF Places, Running
    <2>3. CASE c = "stopOutput"  BY <1>4, <2>1, <2>2, <2>3, StopWay DEF Steps
    <2>4. CASE c = "stop"
      <3>1. Steps(c) = (Do("dieNow") \o Call("stopOutput")) \o Call("closeOutput")
        BY <2>4 DEF Steps, PlaybackStop
      <3>2. Way(Do("dieNow"), "steady", "steady")  BY DoWay
      <3>3. Way(Call("stopOutput"), "steady", "over")
        <4>1. Follows("steady", CallOf("stopOutput"), "over")  BY DEF Follows
        <4>2. CallOf("stopOutput") \in Deeds  BY DEF CallOf, Deeds, Work, Ending, Stopping
        <4> QED  BY <2>2, <4>1, <4>2, WayOne DEF Call, CallOf
      <3>4. Way(Call("closeOutput"), "over", "over")
        <4>1. <<CallOf("closeOutput")>> \in Seq(Later)  BY LaterKinds
        <4> QED  BY <4>1, WayOver DEF Call, CallOf
      <3>5. Way(Do("dieNow") \o Call("stopOutput"), "steady", "over")  BY <3>2, <3>3, WayJoin
      <3>6. Way(Steps(c), "steady", "over")  BY <3>1, <3>4, <3>5, WayJoin
      <3> QED  BY <1>4, <2>1, <2>2, <3>6
    <2> QED  BY <1>4, <2>3, <2>4
  <1>5. CASE l = "closed" /\ c = "start" /\ k = "steady"
    BY <1>5, StartWay
  <1>6. CASE l = "open" /\ c = "play" /\ k = "steady"
    BY <1>6, PlayWay DEF Steps
  <1>7. CallOf(c) \notin Neutral  BY <1>1 DEF Neutral
  <1>8. ~Moves(l, CallOf(c), k)
    BY <1>1 DEF Moves, Step, SetPaused, SetNormal, SetForward, SetStopped
  <1>9. Begins(l, CallOf(c), k) => \/ l = "closed" /\ c = "start" /\ k = "steady"
                                   \/ l = "open" /\ c = "play" /\ k = "steady"
    BY <1>1 DEF Begins, Step, SetPlaying
  <1>10. \/ l = "over"
         \/ l \in {"steady", "normal"} /\ c \in Ordinary /\ (k = "steady" \/ (c = "continue" /\ k = "normal"))
         \/ l \in {"steady", "normal"} /\ c \in {"stop", "stopOutput"} /\ k = "over"
         \/ Begins(l, CallOf(c), k)
    BY <1>1, <1>7, <1>8 DEF Follows
  <1> QED  BY <1>2, <1>3, <1>4, <1>5, <1>6, <1>9, <1>10

LEMMA CalledOnWay ==
  ASSUME TypeOK, OnTheWay, Called
  PROVE  OnTheWay'
  <1>1. PICK l \in Places, m \in Between : Path(todo, l, m) /\ Holds(l)  BY DEF OnTheWay
  <1> DEFINE e == todo[1]  c == todo[1].command  t == Tail(todo)
  <1>2. /\ todo # <<>> /\ Head(todo) = e /\ e \in Work /\ e.op = "call" /\ t \in Seq(Work)
        /\ todo' = Steps(c) \o t
        /\ UNCHANGED <<output, tracks, muted, heldSound, pb, dev, reader>>
    BY TailOrder DEF Called, Next1, TypeOK, devs, hist
  <1>3. /\ e \in [op : {"call"}, command : PlainCalls \cup {"stopOutput", "closeOutput", "start", "play"}]
    BY <1>2
    DEF Work, Ending, Plain, Quiets, PlainSteps, PlainOps, OwnSteps, OwnOps, PlainSets, Stopping,
        Starting,
                SeekFlag, SeekTarget, Step
  <1>4. e = CallOf(c) /\ c \in PlainCalls \cup {"stopOutput", "closeOutput", "start", "play"}
    BY <1>3 DEF CallOf
  <1>5. PICK k \in Places : Follows(l, e, k) /\ Path(t, k, m)
    BY <1>1, <1>2, PathTail DEF TypeOK
  <1> HIDE DEF e, c, t
  <1>6. PICK n \in Places : Holds(n) /\ Way(Steps(c), n, k)
    BY <1>1, <1>4, <1>5, CommandWay
  <1>7. Way(t, k, m)
    <2>1. t \in Seq(Deeds)  BY <1>2 DEF Deeds
    <2> QED  BY <1>5, <2>1 DEF Way
  <1>8. Path(todo', n, m)  BY <1>2, <1>6, <1>7, WayJoin DEF Way
  <1>9. Untouched  BY <1>2 DEF Untouched, Same
  <1>10. n \in Upcoming => reader'.at = "none"  BY <1>2, <1>6 DEF Holds, NotYet
  <1>11. Holds(n)'  BY <1>2, <1>6, <1>9, <1>10, StillHolds
  <1> QED  BY <1>2, <1>8, <1>11, OnWay

\* The reader, the thread of the queue and the decoders.
LEMMA DataOnly ==
  ASSUME TypeOK, NEW t \in Types, NEW n, dev' = [dev EXCEPT ![t].data = n]
  PROVE  \A x \in Types : Same(dev[x], dev'[x])
  BY DEF TypeOK, DeviceType, Same

LEMMA ReaderOnWay ==
  ASSUME TypeOK, OnTheWay, Ffmpeg
  PROVE  OnTheWay'
  <1>1. CASE ReaderEnds  BY <1>1, ReaderStops
  <1>2. CASE ~ReaderEnds
    <2>1. /\ todo' = todo /\ output' = output /\ tracks' = tracks /\ heldSound' = heldSound /\ muted' = muted
          /\ pb' = pb /\ reader.at # "none"
      BY <1>2
      DEF Ffmpeg, ReaderKeeps, app, devs, ReaderLoop, ReaderLock, ReaderRewind, ReaderSeek,
          ReaderSought,
                  ReaderUnlock, ReaderRead, ReaderWrite, ReaderQueues, ReaderStarts, ReaderDelivers, ReaderWrote, ReaderCloses
    <2>2. \A t \in Types : Same(dev[t], dev'[t])
      <3>1. CASE dev' = dev  BY <3>1 DEF Same
      <3>2. CASE ReaderRewind /\ dev' # dev
        <4>1. dev' = [dev EXCEPT !["video"] = Device("clear", "video", dev["video"])]
          BY <3>2 DEF ReaderRewind
        <4>2. dev \in [Types -> DeviceType] /\ "video" \in Types  BY DEF TypeOK, Types
        <4>3. Same(dev["video"], Device("clear", "video", dev["video"]))  BY <4>2, DeviceSame
        <4> QED  BY <4>1, <4>2, <4>3 DEF Same
      <3>3. CASE ReaderDelivers /\ dev' # dev
        <4>1. dev' = [dev EXCEPT ![reader.packet.type].data = dev[reader.packet.type].data + 1]
          BY <3>3 DEF ReaderDelivers
        <4>2. reader.packet.type \in Types  BY <3>3 DEF ReaderDelivers, TypeOK, Packets
        <4> QED  BY <4>1, <4>2, DataOnly
      <3>4. dev' = dev \/ ReaderRewind \/ ReaderDelivers
        BY DEF Ffmpeg, devs, ReaderLoop, ReaderLock, ReaderSeek, ReaderSought, ReaderUnlock, ReaderRead,
               ReaderWrite,
               ReaderQueues, ReaderStarts, ReaderWrote, ReaderEnds, ReaderCloses
      <3> QED  BY <3>1, <3>2, <3>3, <3>4
    <2>3. Untouched  BY <2>1, <2>2 DEF Untouched
    <2> QED  BY <2>1, <2>3, OthersStep
  <1> QED  BY <1>1, <1>2

LEMMA DecodersOnWay ==
  ASSUME TypeOK, OnTheWay, DrainTakes \/ DrainWrites \/ \E t \in Types : Plays(t)
  PROVE  OnTheWay'
  <1>1. /\ todo' = todo /\ output' = output /\ tracks' = tracks /\ heldSound' = heldSound /\ muted' = muted
        /\ pb' = pb
    BY DEF DrainTakes, DrainWrites, Plays, app, devs, hist
  <1>2. reader.at = "none" => reader'.at = "none"
    BY DEF DrainTakes, DrainWrites, Plays
  <1>3. \A x \in Types : Same(dev[x], dev'[x])
    <2>1. CASE DrainTakes  BY <2>1 DEF DrainTakes, devs, Same
    <2>2. CASE DrainWrites
      <3>1. drain.packet.type \in Types  BY <2>2 DEF DrainWrites, TypeOK, Packets
      <3>2. \/ dev' = dev
            \/ dev' = [dev EXCEPT ![drain.packet.type].data = dev[drain.packet.type].data + 1]
        BY <2>2 DEF DrainWrites
      <3>3. CASE dev' = dev  BY <3>3 DEF Same
      <3> QED  BY <3>1, <3>2, <3>3, DataOnly
    <2>3. CASE \E t \in Types : Plays(t)
      <3>1. PICK t \in Types : Plays(t)  BY <2>3
      <3>2. dev' = [dev EXCEPT ![t].data = dev[t].data - 1]  BY <3>1 DEF Plays
      <3> QED  BY <3>2, DataOnly
    <2> QED  BY <2>1, <2>2, <2>3
  <1>4. Untouched  BY <1>1, <1>3 DEF Untouched
  <1> QED  BY <1>1, <1>2, <1>4, OthersStep

\* The steps of a command.
LEMMA AppOnWay ==
  ASSUME TypeOK, OnTheWay, AppStep
  PROVE  OnTheWay'
  <1>1. CASE Called  BY <1>1, CalledOnWay
  <1>2. CASE ContainerStop  BY <1>2, ContainerStops
  <1>3. CASE SetFlags
    <2>1. todo # <<>> /\ todo' = Tail(todo) /\ tracks' = tracks  BY <1>3 DEF SetFlags, Done
    <2> QED  BY <1>3, <2>1, FlagsHold, DeedDone
  <1>4. CASE OutputStep
    <2>1. todo # <<>> /\ todo' = Tail(todo) /\ tracks' = tracks  BY <1>4 DEF OutputStep, Done
    <2> QED  BY <1>4, <2>1, OpsHold, DeedDone
  <1>5. CASE BuffFlush \/ DieNow \/ ContainerSeek \/ ContainerLocked \/ ContainerPlay
    <2>1. todo # <<>> /\ Head(todo) = todo[1] /\ todo[1] \in Work
      BY <1>5, TailOrder DEF TypeOK, BuffFlush, DieNow, ContainerSeek, ContainerLocked, ContainerPlay
    <2>2. /\ todo' = Tail(todo) /\ pb' = pb /\ dev' = dev /\ muted' = muted /\ output' = output
          /\ tracks' = tracks /\ heldSound' = heldSound
      BY <1>5 DEF BuffFlush, DieNow, ContainerSeek, ContainerLocked, ContainerPlay, Done, devs, hist
    <2>3. Untouched  BY <2>2 DEF Untouched, Same
    <2>4. todo[1] \in Neutral /\ todo[1].op # "avsync"
      <3>1. CASE BuffFlush
        <4>1. todo[1].op = "buffFlush"  BY <2>1, <3>1 DEF BuffFlush, Next1
        <4>2. todo[1] \in PlainSteps
          BY <2>1, <4>1
          DEF Work, Ending, Plain, Quiets, OwnSteps, OwnOps, PlainSets, Stopping, Starting, SeekFlag,
              SeekTarget, Step
        <4> QED  BY <4>1, <4>2 DEF PlainSteps, Neutral
      <3>2. CASE DieNow \/ ContainerSeek \/ ContainerLocked \/ ContainerPlay
        <4>1. todo[1] \in {Step(op, "none") :
                              op \in {"dieNow", "containerSeek", "containerSwitch", "containerClose", "containerPlay"}}
          BY <2>1, <3>2 DEF DieNow, ContainerSeek, ContainerLocked, ContainerPlay, Next1
        <4> QED  BY <4>1 DEF Step, Neutral
      <3> QED  BY <1>5, <3>1, <3>2
    <2> QED  BY <2>1, <2>2, <2>3, <2>4, NeutralDone
  <1> QED  BY <1>1, <1>2, <1>3, <1>4, <1>5 DEF AppStep

LEMMA FlagsStart == Init => FlagsInv
  <1> SUFFICES ASSUME Init PROVE FlagsInv
    OBVIOUS
  <1>1. Path(todo, "closed", "steady")
    <2>1. Follows("closed", CallOf("start"), "steady")  BY DEF Follows, Begins
    <2>2. todo = <<CallOf("start")>>  BY DEF Init, Call, CallOf
    <2> QED  BY <2>1, <2>2, PathOne DEF Places, Running, Upcoming
  <1>2. Holds("closed")
    BY DEF Init, Closed, Holds, NotYet, Running, NewDevice
  <1> QED  BY <1>1, <1>2, StartsRight DEF FlagsInv, OnTheWay, Between, Places, Running, Upcoming

LEMMA FlagsInvStep ==
  ASSUME FlagsInv, [Next]_vars
  PROVE  FlagsInv'
  <1>1. TypeOK /\ Ordered /\ OnTheWay  BY DEF FlagsInv
  <1>2. TypeOK' /\ Ordered'  BY <1>1, TypeStep, OrderStep
  <1>3. CASE \E c \in Commands : Give(c)
    <2>1. PICK c \in Commands : Give(c)  BY <1>3
    <2> QED  BY <1>1, <1>2, <2>1, CommandGiven DEF FlagsInv
  <1>4. CASE AppStep  BY <1>1, <1>2, <1>4, AppOnWay DEF FlagsInv
  <1>5. CASE Ffmpeg  BY <1>1, <1>2, <1>5, ReaderOnWay DEF FlagsInv
  <1>6. CASE DrainTakes \/ DrainWrites \/ \E t \in Types : Plays(t)
    BY <1>1, <1>2, <1>6, DecodersOnWay DEF FlagsInv
  <1>7. CASE UNCHANGED vars
    <2>1. todo' = todo /\ pb' = pb /\ reader' = reader /\ Untouched
      BY <1>7 DEF vars, app, devs, hist, Untouched, Same
    <2> QED  BY <1>1, <1>2, <2>1, OthersStep DEF FlagsInv
  <1> QED  BY <1>3, <1>4, <1>5, <1>6, <1>7 DEF Next

\* Whenever no command is under way, picture and sound are what the flags of the playback say:
\* PLAYBACK_PAUSE, CONTINUE, FASTFORWARD, SLOWMOTION, SEEK and SWITCH_AUDIO, in any order, leave no
\* decoder running, held, fast or muted that should not be, whatever the reader and the thread of the
\* queue do meanwhile.
THEOREM DecodersAlwaysFollowFlags == Spec => []DecodersFollowFlags
  <1>1. FlagsInv => DecodersFollowFlags
    <2> SUFFICES ASSUME FlagsInv, Quiet PROVE
          /\ (pb.isPaused /\ ~pb.isForwarding /\ "video" \in tracks) => dev["video"].state = "frozen"
          /\ (~pb.isPaused /\ "video" \in tracks) =>
               dev["video"].state = "playing" /\ dev["video"].fast = pb.isForwarding
          /\ (~pb.isPaused /\ ~pb.isForwarding /\ ~heldSound) => dev["audio"].state = "playing" /\ ~muted
      BY DEF DecodersFollowFlags
    <2>1. PICK l \in Places, m \in Between : Path(todo, l, m) /\ Holds(l)  BY DEF FlagsInv, OnTheWay
    <2>2. todo = <<>> /\ pb["isPlaying"]  BY DEF Quiet
    <2>3. l = m  BY <2>1, <2>2, PathEnd
    <2>4. l \in {"steady", "normal"}  BY <2>1, <2>2, <2>3 DEF Between, Holds
    <2>5. AsTheFlagsSay  BY <2>1, <2>4 DEF Holds
    <2>6. dev["audio"].state \in {"stopped", "playing", "frozen"}
      BY DEF FlagsInv, TypeOK, Types, DeviceType
    <2> QED  BY <2>5, <2>6 DEF AsTheFlagsSay, PictureDoes, PictureFast, SoundIsOn
  <1>2. Spec => []FlagsInv
    <2>1. Init => FlagsInv  BY FlagsStart
    <2>2. FlagsInv /\ [Next]_vars => FlagsInv'  BY FlagsInvStep
    <2> QED  BY <2>1, <2>2, PTL DEF Spec
  <1> QED  BY <1>1, <1>2, PTL
=============================================================================
