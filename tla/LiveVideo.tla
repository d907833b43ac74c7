------------------------------- MODULE LiveVideo -------------------------------
(***************************************************************************)
(* cVideo of the ARM and MIPS boxes and of the spark boxes (video.cpp),    *)
(* the decoder under it, and the HDMI CEC link that its Standby drives     *)
(* (hdmi_cec.cpp).                                                         *)
(*                                                                         *)
(* Unit 0 is the main picture, unit 1 the picture in picture.  Each has    *)
(* its own decoder; the flag stillpicture is a static one of the file, so  *)
(* both share it.  The CEC link has a thread that receives, and is sent to *)
(* from the thread that calls it.  It exists on the boxes of port "arm"    *)
(* and, with a loop that waits for the television, of port "vu".           *)
(***************************************************************************)
EXTENDS Integers, Sequences, FiniteSets

CONSTANTS Ports,      \* subset of {"arm", "vu", "spark"}
          Keys,       \* keys of the television's remote control
          MaxCalls,   \* bound: calls of the application
          MaxBus,     \* bound: CEC messages on their way to the box
          MaxTries    \* how often the television is told to show the box (5 in the code)

Assumptions ==
  /\ Ports \subseteq {"arm", "vu", "spark"} /\ {MaxCalls, MaxBus, MaxTries} \subseteq Nat /\ MaxTries > 0
  /\ "none" \notin Keys

VARIABLES
  port,
  stillpicture,  \* the static flag
  units,         \* the two cVideo objects with their decoders
  cec,           \* the fields of hdmi_cec
  rx,            \* the receiving thread: gone, or waits, or the message it has read
  pressedkey,    \* the static of Receive
  keys,          \* keys that are down on the box's input device
  bus,           \* CEC messages on their way to the box
  tv,            \* the television: on, and the key that is held on its remote control
  waking,        \* tries of SetCECState(false) so far; -1 when the application is not in it
  calls,
  cleared,       \* history: the flag was reset for the picture of another unit
  missed,        \* history: a key was pressed before the last was released, or an event was lost
  woken,         \* history: CEC was told of a standby state that the box is not in
  told           \* history: the last power status the television was told

video   == <<stillpicture, units, cleared>>
link    == <<cec, rx, pressedkey, keys, bus, tv, waking, missed, woken, told>>
vars    == <<port, video, link, calls>>

Units == {0, 1}
Cec   == port # "spark"

-----------------------------------------------------------------------------
(* The calls of cVideo, on a record of the flag and the unit *)

Closed == [fd |-> FALSE, fdd |-> FALSE, playstate |-> "STOPPED", blank_mode |-> FALSE,
           standby |-> FALSE, source |-> "demux", run |-> FALSE, picture |-> FALSE]

Select(r, s) == IF r.v.fd THEN [r EXCEPT !.v.source = s] ELSE r
Run(r, on)   == IF r.v.fd THEN [r EXCEPT !.v.run = on, !.v.picture = on /\ @] ELSE r

openDevice(r, opens) ==
  IF r.v.fd THEN r ELSE [r EXCEPT !.v.fd = opens, !.v.playstate = "STOPPED"]

\* Stop does nothing while a still picture is shown, by whatever unit.
Stop(r, blank) ==
  IF r.still THEN r
  ELSE Run([r EXCEPT !.v.playstate = IF blank THEN "STOPPED" ELSE "FREEZED",
                     !.v.blank_mode = blank], FALSE)

\* Start of the boxes with and without a blank mode
Start(r) ==
  LET s == IF r.still THEN Stop([r EXCEPT !.still = FALSE], TRUE) ELSE r
      t == Run(Select([s EXCEPT !.v.playstate = "PLAYING"], "demux"), TRUE)
  IN  [t EXCEPT !.v.blank_mode = FALSE, !.v.picture = FALSE]

\* A decoder that is closed has stopped.  The spark boxes start it before.
closeDevice(r) ==
  LET s == IF port = "spark" THEN Start(r) ELSE r
  IN  [s EXCEPT !.v.fd = FALSE, !.v.playstate = "STOPPED", !.v.source = "demux",
                !.v.run = FALSE, !.v.picture = FALSE]

setBlank(r, enable) == IF enable THEN Stop(Run(r, TRUE), TRUE) ELSE Start(Run(r, TRUE))

\* setBlank of the spark boxes takes no notice of its argument.
setBlank_spark(r) == Stop(Run(r, TRUE), TRUE)

open_AVInput_Device(r) ==
  IF r.v.fdd THEN r ELSE [Run(Select(r, "hdmi"), TRUE) EXCEPT !.v.fdd = TRUE]

close_AVInput_Device(r) ==
  [(IF r.v.fdd THEN Select(Run(r, FALSE), "demux") ELSE r) EXCEPT !.v.fdd = FALSE]

\* Slip: the input is switched to without blanking the picture first.
setAVInput_noBlank(r, aux) ==
  IF aux THEN open_AVInput_Device(r)
  ELSE IF r.v.fdd THEN setBlank(close_AVInput_Device(r), FALSE) ELSE r

setAVInput(r, aux) ==
  IF aux THEN open_AVInput_Device(setBlank(r, TRUE))
  ELSE IF r.v.fdd THEN setBlank(close_AVInput_Device(r), FALSE) ELSE r

\* A mode that is set already is left alone.
SetVideoSystem(r)       == IF r.v.playstate = "PLAYING" THEN Start(Stop(r, TRUE)) ELSE r
SetVideoSystem_spark(r) == SetVideoSystem(r)

\* The picture as it is written to the decoder: what each stage leaves when it fails.
\* write_frame encodes it; decode_frame decodes and scales it; the end code follows whenever
\* a packet was read.
Stages == <<"input", "codec", "packet", "decoder", "scaler", "encoder">>
write_frame(fails)    == IF fails = "encoder" THEN <<>> ELSE <<"header", "frame">>
decode_frame(fails)   == IF fails \in {"decoder", "scaler"} THEN <<>> ELSE write_frame(fails)
open_codec(fails)     == fails # "codec"
image_to_mpeg2(fails) ==
  IF fails \in {"input", "packet"} \/ ~open_codec(fails) THEN <<>>
  ELSE decode_frame(fails) \o <<"endcode">>
HasFrame(written) == \E i \in 1 .. Len(written) : written[i] = "frame"

\* Slip: the flag is set before the device is closed.
ShowPicture_spark_early(r, opens, fails, memory) ==
  LET s == openDevice(closeDevice([r EXCEPT !.still = TRUE]), opens)
  IN  IF r.v.standby \/ ~r.v.fd \/ image_to_mpeg2(fails) = <<>> THEN r
      ELSE IF ~s.v.fd \/ ~memory THEN s
      ELSE [s EXCEPT !.v.source = "demux", !.v.run = TRUE,
                     !.v.picture = HasFrame(image_to_mpeg2(fails))]

\* ShowPicture of the spark boxes goes by a file; without memory to read it into it returns
\* with the flag set.
ShowPicture_spark(r, opens, fails, memory) ==
  LET s == openDevice(closeDevice(r), opens)
  IN  IF r.v.standby \/ ~r.v.fd \/ image_to_mpeg2(fails) = <<>> THEN r
      ELSE IF ~s.v.fd THEN s
      ELSE IF ~memory THEN [s EXCEPT !.still = TRUE]
      ELSE [s EXCEPT !.still = TRUE, !.v.source = "demux", !.v.run = TRUE,
                     !.v.picture = HasFrame(image_to_mpeg2(fails))]

\* ShowPicture writes to the decoder, which is stopped after; the picture stays.
ShowPicture(r, opens, fails) ==
  LET s == openDevice(closeDevice(r), opens)
  IN  IF r.v.standby \/ ~r.v.fd THEN r
      ELSE IF ~s.v.fd THEN s
      ELSE [s EXCEPT !.still = TRUE, !.v.source = "demux", !.v.run = FALSE,
                     !.v.picture = HasFrame(image_to_mpeg2(fails))]

StopPicture(r, opens)  == openDevice(closeDevice(Stop([r EXCEPT !.still = FALSE], TRUE)), opens)
StopPicture_spark(r)   == Stop([r EXCEPT !.still = FALSE], TRUE)
Sleep(r, on, opens) ==
  [(IF on THEN closeDevice(r) ELSE openDevice(r, opens)) EXCEPT !.v.standby = on]

-----------------------------------------------------------------------------
(* The CEC link *)

Message(op, on, key) == [op |-> op, on |-> on, key |-> key]
Gone  == Message("gone", FALSE, "none")
Waits == Message("waits", FALSE, "none")

Post(b, m) == IF Len(b) < MaxBus THEN Append(b, m) ELSE b

\* SendCECMessage of the standby message and of the question for the power status: the
\* television answers the second.
Asked(b, on) == Post(b, Message("REPORT_POWER_STATUS", on, "none"))

Lost(b) == \E i \in 1 .. Len(b) : b[i].op \in {"PRESSED", "RELEASE"}

\* Slip: the state is noted when all was sent.
SetCECState_late(state) ==
  /\ IF cec.standby_cec_activ /\ state /\ cec.open
       THEN tv' = [tv EXCEPT !.on = FALSE] /\ bus' = Asked(bus, FALSE)
       ELSE UNCHANGED <<tv, bus>>
  /\ IF cec.autoview_cec_activ /\ ~state
       THEN waking' = 0 /\ UNCHANGED cec
       ELSE cec' = [cec EXCEPT !.standby = state] /\ UNCHANGED waking

SetCECState(state) ==
  /\ cec' = [cec EXCEPT !.standby = state]
  /\ IF cec.standby_cec_activ /\ state /\ cec.open
       THEN tv' = [tv EXCEPT !.on = FALSE] /\ bus' = Asked(bus, FALSE)
       ELSE UNCHANGED <<tv, bus>>
  /\ waking' = IF cec.autoview_cec_activ /\ ~state THEN 0 ELSE waking

\* The boxes of port "vu" tell the television until it says that it is on; others once.
TriesAgain == IF port = "vu" THEN cec.tv_off /\ waking < MaxTries ELSE waking = 0

\* One round of the rest of SetCECState: the boxes of port "vu" go on until the television
\* says that it is on.
WakeTV ==
  /\ waking >= 0 /\ TriesAgain
  /\ IF cec.open THEN tv' = [tv EXCEPT !.on = TRUE] /\ bus' = Asked(bus, TRUE)
                 ELSE UNCHANGED <<tv, bus>>
  /\ waking' = waking + 1
  /\ UNCHANGED <<port, video, cec, rx, pressedkey, keys, missed, woken, told, calls>>

\* The active source, the name and the question for the audio status end it.  A link that was
\* given a mode starts its thread after.
WakeEnds ==
  /\ waking >= 0 /\ ~TriesAgain
  /\ waking' = -1
  /\ cec' = [cec EXCEPT !.standby = FALSE, !.running = @ \/ cec.open]
  /\ rx' = IF cec.open /\ ~cec.running THEN Waits ELSE rx
  /\ UNCHANGED <<port, video, pressedkey, keys, bus, tv, missed, woken, told, calls>>

\* A stopped thread is cancelled wherever it is; the device is closed under it.
StopLink ==
  /\ cec' = [cec EXCEPT !.running = FALSE, !.open = FALSE]
  /\ rx' = Gone /\ bus' = <<>>
  /\ missed' = (missed \/ tv.key # "none" \/ keys # {} \/ Lost(bus))

\* SetCECMode: off stops a thread that runs; on opens the device and wakes the television.
SetCECMode(on, opens) ==
  /\ IF ~on
       THEN /\ IF cec.running THEN StopLink ELSE UNCHANGED <<cec, rx, bus, missed>>
            /\ UNCHANGED <<waking, woken>>
       ELSE LET open == cec.open \/ opens
                view == open /\ cec.autoview_cec_activ
            IN  /\ cec' = [cec EXCEPT !.open = open, !.standby = @ /\ ~view,
                                      !.running = @ \/ (open /\ ~view)]
                /\ rx' = IF open /\ ~view /\ ~cec.running THEN Waits ELSE rx
                /\ waking' = IF view THEN 0 ELSE waking
                /\ woken' = (woken \/ (view /\ units[0].standby))
                /\ UNCHANGED <<bus, missed>>
  /\ UNCHANGED <<pressedkey, keys, tv, told>>

\* epoll_wait and the read of a message
ReceiveBegin ==
  /\ rx = Waits /\ bus # <<>>
  /\ rx' = Head(bus) /\ bus' = Tail(bus)
  /\ UNCHANGED <<port, video, cec, pressedkey, keys, tv, waking, missed, woken, told, calls>>

\* Slip: the key that was pressed is forgotten when Receive returns.
Key_local(m) == IF m.op = "PRESSED" THEN m.key ELSE "ok"

\* The key of a message: a release names the last that was pressed.
Key(m) == IF m.op = "PRESSED" THEN m.key ELSE pressedkey

\* handleCode: the event is lost when the input device does not open.
handleCode(k, pressed) ==
  \E opens \in BOOLEAN :
    /\ keys' = IF ~opens THEN keys ELSE IF pressed THEN keys \cup {k} ELSE keys \ {k}
    /\ missed' = (missed \/ ~opens)

\* Receive
Receive ==
  /\ rx \notin {Gone, Waits}
  /\ rx' = Waits
  /\ \/ /\ rx.op \in {"PRESSED", "RELEASE"}
        /\ pressedkey' = Key(rx)
        /\ handleCode(Key(rx), rx.op = "PRESSED")
        /\ UNCHANGED <<cec, told>>
     \/ /\ rx.op \in {"REPORT_POWER_STATUS", "STANDBY"}
        /\ cec' = [cec EXCEPT !.tv_off = ~rx.on]
        /\ UNCHANGED <<pressedkey, keys, missed, told>>
     \/ /\ rx.op = "GIVE_DEVICE_POWER_STATUS"
        /\ told' = IF cec.standby THEN "STANDBY" ELSE "ON"
        /\ UNCHANGED <<pressedkey, keys, missed, cec>>
  /\ UNCHANGED <<port, video, bus, tv, waking, woken, calls>>

-----------------------------------------------------------------------------
(* The television and its remote control; it sends to a device that is open. *)

Television ==
  /\ cec.open /\ Len(bus) < MaxBus
  /\ \/ /\ \E k \in Keys : /\ bus' = Append(bus, Message("PRESSED", TRUE, k))
                           /\ tv' = [tv EXCEPT !.key = k]
        /\ missed' = (missed \/ tv.key # "none")
     \/ /\ tv.key # "none"
        /\ bus' = Append(bus, Message("RELEASE", TRUE, "none"))
        /\ tv' = [tv EXCEPT !.key = "none"] /\ UNCHANGED missed
     \/ /\ tv.on /\ tv' = [tv EXCEPT !.on = FALSE]
        /\ bus' = Append(bus, Message("STANDBY", FALSE, "none"))
        /\ UNCHANGED missed
     \/ /\ bus' = Append(bus, Message("GIVE_DEVICE_POWER_STATUS", TRUE, "none"))
        /\ UNCHANGED <<tv, missed>>
  /\ UNCHANGED <<port, video, cec, rx, pressedkey, keys, waking, woken, told, calls>>

-----------------------------------------------------------------------------
(* The application *)

Called == calls < MaxCalls /\ waking = -1 /\ calls' = calls + 1 /\ UNCHANGED port
At(u)  == [still |-> stillpicture, v |-> units[u]]

\* The picture of the other unit is still up when the flag goes.
Commit(u, r) ==
  /\ stillpicture' = r.still
  /\ units' = [units EXCEPT ![u] = r.v]
  /\ cleared' = (units'[0].picture /\ (cleared \/ (stillpicture /\ ~r.still)))

\* A bound: the link is opened while the units are as they were made, and while it is open
\* the calls that do not touch it are left out.
AtRest == units[1] = Closed /\ units[0] \in {[Closed EXCEPT !.fd = o, !.standby = b] : o, b \in BOOLEAN}

Do(u, r) == Called /\ ~cec.open /\ Commit(u, r) /\ UNCHANGED link

VideoCall ==
  \E u \in Units :
    \/ Do(u, Start(At(u)))
    \/ \E blank \in BOOLEAN : Do(u, Stop(At(u), blank))
    \/ IF port = "spark" THEN Do(u, setBlank_spark(At(u)))
                         ELSE \E on \in BOOLEAN : Do(u, setBlank(At(u), on))
    \/ port # "spark" /\ \E aux \in BOOLEAN : Do(u, setAVInput(At(u), aux))
    \/ Do(u, IF port = "spark" THEN SetVideoSystem_spark(At(u)) ELSE SetVideoSystem(At(u)))

\* Pictures are shown on the main unit.
PictureCall ==
  \E opens \in BOOLEAN :
    \/ \E i \in DOMAIN Stages \cup {0}, memory \in BOOLEAN :
         LET fails == IF i = 0 THEN "none" ELSE Stages[i]
         IN  Do(0, IF port = "spark" THEN ShowPicture_spark(At(0), opens, fails, memory)
                                     ELSE ShowPicture(At(0), opens, fails))
    \/ Do(0, IF port = "spark" THEN StopPicture_spark(At(0)) ELSE StopPicture(At(0), opens))

\* The picture in picture is made and deleted.
PipCall ==
  \/ ~units[1].fd /\ \E opens \in BOOLEAN :
       Do(1, openDevice([still |-> stillpicture, v |-> Closed], opens))
  \/ units[1].fd /\ Do(1, closeDevice(At(1)))

Standby(on) ==
  /\ Called /\ units[0].standby # on
  /\ \E opens \in BOOLEAN : Commit(0, Sleep(At(0), on, opens))
  /\ IF Cec THEN /\ SetCECState(on) /\ woken' = FALSE
                 /\ UNCHANGED <<rx, pressedkey, keys, missed, told>>
            ELSE UNCHANGED link

CecCall ==
  /\ Called /\ Cec /\ UNCHANGED video
  /\ \E on, opens \in BOOLEAN : (on => AtRest) /\ SetCECMode(on, opens)

Init ==
  /\ port \in Ports /\ stillpicture = FALSE
  /\ units = [u \in Units |-> IF u = 0 THEN [Closed EXCEPT !.fd = TRUE] ELSE Closed]
  /\ \E a, b \in BOOLEAN :
       cec = [open |-> FALSE, running |-> FALSE, standby |-> FALSE, tv_off |-> TRUE,
              autoview_cec_activ |-> a, standby_cec_activ |-> b]
  /\ rx = Gone /\ pressedkey = "ok" /\ keys = {} /\ bus = <<>>
  /\ tv = [on |-> TRUE, key |-> "none"]
  /\ waking = -1 /\ calls = 0 /\ told = "none"
  /\ cleared = FALSE /\ missed = FALSE /\ woken = FALSE

Next ==
  \/ VideoCall \/ PictureCall \/ PipCall \/ \E on \in BOOLEAN : Standby(on)
  \/ CecCall \/ WakeTV \/ WakeEnds \/ ReceiveBegin \/ Receive \/ Television

Spec == Init /\ [][Next]_vars

-----------------------------------------------------------------------------
(* A unit that says it plays has a decoder that runs, on the demultiplexer *)
(* and not on the AV input (Start, setAVInput, SetVideoSystem); unless the *)
(* other unit was switched to the AV input under a still picture, which    *)
(* keeps it from being stopped first.                                      *)
PlayingUnitDecodes ==
  \A u \in Units : units[u].playstate = "PLAYING" /\ units[u].fd
                     => /\ units[u].run
                        /\ units[u].source = "demux" \/ (u = 1 /\ units[u].fdd)

(* A picture that is on the screen has the flag that keeps Stop from       *)
(* taking it away, unless a Start of the other unit reset it (ShowPicture, *)
(* whose closing of the device calls Start on the spark boxes).            *)
StillIsMarked == units[0].picture => stillpicture \/ cleared

(* When all was received, the keys that are down on the box are the one    *)
(* that is held on the television's remote control, unless an event was    *)
(* lost or two keys were down at once (Receive, handleCode).               *)
KeysFollowRemote ==
  rx = Waits /\ bus = <<>> /\ ~missed => keys = {tv.key} \ {"none"}

(* The power status that the television is told is the one the box is in,  *)
(* whenever it asks (Standby, SetCECState, Receive), unless a new CEC mode *)
(* took the box for being on.                                              *)
TellsTrue == told' # told => woken \/ told' = IF units[0].standby THEN "STANDBY" ELSE "ON"
StatusIsTrue == [][TellsTrue]_vars
===============================================================================
