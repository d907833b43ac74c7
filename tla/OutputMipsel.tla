----------------------------- MODULE OutputMipsel -----------------------------
(* linuxdvb_mipsel.c: what the operations of the output do to the decoder  *)
(* of one track.  d is the decoder: open or not, what it does, whether it  *)
(* is in fast forward, and the packets it still has to play.               *)
LOCAL INSTANCE Naturals

\* the driver: FREEZE and PAUSE hold a decoder that plays, CONTINUE releases one that is held
Run(d)    == [d EXCEPT !.state = "playing"]
Hold(d)   == [d EXCEPT !.state = IF @ = "playing" THEN "frozen" ELSE @]
Release(d) == [d EXCEPT !.state = IF @ = "frozen" THEN "playing" ELSE @]
Empty(d)  == [d EXCEPT !.data = 0]
Halt(d)   == [d EXCEPT !.state = "stopped"]

IfOpen(d, e) == IF d.open THEN e ELSE d

LinuxDvbOpen(d) == IF d.open THEN d ELSE [d EXCEPT !.open = TRUE, !.data = 0]

\* Stop goes before it, under the mutex of its own
LinuxDvbClose(d) == [d EXCEPT !.open = FALSE, !.state = "stopped", !.data = 0, !.fast = FALSE]

\* only the video is cleared once it plays
LinuxDvbPlay(t, d) == IfOpen(d, IF t = "video" THEN Empty(Run(d)) ELSE Run(d))

LinuxDvbStop(d) == IfOpen(d, [Halt(Empty(d)) EXCEPT !.fast = FALSE])

LinuxDvbPause(d) == IfOpen(d, Hold(d))

\* Slip: the picture stays in fast forward.
LinuxDvbContinue_fast(t, d, isForwarding) == IfOpen(d, Release(d))

LinuxDvbContinue(t, d, isForwarding) ==
    IfOpen(d, [Release(d) EXCEPT !.fast = @ /\ (t = "audio" \/ isForwarding)])

LinuxDvbAudioMute(d) == d

\* of the video only; a held picture moves on
LinuxDvbFastForward(t, d) ==
    IF t = "video" THEN IfOpen(d, [Release(d) EXCEPT !.fast = TRUE]) ELSE d

LinuxDvbSlowMotion(d) == d
LinuxDvbAVSync(d)     == d

LinuxDvbClear(d) == IfOpen(d, Empty(d))

\* another audio track: a held decoder plays afterwards
LinuxDvbSwitch(d) == IfOpen(d, Run(Empty(Halt(d))))

\* the operations under LinuxDVBmutex; reset() is one of them here
Locked(op) == op \in {"stop", "close", "pause", "fastForward", "slowMotion", "avsync", "clear", "switch", "reset"}

Operation(op, t, d, isForwarding) ==
    CASE op = "open"        -> LinuxDvbOpen(d)
      [] op = "close"       -> LinuxDvbClose(d)
      [] op = "play"        -> LinuxDvbPlay(t, d)
      [] op = "stop"        -> LinuxDvbStop(d)
      [] op = "pause"       -> LinuxDvbPause(d)
      [] op = "continue"    -> LinuxDvbContinue(t, d, isForwarding)
      [] op = "fastForward" -> LinuxDvbFastForward(t, d)
      [] op = "slowMotion"  -> LinuxDvbSlowMotion(d)
      [] op = "avsync"      -> LinuxDvbAVSync(d)
      [] op = "clear"       -> LinuxDvbClear(d)
      [] op = "switch"      -> LinuxDvbSwitch(d)
      [] op \in {"mute", "unmute"} -> LinuxDvbAudioMute(d)
      [] OTHER              -> d
=============================================================================
