------------------------------- MODULE OutputSH4 -------------------------------
(* linuxdvb_sh4.c: what the operations of the output do to the decoder of  *)
(* one track, d as in OutputMipsel.  Neither reset() nor Write take        *)
(* LinuxDVBmutex, and the sound is muted by stopping the audio decoder.    *)
EXTENDS OutputMipsel

\* the speeds are set back to normal
Open(d)  == IF d.open THEN d ELSE [d EXCEPT !.open = TRUE, !.data = 0, !.fast = FALSE]
Close(d) == LinuxDvbClose(d)
Play(d)  == IfOpen(d, Run(d))
Stop(d)  == IfOpen(d, [Halt(Empty(d)) EXCEPT !.fast = FALSE])
Pause(d) == IfOpen(d, Hold(d))

\* nothing ends the fast forward but the driver
Continue(d) == IfOpen(d, [Release(d) EXCEPT !.fast = FALSE])

AudioMute(op, d) == IfOpen(d, IF op = "mute" THEN Halt(d) ELSE Run(d))

\* a held picture stays held
FastForward(t, d) == IF t = "video" THEN IfOpen(d, [d EXCEPT !.fast = TRUE]) ELSE d

SlowMotion(d) == d
AVSync(d)     == d
Clear(d)      == IfOpen(d, Empty(d))
Switch(d)     == IfOpen(d, Run(Empty(Halt(d))))

LockedSh4(op) == Locked(op) /\ op # "reset"

OperationSh4(op, t, d) ==
    CASE op = "open"        -> Open(d)
      [] op = "close"       -> Close(d)
      [] op = "play"        -> Play(d)
      [] op = "stop"        -> Stop(d)
      [] op = "pause"       -> Pause(d)
      [] op = "continue"    -> Continue(d)
      [] op = "fastForward" -> FastForward(t, d)
      [] op = "slowMotion"  -> SlowMotion(d)
      [] op = "avsync"      -> AVSync(d)
      [] op = "clear"       -> Clear(d)
      [] op = "switch"      -> Switch(d)
      [] op \in {"mute", "unmute"} -> AudioMute(op, d)
      [] OTHER              -> d
=============================================================================
