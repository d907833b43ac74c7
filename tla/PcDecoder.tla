------------------------------- MODULE PcDecoder -------------------------------
(***************************************************************************)
(* The decoders of the PC: cVideo and cAudio of libgeneric-pc.  Start makes *)
(* a thread that decodes until Stop takes back thread_running, which the    *)
(* thread sets itself; decoded pictures go through a ring of buffers to     *)
(* the thread of the window; ShowPicture puts a still picture into the      *)
(* same ring while the decoder goes on.  The two decoders share nothing, so *)
(* a behaviour is about one of them.                                        *)
(***************************************************************************)
EXTENDS Integers, FiniteSets

CONSTANTS VDEC_MAXBUFS,  \* buffers of the ring
          Threads,       \* bound: decoder threads at a time
          MaxCalls       \* bound: calls of the application

Assumptions == VDEC_MAXBUFS \in Nat \ {0, 1}

VARIABLES
  kind,            \* "video" or "audio"
  app,             \* where the application's call is
  thread,          \* the decoder threads: a second one where the first was not seen
  tid,             \* the thread join waits for
  thread_running,  \* of audio: thread_started
  ring,            \* buf_num, buf_in, buf_out
  buffers,         \* what each buffer holds
  buf_m, still_m,  \* who holds the mutexes
  f,               \* the buffer the holder of buf_m writes or takes
  stillpicture,
  screen,          \* the window's thread and the buffer it draws
  calls,
  history          \* what went wrong on the way, for the properties

vars == <<kind, app, thread, tid, thread_running, ring, buffers, buf_m, still_m, f, stillpicture, screen,
          calls, history>>

Next1(i) == (i + 1) % VDEC_MAXBUFS
Waiting == {buffers[(ring.out + i) % VDEC_MAXBUFS] : i \in 0 .. ring.num - 1}
Empty == [num |-> 0, in |-> 0, out |-> 0]

\* The ring is emptied without buf_m, whoever holds it or draws one of its buffers;
\* what becomes of a picture that waits is for the caller to say.
EmptyRing(picture) ==
  /\ ring' = Empty
  /\ screen' = [screen EXCEPT !.pc = IF @ = "draws" THEN "drawsOld" ELSE @]
  /\ history' = [history EXCEPT !.raced = @ \/ buf_m # "free", !.picture = picture]

Unmarked == {t \in Threads : thread[t] \in {"born", "reset"}}
Alive == {t \in Threads : thread[t] \notin {"none", "ended"}}
Missed == IF kind = "audio" THEN Alive ELSE Unmarked   \* what a Start passes over
Goes(t, to) == thread' = [thread EXCEPT ![t] = to]

-----------------------------------------------------------------------------
(* Start and Stop *)

\* Slip: a thread is made whether one runs or not.
StartTest_not == TRUE

StartTest == kind = "audio" \/ ~thread_running

Start ==
  /\ app = "idle"
  /\ IF StartTest
       THEN \E t \in Threads :
              /\ thread[t] \in {"none", "ended"}
              /\ Goes(t, "born") /\ tid' = t
              /\ history' = [history EXCEPT !.loose = @ \/ Missed # {}]
       ELSE UNCHANGED <<thread, tid, history>>
  /\ UNCHANGED <<kind, app, thread_running, ring, buffers, buf_m, still_m, f, stillpicture, screen>>

Stop ==
  /\ app = "idle"
  /\ history' = [history EXCEPT !.loose = @ \/ Unmarked # {}]
  /\ IF thread_running THEN thread_running' = FALSE /\ app' = "join"
     ELSE UNCHANGED <<thread_running, app>>
  /\ UNCHANGED <<kind, thread, tid, ring, buffers, buf_m, still_m, f, stillpicture, screen>>

Join ==
  /\ app = "join" /\ thread[tid] = "ended" /\ app' = "idle"
  /\ Goes(tid, "none")
  /\ UNCHANGED <<kind, tid, thread_running, ring, buffers, buf_m, still_m, f, stillpicture, screen, calls, history>>

-----------------------------------------------------------------------------
(* The ring *)

TakesBuffer(who) == buf_m = "free" /\ buf_m' = who

\* Slip: the oldest is kept when the ring is full.
Put_full(what) ==
  /\ buffers' = [buffers EXCEPT ![f] = what]
  /\ ring' = [ring EXCEPT !.in = Next1(@), !.num = IF @ = VDEC_MAXBUFS - 1 THEN @ ELSE @ + 1]

\* The oldest is given up when the ring is full.
Put(what) ==
  /\ buffers' = [buffers EXCEPT ![f] = what]
  /\ LET full == ring.num + 1 > VDEC_MAXBUFS - 1
     IN  ring' = [in  |-> Next1(ring.in),
                  num |-> IF full THEN ring.num ELSE ring.num + 1,
                  out |-> IF full THEN Next1(ring.out) ELSE ring.out]

\* getDecBuf: the buffer is given out, and the mutex with it goes back.
getDecBuf ==
  \/ /\ screen.pc = "idle" /\ ring.num # 0 /\ TakesBuffer("screen") /\ f' = ring.out
     /\ screen' = [screen EXCEPT !.pc = "takes"]
     /\ UNCHANGED <<ring, history>>
  \/ /\ screen.pc = "takes" /\ buf_m' = "free" /\ f' = 0
     /\ screen' = [pc |-> "draws", buffer |-> f]
     /\ ring' = [ring EXCEPT !.num = @ - 1, !.out = Next1(@)]
     /\ history' = [history EXCEPT !.picture = IF buffers[f] = "picture" THEN "none" ELSE @]

Drawn == screen.pc \in {"draws", "drawsOld"} /\ screen' = [pc |-> "idle", buffer |-> 0]

Display ==
  /\ \/ getDecBuf
     \/ Drawn /\ UNCHANGED <<buf_m, f, ring, history>>
  /\ UNCHANGED <<kind, app, thread, tid, thread_running, buffers, still_m, stillpicture, calls>>

-----------------------------------------------------------------------------
(* Still pictures *)

ShowPicture ==
  /\ app = "idle" /\ kind = "video" /\ still_m = "free" /\ app' = "loads"
  /\ stillpicture' = TRUE /\ EmptyRing("none")
  /\ UNCHANGED <<kind, thread, tid, thread_running, buffers, buf_m, still_m, f>>

\* A picture that cannot be read leaves stillpicture set.
Loads ==
  \/ /\ app = "loads" /\ app' = "idle" /\ UNCHANGED <<buf_m, f, ring, buffers, history>>
  \/ /\ app = "loads" /\ TakesBuffer("app") /\ f' = ring.in /\ app' = "puts"
     /\ UNCHANGED <<ring, buffers, history>>
  \/ /\ app = "puts" /\ app' = "idle" /\ Put("picture") /\ buf_m' = "free" /\ f' = 0
     /\ history' = [history EXCEPT !.picture = "waits"]

StopPicture ==
  /\ app = "idle" /\ kind = "video" /\ still_m = "free" /\ stillpicture' = FALSE
  /\ history' = [history EXCEPT !.picture = "none"]
  /\ UNCHANGED <<kind, app, thread, tid, thread_running, ring, buffers, buf_m, still_m, f, screen>>

AppStep ==
  \/ Join
  \/ Loads /\ UNCHANGED <<kind, thread, tid, thread_running, still_m, stillpicture, screen, calls>>

Calls == /\ calls < MaxCalls /\ calls' = calls + 1
         /\ Start \/ Stop \/ ShowPicture \/ StopPicture

-----------------------------------------------------------------------------
(* The decoder thread *)

Rest == UNCHANGED <<kind, app, tid, calls>>

\* The ring is emptied before the thread says that it is there.
Begin(t) ==
  /\ \/ /\ thread[t] = "born" /\ Goes(t, "reset") /\ UNCHANGED thread_running
        /\ IF kind = "audio" THEN UNCHANGED <<ring, history, screen>> ELSE EmptyRing("none")
     \/ /\ thread[t] = "reset" /\ Goes(t, "opens") /\ thread_running' = TRUE
        /\ UNCHANGED <<ring, history, screen>>
  /\ UNCHANGED <<buffers, buf_m, still_m, f, stillpicture>> /\ Rest

\* The input or the codec cannot be opened: the thread ends and stays marked as running.
Opens(t) ==
  /\ thread[t] = "opens" /\ (Goes(t, "out") \/ Goes(t, "decodes"))
  /\ UNCHANGED <<thread_running, ring, history, screen, buffers, buf_m, still_m, f, stillpicture>> /\ Rest

\* A read that fails is tried again.
Decodes(t) ==
  /\ thread[t] = "decodes" /\ kind = "video" /\ Goes(t, IF thread_running THEN "frame" ELSE "out")
  /\ UNCHANGED <<thread_running, ring, history, screen, buffers, buf_m, still_m, f, stillpicture>> /\ Rest

\* The audio thread ends when it is told to and with a read that fails.
Plays(t) ==
  /\ thread[t] = "decodes" /\ kind = "audio" /\ Goes(t, "out")
  /\ UNCHANGED <<thread_running, ring, history, screen, buffers, buf_m, still_m, f, stillpicture>> /\ Rest

\* Slip: stillpicture is read before its mutex is taken.
Frame_early(t) ==
  /\ \/ thread[t] = "frame" /\ Goes(t, IF stillpicture THEN "decodes" ELSE "live") /\ UNCHANGED still_m
     \/ thread[t] = "live" /\ still_m = "free" /\ still_m' = "thread" /\ Goes(t, "puts")
  /\ UNCHANGED <<thread_running, ring, history, screen, buffers, buf_m, f, stillpicture>> /\ Rest

Frame(t) ==
  /\ thread[t] = "frame" /\ still_m = "free"
  /\ IF stillpicture THEN Goes(t, "decodes") /\ UNCHANGED still_m
     ELSE Goes(t, "puts") /\ still_m' = "thread"
  /\ UNCHANGED <<thread_running, ring, history, screen, buffers, buf_m, f, stillpicture>> /\ Rest

PutFrame(t) ==
  /\ \/ /\ thread[t] = "puts" /\ TakesBuffer("thread") /\ f' = ring.in /\ Goes(t, "writes")
        /\ UNCHANGED <<ring, buffers, still_m>>
     \/ /\ thread[t] = "writes" /\ Put("live") /\ Goes(t, "decodes")
        /\ buf_m' = "free" /\ still_m' = "free" /\ f' = 0
  /\ UNCHANGED <<thread_running, history, screen, stillpicture>> /\ Rest

Out(t) ==
  /\ thread[t] = "out" /\ still_m = "free" /\ Goes(t, "ended")
  /\ IF kind = "video" /\ ~stillpicture THEN EmptyRing(history.picture) ELSE UNCHANGED <<ring, history, screen>>
  /\ UNCHANGED <<thread_running, buffers, buf_m, still_m, f, stillpicture>> /\ Rest

Run(t) == Begin(t) \/ Opens(t) \/ Decodes(t) \/ Plays(t) \/ Frame(t) \/ PutFrame(t) \/ Out(t)

Init ==
  /\ kind \in {"video", "audio"}
  /\ app = "idle" /\ thread = [t \in Threads |-> "none"] /\ tid = 1 /\ thread_running = FALSE
  /\ ring = Empty /\ buffers = [i \in 0 .. VDEC_MAXBUFS - 1 |-> "none"]
  /\ buf_m = "free" /\ still_m = "free" /\ f = 0 /\ stillpicture = FALSE
  /\ screen = [pc |-> "idle", buffer |-> 0] /\ calls = 0
  /\ history = [raced |-> FALSE, loose |-> FALSE, picture |-> "none"]

\* Bound: a ring that was emptied in the middle of another's turn ends the model.
Next == ~history.raced /\ (Calls \/ AppStep \/ Display \/ \E t \in Threads : Run(t))

\* The threads run on, and the mutexes are not fair.
Fairness == SF_vars(AppStep) /\ SF_vars(Display) /\ \A t \in Threads : SF_vars(Run(t))
Spec == Init /\ [][Next]_vars
FairSpec == Spec /\ Fairness

-----------------------------------------------------------------------------
(* The counters of the ring agree, and a buffer that is being drawn is     *)
(* written over only when the ring is full or was emptied (getDecBuf gives *)
(* out a buffer and no longer guards it); unless the ring was emptied in   *)
(* the middle of another thread's turn, which buf_m does not prevent:      *)
(* buf_num may then become -1, and getDecBuf gives out what is not there.  *)
RingIsSound ==
  ~history.raced =>
    /\ ring.num \in 0 .. VDEC_MAXBUFS - 1
    /\ ring.in = (ring.out + ring.num) % VDEC_MAXBUFS
    /\ screen.pc = "draws" /\ (app = "puts" \/ \E t \in Threads : thread[t] = "writes") /\ f = screen.buffer
         => ring.num = VDEC_MAXBUFS - 1

(* While a still picture is shown nothing but the picture waits, and it    *)
(* does wait until it is drawn, even when the decoder ends meanwhile; only *)
(* a decoder that starts meanwhile throws it away.                         *)
PictureStays ==
  stillpicture /\ ~history.raced =>
    /\ Waiting \subseteq {"picture"}
    /\ history.picture = "waits" => ring.num > 0

(* One thread of a decoder is there at a time, and none after Stop, unless *)
(* Start or Stop came before the last one had set thread_running, or, of   *)
(* audio, Start came twice.                                                *)
OneDecoder ==
  ~history.loose => /\ Cardinality(Alive) <= 1
                    /\ app = "idle" /\ ~thread_running => Alive \subseteq Unmarked

(* Stop comes back.  A thread that was started unseen sets thread_running  *)
(* again, and the one that is waited for may go on.                        *)
StopAsked == app = "join"
StopDone  == app # "join" \/ history.loose
StopComesBack == StopAsked ~> StopDone
===============================================================================
