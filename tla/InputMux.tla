-------------------------------- MODULE InputMux --------------------------------
(***************************************************************************)
(* The input multiplexer of the spark boxes (libspark/init.cpp): a thread  *)
(* reads the keys of every input device of the box and writes them to the  *)
(* first, nevis_ir, which is the one the application reads.                *)
(*                                                                         *)
(* hal_api_init starts the thread, and opens all devices anew when it is   *)
(* called again; hal_api_exit clears the thread's flag and closes the      *)
(* devices without waiting for it.  The table of devices has no lock.      *)
(*                                                                         *)
(* The kernel's side is as the code meets it: every file of a device gets  *)
(* the device's keys; poll goes on with a file that is closed meanwhile;   *)
(* a device that was pulled out still reports what was not read, and read  *)
(* refuses to hand it over; the number of a file is the least one free.    *)
(***************************************************************************)
EXTENDS Integers, Sequences, FiniteSets, SequencesExt

CONSTANTS Top,      \* the last device; nevis_ir is 0
          Threads,  \* bound: threads that ever run at once
          FdLimit,  \* bound: file numbers
          MaxKeys,  \* bound: keys of a device
          MaxCalls  \* bound: calls of the application, plugs and unplugs

Assumptions ==
  /\ Top \in Nat /\ FdLimit \in Nat /\ FdLimit > Top + 1
  /\ MaxKeys \in Nat /\ MaxCalls \in Nat

VARIABLES
  initialized,
  inmux_thread_running,
  fd,       \* input_device[i].fd
  app,      \* the application: where it is, its i, and the number it has opened
  mux,      \* the threads
  file,     \* what is open under a number
  plugged,  \* devices the box has
  pressed,  \* keys each device has sent
  written,  \* of each device, keys that nevis_ir was given
  calls,
  two,      \* history: a thread was started while one was left
  again,    \* history: a key came when two files of its device were open, into both
  broken    \* history: since the start something was closed, reopened or pulled out

flags   == <<initialized, inmux_thread_running>>
history == <<two, again, broken>>
vars    == <<flags, fd, app, mux, file, plugged, pressed, written, calls, history>>

Devices == 0 .. Top
Panel   == 1 .. Top   \* the devices but nevis_ir
Fds     == 1 .. FdLimit
NoFile  == [dev |-> -1, live |-> FALSE, queue |-> <<>>]
Idle    == [at |-> "idle", i |-> 0, n |-> 0]
Ended   == [at |-> "ended", fds |-> {}, hand |-> <<>>]

-----------------------------------------------------------------------------
(* The kernel *)

Free == {n \in Fds : file[n].dev = -1}
Least(S) == CHOOSE n \in S : \A m \in S : n <= m
Opened(d) == [dev |-> d, live |-> TRUE, queue |-> <<>>]

\* A poll goes on with the file it began with when its number is closed or taken over.
Forget(n, threads) ==
  [t \in Threads |-> [threads[t] EXCEPT !.fds =
     {[e EXCEPT !.kept = @ /\ e.no # n] : e \in threads[t].fds}]]

Press(d) ==
  /\ d \in plugged /\ pressed[d] < MaxKeys
  /\ pressed' = [pressed EXCEPT ![d] = @ + 1]
  /\ file' = [n \in Fds |-> IF file[n].dev = d /\ file[n].live
                              THEN [file[n] EXCEPT !.queue = Append(@, <<d, pressed'[d]>>)]
                              ELSE file[n]]
  /\ again' = (again \/ \E n, m \in Fds : /\ n # m /\ file[n].live /\ file[m].live
                                         /\ file[n].dev = d /\ file[m].dev = d)
  /\ UNCHANGED <<flags, fd, app, mux, plugged, written, calls, two, broken>>

Unplug(d) ==
  /\ calls < MaxCalls /\ calls' = calls + 1 /\ d \in plugged
  /\ plugged' = plugged \ {d}
  /\ file' = [n \in Fds |-> IF file[n].dev = d THEN [file[n] EXCEPT !.live = FALSE] ELSE file[n]]
  /\ broken' = TRUE
  /\ UNCHANGED <<flags, fd, app, mux, pressed, written, two, again>>

Plug(d) ==
  /\ d \notin plugged
  /\ plugged' = plugged \cup {d}
  /\ UNCHANGED <<flags, fd, app, mux, file, pressed, written, calls, history>>

-----------------------------------------------------------------------------
(* The application *)

Calls == app.at = "idle" /\ calls < MaxCalls /\ calls' = calls + 1
Alive(t) == mux[t].at # "ended"

\* hal_api_init the first time, and start_inmux_thread: nevis_ir must open.
hal_api_init ==
  /\ Calls /\ ~initialized /\ initialized' = TRUE
  /\ Free # {}
  /\ \E opens, creates \in BOOLEAN :
       /\ fd' = [fd EXCEPT ![0] = IF opens THEN Least(Free) ELSE -1]
       /\ file' = IF opens THEN [file EXCEPT ![Least(Free)] = Opened(0)] ELSE file
       /\ IF opens /\ creates
            THEN \E t \in Threads : /\ ~Alive(t) /\ mux' = [mux EXCEPT ![t].at = "begin"]
                                    /\ UNCHANGED inmux_thread_running
            ELSE /\ inmux_thread_running' = (inmux_thread_running /\ ~opens)
                 /\ UNCHANGED mux
       /\ broken' = (~opens \/ \E d \in Panel : fd[d] > -1)
  /\ two' = (two \/ \E t \in Threads : Alive(t))
  /\ written' = [d \in Panel |-> <<>>]
  /\ UNCHANGED <<app, plugged, pressed, again>>

\* hal_api_init again: reopen_input_devices.
InitAgain ==
  /\ Calls /\ initialized
  /\ app' = [Idle EXCEPT !.at = "reopen"] /\ broken' = TRUE
  /\ UNCHANGED <<flags, fd, mux, file, plugged, pressed, written, two, again>>

\* hal_api_exit: stop_inmux_thread, which joins nobody, then close_input_devices.
hal_api_exit ==
  /\ Calls /\ initialized
  /\ inmux_thread_running' = FALSE
  /\ app' = [Idle EXCEPT !.at = "exit"] /\ broken' = TRUE
  /\ UNCHANGED <<initialized, fd, mux, file, plugged, pressed, written, two, again>>

\* The next device, or the end of the loop.
Loops(at) == app' = IF app.i < Top THEN [Idle EXCEPT !.at = at, !.i = app.i + 1] ELSE Idle

\* The loop of reopen_input_devices opens a device; when it cannot, it closes what it had.
Reopen ==
  /\ app.at = "reopen"
  /\ IF Free # {} /\ app.i \in plugged \cup {0}
       THEN /\ app' = [app EXCEPT !.at = "assign", !.n = Least(Free)]
            /\ file' = [file EXCEPT ![Least(Free)] = Opened(app.i)]
            /\ UNCHANGED mux
     ELSE IF fd[app.i] > -1
       THEN /\ app' = [app EXCEPT !.at = "drop"]
            /\ file' = [file EXCEPT ![fd[app.i]] = NoFile] /\ mux' = Forget(fd[app.i], mux)
     ELSE Loops("reopen") /\ UNCHANGED <<file, mux>>
  /\ UNCHANGED <<flags, fd, plugged, pressed, written, calls, history>>

\* dup2 puts the new file under the number of the old one.
Assign ==
  /\ app.at = "assign"
  /\ IF fd[app.i] > -1
       THEN /\ file' = [file EXCEPT ![fd[app.i]] = file[app.n], ![app.n] = NoFile]
            /\ mux' = Forget(fd[app.i], mux) /\ UNCHANGED fd
       ELSE fd' = [fd EXCEPT ![app.i] = app.n] /\ UNCHANGED <<file, mux>>
  /\ Loops("reopen")
  /\ UNCHANGED <<flags, plugged, pressed, written, calls, history>>

\* The loop of close_input_devices closes a device.
close_input_devices ==
  /\ app.at = "exit"
  /\ IF fd[app.i] > -1
       THEN /\ file' = [file EXCEPT ![fd[app.i]] = NoFile] /\ mux' = Forget(fd[app.i], mux)
            /\ app' = [app EXCEPT !.at = "closed"]
            /\ UNCHANGED initialized
       ELSE /\ Loops("exit") /\ initialized' = (app.i < Top)
            /\ UNCHANGED <<file, mux>>
  /\ UNCHANGED <<inmux_thread_running, fd, plugged, pressed, written, calls, history>>

\* Then the entry is set to -1, in either loop.
Unset ==
  /\ app.at \in {"drop", "closed"}
  /\ fd' = [fd EXCEPT ![app.i] = -1]
  /\ Loops(IF app.at = "drop" THEN "reopen" ELSE "exit")
  /\ initialized' = (app.at = "drop" \/ app.i < Top)
  /\ UNCHANGED <<inmux_thread_running, mux, file, plugged, pressed, written, calls, history>>

-----------------------------------------------------------------------------
(* inmux_thread *)

At(t, at) == mux[t].at = at
Goes(t, at) == mux' = [mux EXCEPT ![t].at = at]
FilesOnly == UNCHANGED <<flags, app, plugged, pressed, written, calls, history>>

inmux_thread(t) ==
  /\ At(t, "begin") /\ Goes(t, "loop")
  /\ inmux_thread_running' = TRUE
  /\ UNCHANGED <<initialized, fd, app, file, plugged, pressed, written, calls, history>>

LoopEnds(t) ==
  /\ At(t, "loop") /\ ~inmux_thread_running
  /\ Goes(t, "ended")
  /\ UNCHANGED <<flags, fd, app, file, plugged, pressed, written, calls, history>>

\* Slip: a device whose time has come is opened though it is open.
Discover_open(S) == S \cap (plugged \cup {0})

\* open_input_devices: of the closed devices those whose minute is over and that are there.
Discover(S) == {d \in S \cap (plugged \cup {0}) : fd[d] < 0}

\* The devices of C are opened one after the other, as long as there are numbers: as many free
\* ones are below that of d as there are devices before it.
Number(C, d) ==
  {n \in Free : Cardinality({m \in Free : m < n}) = Cardinality({e \in C : e < d})}

\* open_input_devices, and the array of poll_input_devices.
open_input_devices(t) ==
  /\ At(t, "loop") /\ inmux_thread_running
  /\ \E S \in SUBSET Devices :
       LET C   == Discover(S)
           D   == {d \in C : Number(C, d) # {}}
           now == [d \in Devices |-> IF d \in D THEN CHOOSE n \in Number(C, d) : TRUE ELSE fd[d]]
       IN  /\ fd' = now
           /\ file' = [n \in Fds |-> IF \E d \in D : now[d] = n
                                      THEN Opened(CHOOSE d \in D : now[d] = n) ELSE file[n]]
           /\ mux' = [mux EXCEPT ![t].at = "poll",
                                 ![t].fds = {[no |-> now[d], dev |-> d, kept |-> TRUE, rev |-> "none"] :
                                               d \in {d \in Panel : now[d] > -1}}]
  /\ FilesOnly

\* What poll can say of an entry: of a file that was closed meanwhile, anything.
Revents(e) ==
  LET f == file[e.no]
  IN  IF ~e.kept THEN {"none", "in", "hup"}
      ELSE IF f.queue # <<>> THEN {"in"} ELSE IF ~f.live THEN {"hup"} ELSE {"none"}

\* poll ends after a minute with nothing, or, when there is no device to poll, whenever
\* nevis_ir has something.
PollTimesOut(t) ==
  /\ At(t, "poll") /\ \A e \in mux[t].fds : "none" \in Revents(e)
  /\ mux' = [mux EXCEPT ![t].at = "loop", ![t].fds = {}]
  /\ UNCHANGED <<flags, fd, app, file, plugged, pressed, written, calls, history>>

\* A signal: any error but EAGAIN stops the thread.
PollFails(t) ==
  /\ At(t, "poll") /\ mux[t].fds # {}
  /\ mux' = [mux EXCEPT ![t].at = "loop", ![t].fds = {}]
  /\ inmux_thread_running' = FALSE
  /\ UNCHANGED <<initialized, fd, app, file, plugged, pressed, written, calls, history>>

PollReturns(t) ==
  /\ At(t, "poll")
  /\ LET es == mux[t].fds
     IN  \E rev \in [es -> {"none", "in", "hup"}] :
           /\ \A e \in es : rev[e] \in Revents(e)
           /\ \E e \in es : rev[e] # "none"
           /\ mux' = [mux EXCEPT ![t].at = "handle",
                ![t].fds = {[e EXCEPT !.rev = rev[e]] : e \in {e \in es : rev[e] # "none"}}]
  /\ UNCHANGED <<flags, fd, app, file, plugged, pressed, written, calls, history>>

\* The next entry of the array, and the loop that goes on to the one behind it.
Entry(t) == CHOOSE e \in mux[t].fds : \A f \in mux[t].fds : e.dev <= f.dev
Advance(t) ==
  LET rest == mux[t].fds \ {Entry(t)}
  IN  [at |-> IF rest = {} THEN "loop" ELSE "handle", fds |-> rest, hand |-> <<>>]

\* read, of whatever is under the number now, until it fails.
Read(t) ==
  /\ At(t, "handle") /\ Entry(t).rev = "in"
  /\ LET n == Entry(t).no
     IN  IF file[n].live /\ file[n].queue # <<>>
           THEN /\ mux' = [mux EXCEPT ![t].at = "write", ![t].hand = <<Head(file[n].queue)>>]
                /\ file' = [file EXCEPT ![n].queue = Tail(@)]
           ELSE mux' = [mux EXCEPT ![t] = Advance(t)] /\ UNCHANGED file
  /\ UNCHANGED fd
  /\ FilesOnly

\* write to nevis_ir, if it is there.
Write(t) ==
  /\ At(t, "write")
  /\ written' = IF fd[0] > -1 /\ file[fd[0]].dev = 0
                  THEN [written EXCEPT ![mux[t].hand[1][1]] = @ \o mux[t].hand] ELSE written
  /\ mux' = [mux EXCEPT ![t].at = "handle", ![t].hand = <<>>]
  /\ UNCHANGED <<flags, fd, app, file, plugged, pressed, calls, history>>

\* A device that is gone is closed; its number may be another's by now.
HangUp(t) ==
  /\ At(t, "handle") /\ Entry(t).rev = "hup"
  /\ LET n == Entry(t).no
     IN  /\ file' = [file EXCEPT ![n] = NoFile]
         /\ mux' = [Forget(n, mux) EXCEPT ![t].at = "let go"]
  /\ UNCHANGED fd
  /\ FilesOnly

LetGo(t) ==
  /\ At(t, "let go")
  /\ fd' = [fd EXCEPT ![Entry(t).dev] = -1]
  /\ mux' = [mux EXCEPT ![t] = Advance(t)]
  /\ UNCHANGED file
  /\ FilesOnly

-----------------------------------------------------------------------------
Init ==
  /\ initialized = FALSE /\ inmux_thread_running = FALSE
  /\ fd = [d \in Devices |-> -1]
  /\ app = Idle /\ mux = [t \in Threads |-> Ended]
  /\ file = [n \in Fds |-> NoFile]
  /\ plugged = Panel /\ pressed = [d \in Panel |-> 0]
  /\ written = [d \in Panel |-> <<>>] /\ calls = 0
  /\ two = FALSE /\ again = FALSE /\ broken = FALSE

AppStep == Reopen \/ Assign \/ close_input_devices \/ Unset

Mux(t) ==
  \/ inmux_thread(t) \/ LoopEnds(t) \/ open_input_devices(t) \/ PollTimesOut(t) \/ PollReturns(t)
  \/ Read(t) \/ Write(t) \/ HangUp(t) \/ LetGo(t)

Next ==
  \/ hal_api_init \/ InitAgain \/ hal_api_exit \/ AppStep
  \/ \E t \in Threads : Mux(t) \/ PollFails(t)
  \/ \E d \in Panel : Press(d) \/ Unplug(d) \/ Plug(d)

Spec == Init /\ [][Next]_vars

\* The application's calls go on and poll returns in a minute.
FairSpec == Spec /\ WF_vars(AppStep) /\ \A t \in Threads : WF_vars(Mux(t))

-----------------------------------------------------------------------------
Held(d) == LET ts == {t \in Threads : mux[t].hand # <<>> /\ mux[t].hand[1][1] = d}
           IN  IF ts = {} THEN <<>> ELSE mux[CHOOSE t \in ts : TRUE].hand

(* The keys of a device come to nevis_ir in order and each once, whatever  *)
(* is pulled out, plugged in, reopened or closed meanwhile, and none is    *)
(* left out as long as nothing is (open_input_devices, poll_input_devices, *)
(* reopen_input_devices).  Not so with two threads, of which one took the  *)
(* press and the other the release, nor once a key came when two files of  *)
(* its device were open: between open and dup2, or after both sides closed *)
(* a device at once and the entry of the one opened in between was cleared.*)
KeysArrive ==
  ~two /\ ~again =>
    \A d \in Panel :
      LET ks == written[d] \o Held(d) \o (IF fd[d] > -1 THEN file[fd[d]].queue ELSE <<>>)
      IN  /\ \A i, j \in DOMAIN written[d] : i < j => written[d][i][2] < written[d][j][2]
          /\ ~broken /\ ks # <<>>
               => ks = [i \in DOMAIN ks |-> <<d, pressed[d] - Len(ks) + i>>]

(* A device that is gone, and of which everything was read, is closed by   *)
(* the thread, so that it is found when it comes back (poll_input_devices, *)
(* open_input_devices), unless the thread is stopped.                      *)
IsGone(d) == /\ inmux_thread_running /\ ~two /\ \E t \in Threads : Alive(t)
             /\ fd[d] > -1 /\ file[fd[d]].dev = d /\ ~file[fd[d]].live /\ file[fd[d]].queue = <<>>
GoneIsClosed == \A d \in Panel : IsGone(d) ~> ~IsGone(d)

(* After hal_api_exit the thread ends, though nobody waits for it, unless  *)
(* it had not begun: then it raises the flag itself (stop_inmux_thread).   *)
ExitAsked == /\ ~initialized /\ app.at = "idle" /\ ~inmux_thread_running
             /\ (\E t \in Threads : Alive(t)) /\ \A t \in Threads : ~At(t, "begin")
ExitEndsThread == ExitAsked ~> ~ExitAsked
=================================================================================
