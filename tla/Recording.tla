------------------------------- MODULE Recording -------------------------------
(***************************************************************************)
(* cRecord of libarmbox/record.cpp (libspark has the same file): the       *)
(* thread that copies the demux to a file through a buffer and one         *)
(* asynchronous write, and the Start and Stop that control it.             *)
(*                                                                         *)
(* A byte is its number in the stream.  The system writes the front of the *)
(* buffer at some moment between aio_write and the end of the request, so  *)
(* the file gets what the buffer holds then.                               *)
(***************************************************************************)
EXTENDS Naturals, Sequences

CONSTANTS BufSize,      \* bufsize
          ReadSize,     \* bufsize / 16, the most one Read is asked for
          EagerReads,   \* reads after which the thread waits for half a buffer (100)
          MaxBytes,     \* bound: bytes the demux delivers
          ShortWrites   \* may a write end after a part of its bytes?

ASSUME BufAssumption   == BufSize \in Nat \ {0} /\ ReadSize \in 1 .. BufSize
ASSUME EagerAssumption == EagerReads \in Nat
ASSUME BytesAssumption == MaxBytes \in Nat
ASSUME ShortAssumption == ShortWrites \in BOOLEAN

VARIABLES
  thread,      \* where RecordThread is
  control,     \* where the caller of Start and Stop is
  exit_flag,
  buf,         \* the buf_pos bytes in the buffer
  queued,      \* how many of them the last aio_write was given
  count, overflow,
  aio,         \* the request: is it in progress, and if not, what aio_return says
  file,        \* the bytes of the file
  total,       \* bytes read from the demux
  callbacks,   \* calls of failureCallback
  stopAsked,   \* history: has Stop been called in this recording?
  cut,         \* history: did a write end early?
  idleStop     \* history: was nothing queued when the run-out began?

data    == <<buf, queued, file, total>>
reading == <<count, overflow>>
history == <<stopAsked, cut, idleStop>>
vars == <<thread, control, exit_flag, data, reading, aio, callbacks, history>>

Flags == {"STOPPED", "RUNNING", "FAILED_READ", "FAILED_FILE", "FAILED_MEMORY"}

Drop(s, n) == SubSeq(s, n + 1, Len(s))
Done(r)    == [busy |-> FALSE, ret |-> r]      \* r: "ok" or "error"
Busy       == [busy |-> TRUE,  ret |-> "ok"]

Init ==
  /\ thread = "none" /\ control = "idle" /\ exit_flag = "STOPPED"
  /\ buf = <<>> /\ queued = 0 /\ count = 0 /\ overflow = FALSE
  /\ aio = Done("ok") /\ file = <<>> /\ total = 0 /\ callbacks = 0
  /\ stopAsked = FALSE /\ cut = FALSE /\ idleStop = FALSE

-----------------------------------------------------------------------------
(* Start and Stop *)

Start ==
  /\ control = "idle" /\ thread = "none"
  /\ \/ exit_flag' = "RUNNING" /\ thread' = "begin" /\ control' = "running"
     \/ exit_flag' = "FAILED_READ" /\ UNCHANGED <<thread, control>>
  /\ UNCHANGED <<data, reading, aio, callbacks, history>>

StopBegin ==
  /\ control = "running"
  /\ exit_flag' = "STOPPED" /\ stopAsked' = TRUE
  /\ control' = "join"
  /\ UNCHANGED <<thread, data, reading, aio, callbacks, cut, idleStop>>

\* pthread_join, then the demux is deleted and the file closed.
StopJoin ==
  /\ control = "join" /\ thread = "ended"
  /\ control' = "stopped"
  /\ UNCHANGED <<thread, exit_flag, data, reading, aio, callbacks, history>>

-----------------------------------------------------------------------------
(* The write request *)

\* The request ends: all bytes, or some when a write may be cut short, or an error.
AioEnds ==
  /\ aio.busy
  /\ \/ \E n \in IF ShortWrites THEN 0 .. queued ELSE {queued} :
          /\ file' = file \o SubSeq(buf, 1, n)
          /\ cut' = (cut \/ n < queued)
          /\ aio' = Done("ok")
     \/ aio' = Done("error") /\ UNCHANGED <<file, cut>>
  /\ UNCHANGED <<thread, control, exit_flag, buf, queued, total, reading, callbacks,
                 stopAsked, idleStop>>

-----------------------------------------------------------------------------
(* RecordThread *)

Begin ==
  /\ thread = "begin"
  /\ \/ thread' = "loop" /\ UNCHANGED <<exit_flag, callbacks>>
     \/ exit_flag' = "FAILED_MEMORY" /\ callbacks' = callbacks + 1 /\ thread' = "ended"
  /\ UNCHANGED <<control, data, reading, aio, history>>

Loop ==
  /\ thread = "loop"
  /\ thread' = CASE exit_flag # "RUNNING" -> "runout"
                 [] Len(buf) < BufSize    -> "read"
                 [] OTHER                 -> "full"
  /\ idleStop' = (exit_flag # "RUNNING" /\ queued = 0)
  /\ UNCHANGED <<control, exit_flag, data, reading, aio, callbacks, stopAsked, cut>>

\* Read returns bytes, or none after its timeout.
ReadBytes ==
  /\ thread = "read"
  /\ \E s \in 0 .. ReadSize :
       /\ s <= BufSize - Len(buf) /\ total + s <= MaxBytes
       /\ buf' = buf \o [i \in 1 .. s |-> total + i]
       /\ total' = total + s
  /\ overflow' = FALSE
  /\ count' = IF count > EagerReads THEN count ELSE count + 1
  /\ thread' = IF count > EagerReads /\ Len(buf') < BufSize \div 2 THEN "loop" ELSE "aio"
  /\ UNCHANGED <<control, exit_flag, queued, file, aio, callbacks, history>>

\* Read fails: EAGAIN is no failure, nor EOVERFLOW after the buffer was full.
ReadFails ==
  /\ thread = "read"
  /\ \E errno \in {"EAGAIN", "EOVERFLOW", "EIO"} :
       IF errno = "EAGAIN" \/ (errno = "EOVERFLOW" /\ overflow)
         THEN thread' = "aio" /\ UNCHANGED <<exit_flag, idleStop>>
         ELSE /\ exit_flag' = "FAILED_READ" /\ thread' = "runout"
              /\ idleStop' = (queued = 0)
  /\ UNCHANGED <<control, data, reading, aio, callbacks, stopAsked, cut>>

BufferFull ==
  /\ thread = "full"
  /\ overflow' = TRUE
  /\ thread' = "aio"
  /\ UNCHANGED <<control, exit_flag, data, count, aio, callbacks, history>>

\* Slip: the buffer is moved up without asking whether the write is over.
AioReady_noTest ==
  /\ thread = "aio" /\ aio.ret = "ok"
  /\ buf' = Drop(buf, queued) /\ queued' = Len(buf')
  /\ aio' = Busy /\ thread' = "loop"
  /\ UNCHANGED <<control, exit_flag, file, total, reading, callbacks, history>>

AioPending ==
  /\ thread = "aio" /\ aio.busy
  /\ thread' = "loop"
  /\ UNCHANGED <<control, exit_flag, data, reading, aio, callbacks, history>>

\* A failed submission and a failed request both end the loop.
AioReady ==
  /\ thread = "aio" /\ ~aio.busy /\ aio.ret = "ok"
  /\ buf' = Drop(buf, queued) /\ queued' = Len(buf')
  /\ \/ aio' = Busy /\ thread' = "loop" /\ UNCHANGED exit_flag
     \/ aio' = Done("error") /\ thread' = "runout" /\ exit_flag' = "FAILED_FILE"
  /\ UNCHANGED <<control, file, total, reading, callbacks, history>>

AioFailed ==
  /\ thread = "aio" /\ ~aio.busy /\ aio.ret = "error"
  /\ exit_flag' = "FAILED_FILE" /\ thread' = "runout"
  /\ UNCHANGED <<control, data, reading, aio, callbacks, history>>

RunOutFailed ==
  /\ thread = "runout" /\ ~aio.busy /\ aio.ret = "error"
  /\ exit_flag' = "FAILED_FILE" /\ thread' = "end"
  /\ UNCHANGED <<control, data, reading, aio, callbacks, history>>

\* "write out the unwritten buffer content": one more request, until a request
\* of nothing has ended.
RunOutWrite ==
  /\ thread = "runout" /\ ~aio.busy /\ aio.ret = "ok" /\ queued > 0
  /\ buf' = Drop(buf, queued) /\ queued' = Len(buf')
  /\ aio' \in {Busy, Done("error")}
  /\ UNCHANGED <<thread, control, exit_flag, file, total, reading, callbacks, history>>

RunOutDone ==
  /\ thread = "runout" /\ ~aio.busy /\ aio.ret = "ok" /\ queued = 0
  /\ thread' = "end"
  /\ UNCHANGED <<control, exit_flag, data, reading, aio, callbacks, history>>

\* Slip: only a failed file is reported.
End_fileOnly ==
  /\ thread = "end"
  /\ callbacks' = callbacks + (IF exit_flag = "FAILED_FILE" THEN 1 ELSE 0)
  /\ thread' = "ended"
  /\ UNCHANGED <<control, exit_flag, data, reading, aio, history>>

End ==
  /\ thread = "end"
  /\ callbacks' = callbacks + (IF exit_flag # "STOPPED" THEN 1 ELSE 0)
  /\ thread' = "ended"
  /\ UNCHANGED <<control, exit_flag, data, reading, aio, history>>

RecordThread ==
  \/ Begin \/ Loop \/ ReadBytes \/ ReadFails \/ BufferFull
  \/ AioPending \/ AioReady \/ AioFailed
  \/ RunOutFailed \/ RunOutWrite \/ RunOutDone \/ End

Next == Start \/ StopBegin \/ StopJoin \/ AioEnds \/ RecordThread

Spec == Init /\ [][Next]_vars

\* The thread runs, and a write that was accepted ends.
FairSpec == Spec /\ WF_vars(RecordThread) /\ WF_vars(AioEnds) /\ WF_vars(StopJoin)

-----------------------------------------------------------------------------
(* Properties *)

\* Types, with the buffer within its size and the request within the buffer.
TypeOK ==
  /\ thread \in {"none", "begin", "loop", "read", "full", "aio", "runout", "end", "ended"}
  /\ control \in {"idle", "running", "join", "stopped"}
  /\ exit_flag \in Flags
  /\ buf \in Seq(Nat) /\ Len(buf) <= BufSize
  /\ queued \in 0 .. Len(buf)
  /\ count \in Nat /\ overflow \in BOOLEAN
  /\ aio \in {Busy, Done("ok"), Done("error")}
  /\ file \in Seq(Nat) /\ total \in Nat /\ callbacks \in 0 .. 1
  /\ stopAsked \in BOOLEAN /\ cut \in BOOLEAN /\ idleStop \in BOOLEAN

\* What is left to be written: all of the buffer during a request and after one
\* that failed, what follows the request after one that ended well.
Unwritten == IF aio.busy \/ aio.ret = "error" THEN buf ELSE Drop(buf, queued)

\* As long as no write was cut short, the file is the stream up to some byte, with
\* nothing missing, doubled or out of order, and what was read beyond is in the
\* buffer.  When the thread has ended and its writes went well the file is the whole
\* stream, unless the run-out began with nothing queued.
FileIsPrefix == \A i \in 1 .. Len(file) : file[i] = i
NothingDropped == Len(file) + Len(Unwritten) = total
EndedRecordingIsWhole == (thread = "ended" /\ aio.ret = "ok" /\ ~idleStop) => Len(file) = total
FileIsWhole == ~cut => FileIsPrefix /\ NothingDropped /\ EndedRecordingIsWhole

\* What the run-out loop says it does: "write out the unwritten buffer content".
RunOutWritesTheRest ==
  (thread = "ended" /\ aio.ret = "ok" /\ ~cut) => Len(file) = total

\* A recording that ends by itself tells its owner, once.
FailureIsReported == (thread = "ended" /\ ~stopAsked) => callbacks = 1

\* Stop comes back.
StopReturns == (control = "join") ~> (control = "stopped")

=============================================================================
