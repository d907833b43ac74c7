--------------------------- MODULE BufferingQueue ---------------------------
(***************************************************************************)
(* libeplayer3/output/linuxdvb_buffering.c: the queue between the          *)
(* container thread (BufferingWriteV) and the thread that feeds the DVB    *)
(* decoders (LinuxDvbBuffThread, WriteWithRetry), with the calls the       *)
(* player makes on it: Open, Flush, Resume, Close and PlaybackDieNow.      *)
(*                                                                         *)
(* A section of code between a lock and an unlock of bufferingMtx is one   *)
(* step, except for the loop of LinuxDvbBuffFlush, which frees one node a  *)
(* step with the mutex held.  pthread_cond_wait is a control state that    *)
(* only the matching signal leaves.  Both output types go through the one  *)
(* queue, so a chunk is its size and its number.                           *)
(***************************************************************************)
EXTENDS Integers, Sequences

CONSTANTS Sizes,       \* payload sizes of the chunks the writers pass
          NodeSize,    \* sizeof(BufferingNode_t)
          MaxSize,     \* maxBufferingDataSize
          MaxChunks    \* bound: chunks accepted in one behaviour

ASSUME SizesAssumption     == Sizes \subseteq Nat \ {0}
ASSUME NodeSizeAssumption  == NodeSize \in Nat \ {0}
ASSUME MaxSizeAssumption   == MaxSize \in Nat
ASSUME MaxChunksAssumption == MaxChunks \in Nat

VARIABLES
  queue,              \* bufferingQueueHead .. bufferingQueueTail
  bufferingDataSize,
  nodePtr,            \* what the thread took off the queue: << >> or <<chunk>>
  left,               \* bytes of that chunk still to be written
  consumer,           \* where LinuxDvbBuffThread is
  producer,           \* where the container thread is in BufferingWriteV
  offered,            \* size of the chunk it offers
  ctl,                \* where the player's thread is in Open, Flush, Resume or Close
  mutex,              \* bufferingMtx: "free", or "flush" during the loop of Flush
  pipe,               \* is a byte in g_pfd, the pipe of WriteWakeUp?
  hasBufferingThreadStarted,
  fdsOpen,            \* are videofd and audiofd set?
  dieNow, isSeeking, paused,
  accepted, added, removed,     \* history: chunks and bytes queued, bytes taken off
  written,                      \* history: numbers of the chunks the device got
  flushMark, handMark           \* history: accepted, and the chunk in hand, at the last flush

consumerVars == <<nodePtr, left, consumer>>
producerVars == <<producer, offered>>
flags        == <<dieNow, isSeeking, paused>>
apiVars      == <<hasBufferingThreadStarted, fdsOpen>>
queueVars    == <<queue, bufferingDataSize, accepted, added, removed>>
flushVars    == <<flushMark, handMark>>
vars == <<queueVars, consumerVars, producerVars, ctl, mutex, pipe, apiVars,
          flags, written, flushVars>>

Chunk   == [no : Nat, size : Nat \ {0}, start : Nat]
Cost(c) == c.size + NodeSize

ConsumerStates == {"none", "top", "lock", "addedWait", "lost", "check", "select",
                   "frozen", "ending", "signalled", "ended"}
ProducerStates == {"idle", "offer", "consumedWait"}
CtlStates == {"closed", "created", "idle", "flushLock", "flushing", "resuming",
              "closeLock", "exitWait", "exitSeen", "exitTimeout"}

Init ==
  /\ queue = <<>> /\ bufferingDataSize = 0
  /\ nodePtr = <<>> /\ left = 0 /\ consumer = "none"
  /\ producer = "idle" /\ offered = 0
  /\ ctl = "closed" /\ mutex = "free" /\ pipe = FALSE
  /\ hasBufferingThreadStarted = FALSE /\ fdsOpen = FALSE
  /\ dieNow = FALSE /\ isSeeking = FALSE /\ paused = FALSE
  /\ accepted = 0 /\ added = 0 /\ removed = 0 /\ written = <<>>
  /\ flushMark = 0 /\ handMark = 0

-----------------------------------------------------------------------------
(* Condition variables: pthread_cond_signal wakes the one thread that may  *)
(* wait on the condition, and is lost when it does not wait.               *)

\* Slip: the signal goes to the other condition.
SignalDataConsumed_wrongCond == UNCHANGED producer

SignalDataConsumed ==
  producer' = IF producer = "consumedWait" THEN "offer" ELSE producer

SignalDataAdded ==
  consumer' = IF consumer = "addedWait" THEN "top" ELSE consumer

\* Slip: the payload is taken off the total, the node header is not.
Unlink_keepsHeader ==
  /\ queue' = Tail(queue)
  /\ removed' = removed + Cost(Head(queue))
  /\ bufferingDataSize' = bufferingDataSize - Head(queue).size
  /\ UNCHANGED <<accepted, added>>

\* The head of the queue is unlinked and its bytes are taken off the total;
\* the assert that guards the subtraction is the invariant SizeIsExact.
Unlink ==
  /\ queue' = Tail(queue)
  /\ removed' = removed + Cost(Head(queue))
  /\ bufferingDataSize' = bufferingDataSize - Cost(Head(queue))
  /\ UNCHANGED <<accepted, added>>

-----------------------------------------------------------------------------
(* LinuxDvbBuffOpen: the thread is created before the mutex and the        *)
(* conditions are initialised.                                             *)

Open ==
  /\ ctl = "closed" /\ ~hasBufferingThreadStarted /\ consumer = "none"
  /\ consumer' = "top"
  /\ ctl' = "created"
  /\ UNCHANGED <<queueVars, nodePtr, left, producerVars, mutex, pipe, apiVars, flags,
                 written, flushVars>>

\* A thread that already waits on bufferingdDataAddedCond when the condition is
\* initialised under it may stay a waiter or be forgotten for good.
OpenInitSync ==
  /\ ctl = "created"
  /\ consumer' \in {consumer} \cup (IF consumer = "addedWait" THEN {"lost"} ELSE {})
  /\ hasBufferingThreadStarted' = TRUE
  /\ fdsOpen' = TRUE
  /\ ctl' = "idle"
  /\ UNCHANGED <<queueVars, nodePtr, left, producerVars, mutex, pipe, flags,
                 written, flushVars>>

-----------------------------------------------------------------------------
(* LinuxDvbBuffThread *)

LoopTop ==
  /\ consumer = "top"
  /\ consumer' = IF dieNow THEN "ending" ELSE "lock"
  /\ UNCHANGED <<queueVars, nodePtr, left, producerVars, ctl, mutex, pipe, apiVars,
                 flags, written, flushVars>>

\* One pass of the locked section: free the node of the pass before and signal
\* its room, then wait for data or take the head of the queue.  isSeeking is
\* read after the unlock (CheckWrite).
WaitForData ==
  /\ consumer = "lock" /\ mutex = "free" /\ queue = <<>>
  /\ IF nodePtr = <<>> THEN UNCHANGED producer ELSE SignalDataConsumed
  /\ consumer' = "addedWait" /\ nodePtr' = <<>> /\ left' = 0
  /\ UNCHANGED <<queueVars, offered, ctl, mutex, pipe, apiVars, flags, written, flushVars>>

TakeNode ==
  /\ consumer = "lock" /\ mutex = "free" /\ queue # <<>>
  /\ IF nodePtr = <<>> THEN UNCHANGED producer ELSE SignalDataConsumed
  /\ Unlink
  /\ nodePtr' = <<Head(queue)>> /\ left' = Head(queue).size
  /\ consumer' = "check"
  /\ UNCHANGED <<offered, ctl, mutex, pipe, apiVars, flags, written, flushVars>>

\* The conditions of the loop in WriteWithRetry, then select().  A select that
\* starts, or is under way, while the decoder is paused may never see the
\* device writable again ("bug in DVB drivers?"): that is "frozen".
CheckWrite ==
  /\ consumer = "check"
  /\ IF dieNow \/ isSeeking \/ left = 0
     THEN consumer' = "top"
     ELSE consumer' \in {"select"} \cup (IF paused THEN {"frozen"} ELSE {})
  /\ UNCHANGED <<queueVars, nodePtr, left, producerVars, ctl, mutex, pipe, apiVars,
                 flags, written, flushVars>>

FlushPipe ==
  /\ consumer \in {"select", "frozen"} /\ pipe
  /\ pipe' = FALSE
  /\ consumer' = "check"
  /\ UNCHANGED <<queueVars, nodePtr, left, producerVars, ctl, mutex, apiVars, flags,
                 written, flushVars>>

\* The device takes r bytes.  The pipe is looked at first.
WriteSome ==
  /\ consumer = "select" /\ ~pipe /\ fdsOpen
  /\ \E r \in 1 .. left :
       /\ left' = left - r
       /\ written' = IF left = nodePtr[1].size THEN Append(written, nodePtr[1].no)
                     ELSE written
  /\ consumer' = "check"
  /\ UNCHANGED <<queueVars, nodePtr, producerVars, ctl, mutex, pipe, apiVars, flags,
                 flushVars>>

\* write() or select() fails, as it does once Close has taken the descriptor
\* away: WriteWithRetry returns and the rest of the chunk is dropped.
WriteFails ==
  /\ consumer \in {"select", "frozen"}
  /\ consumer' = "top"
  /\ UNCHANGED <<queueVars, nodePtr, left, producerVars, ctl, mutex, pipe, apiVars,
                 flags, written, flushVars>>

\* After the loop: signal bufferingExitCond, then, without the mutex, say that
\* the thread has ended.
SignalExit ==
  /\ consumer = "ending" /\ mutex = "free"
  /\ ctl' = IF ctl = "exitWait" THEN "exitSeen" ELSE ctl
  /\ consumer' = "signalled"
  /\ UNCHANGED <<queueVars, nodePtr, left, producerVars, mutex, pipe, apiVars, flags,
                 written, flushVars>>

ThreadEnds ==
  /\ consumer = "signalled"
  /\ hasBufferingThreadStarted' = FALSE
  /\ pipe' = FALSE
  /\ consumer' = "ended"
  /\ UNCHANGED <<queueVars, nodePtr, left, producerVars, ctl, mutex, fdsOpen, flags,
                 written, flushVars>>

-----------------------------------------------------------------------------
(* BufferingWriteV, called by the container thread *)

\* The chunk is copied into a new node before the lock is taken.
Offer ==
  /\ producer = "idle" /\ fdsOpen
  /\ offered' \in Sizes
  /\ producer' = "offer"
  /\ UNCHANGED <<queueVars, consumerVars, ctl, mutex, pipe, apiVars, flags, written, flushVars>>

GiveUp ==
  /\ producer = "offer" /\ mutex = "free" /\ dieNow
  /\ producer' = "idle" /\ offered' = 0
  /\ UNCHANGED <<queueVars, consumerVars, ctl, mutex, pipe, apiVars, flags,
                 written, flushVars>>

HasRoom == bufferingDataSize + offered + NodeSize < MaxSize

WaitForRoom ==
  /\ producer = "offer" /\ mutex = "free" /\ ~dieNow
  /\ ~HasRoom
  /\ producer' = "consumedWait"
  /\ UNCHANGED <<queueVars, consumerVars, offered, ctl, mutex, pipe, apiVars, flags,
                 written, flushVars>>

\* Slip: the new node becomes the head of the list.
AddChunk_atHead ==
  /\ producer = "offer" /\ mutex = "free" /\ ~dieNow
  /\ HasRoom
  /\ accepted < MaxChunks
  /\ queue' = <<[no |-> accepted + 1, size |-> offered, start |-> added]>> \o queue
  /\ bufferingDataSize' = bufferingDataSize + offered + NodeSize
  /\ added' = added + offered + NodeSize
  /\ accepted' = accepted + 1
  /\ SignalDataAdded
  /\ producer' = "idle" /\ offered' = 0
  /\ UNCHANGED <<removed, nodePtr, left, ctl, mutex, pipe, apiVars, flags,
                 written, flushVars>>

AddChunk ==
  /\ producer = "offer" /\ mutex = "free" /\ ~dieNow
  /\ HasRoom
  /\ accepted < MaxChunks
  /\ queue' = Append(queue, [no |-> accepted + 1, size |-> offered, start |-> added])
  /\ bufferingDataSize' = bufferingDataSize + offered + NodeSize
  /\ added' = added + offered + NodeSize
  /\ accepted' = accepted + 1
  /\ SignalDataAdded
  /\ producer' = "idle" /\ offered' = 0
  /\ UNCHANGED <<removed, nodePtr, left, ctl, mutex, pipe, apiVars, flags,
                 written, flushVars>>

-----------------------------------------------------------------------------
(* The player's thread *)

\* WriteWakeUp has no effect before the pipe is there or after it is closed.
WriteWakeUp == pipe' = (pipe \/ consumer \notin {"none", "ended"})

\* PlaybackSeek and PlaybackFastBackward set and clear isSeeking around a flush.
SetSeeking ==
  /\ ctl = "idle" /\ ~dieNow
  /\ isSeeking' = ~isSeeking
  /\ UNCHANGED <<queueVars, consumerVars, producerVars, ctl, mutex, pipe, apiVars,
                 dieNow, paused, written, flushVars>>

FlushBegin ==
  /\ ctl = "idle"
  /\ WriteWakeUp
  /\ ctl' = "flushLock"
  /\ UNCHANGED <<queueVars, consumerVars, producerVars, mutex, apiVars, flags,
                 written, flushVars>>

FlushLock ==
  /\ ctl = "flushLock" /\ mutex = "free"
  /\ mutex' = "flush"
  /\ ctl' = "flushing"
  /\ UNCHANGED <<queueVars, consumerVars, producerVars, pipe, apiVars, flags,
                 written, flushVars>>

FlushNode ==
  /\ ctl = "flushing" /\ queue # <<>>
  /\ Unlink
  /\ UNCHANGED <<consumerVars, producerVars, ctl, mutex, pipe, apiVars, flags,
                 written, flushVars>>

\* Slip: only the head of the queue is freed.
FlushEnd_afterHead ==
  /\ ctl = "flushing"
  /\ SignalDataConsumed
  /\ mutex' = "free"
  /\ ctl' = "idle"
  /\ flushMark' = accepted
  /\ handMark' = IF nodePtr = <<>> THEN 0 ELSE nodePtr[1].no
  /\ UNCHANGED <<queueVars, consumerVars, offered, pipe, apiVars, flags, written>>

FlushEnd ==
  /\ ctl = "flushing" /\ queue = <<>>
  /\ bufferingDataSize' = 0
  /\ SignalDataConsumed
  /\ mutex' = "free"
  /\ ctl' = "idle"
  /\ flushMark' = accepted
  /\ handMark' = IF nodePtr = <<>> THEN 0 ELSE nodePtr[1].no
  /\ UNCHANGED <<queue, accepted, added, removed, consumerVars, offered, pipe,
                 apiVars, flags, written>>

\* VIDEO_FREEZE and AUDIO_PAUSE: a select under way may freeze.
Pause ==
  /\ ctl = "idle" /\ ~paused
  /\ paused' = TRUE
  /\ consumer' \in {consumer} \cup (IF consumer = "select" THEN {"frozen"} ELSE {})
  /\ UNCHANGED <<queueVars, nodePtr, left, producerVars, ctl, mutex, pipe, apiVars,
                 dieNow, isSeeking, written, flushVars>>

\* VIDEO_CONTINUE and AUDIO_CONTINUE, then LinuxDvbBuffResume.
Continue ==
  /\ ctl = "idle" /\ paused
  /\ paused' = FALSE
  /\ ctl' = "resuming"
  /\ UNCHANGED <<queueVars, consumerVars, producerVars, mutex, pipe, apiVars, dieNow,
                 isSeeking, written, flushVars>>

Resume ==
  /\ ctl = "resuming"
  /\ WriteWakeUp
  /\ ctl' = "idle"
  /\ UNCHANGED <<queueVars, consumerVars, producerVars, mutex, apiVars, flags,
                 written, flushVars>>

\* PlaybackDieNow(1): the flag, then the callback WriteWakeUp.  Any thread calls it.
DieNow ==
  /\ ctl # "closed" /\ ~dieNow
  /\ dieNow' = TRUE
  /\ WriteWakeUp
  /\ UNCHANGED <<queueVars, consumerVars, producerVars, ctl, mutex, apiVars, isSeeking,
                 paused, written, flushVars>>

CloseBegin ==
  /\ ctl = "idle"
  /\ fdsOpen' = FALSE
  /\ IF hasBufferingThreadStarted
     THEN WriteWakeUp /\ ctl' = "closeLock"
     ELSE UNCHANGED <<pipe, ctl>>
  /\ UNCHANGED <<queueVars, consumerVars, producerVars, mutex, hasBufferingThreadStarted,
                 flags, written, flushVars>>

\* Slip: Close waits without waking a thread that waits for data.
CloseSignal_noWake ==
  /\ ctl = "closeLock" /\ mutex = "free"
  /\ ctl' = "exitWait"
  /\ UNCHANGED <<queueVars, consumerVars, producerVars, mutex, pipe, apiVars, flags,
                 written, flushVars>>

CloseSignal ==
  /\ ctl = "closeLock" /\ mutex = "free"
  /\ SignalDataAdded
  /\ ctl' = "exitWait"
  /\ UNCHANGED <<queueVars, nodePtr, left, producerVars, mutex, pipe, apiVars, flags,
                 written, flushVars>>

\* pthread_cond_timedwait gives up after two seconds at most.
CloseTimeout ==
  /\ ctl = "exitWait"
  /\ ctl' = "exitTimeout"
  /\ UNCHANGED <<queueVars, consumerVars, producerVars, mutex, pipe, apiVars, flags,
                 written, flushVars>>

\* The value returned says whether the thread has ended; LinuxDvbClose ignores it.
CloseReturn ==
  /\ ctl \in {"exitSeen", "exitTimeout"}
  /\ ctl' = "idle"
  /\ UNCHANGED <<queueVars, consumerVars, producerVars, mutex, pipe, apiVars, flags,
                 written, flushVars>>

-----------------------------------------------------------------------------
ConsumerNext == LoopTop \/ WaitForData \/ TakeNode \/ CheckWrite \/ FlushPipe
                \/ WriteSome \/ WriteFails \/ SignalExit \/ ThreadEnds
ProducerNext == Offer \/ GiveUp \/ WaitForRoom \/ AddChunk
PlayerNext   == Open \/ OpenInitSync \/ SetSeeking \/ FlushBegin \/ FlushLock
                \/ FlushNode \/ FlushEnd \/ Pause \/ Continue \/ Resume \/ DieNow
                \/ CloseBegin \/ CloseSignal \/ CloseTimeout \/ CloseReturn

Next == ConsumerNext \/ ProducerNext \/ PlayerNext

Spec == Init /\ [][Next]_vars

\* The scheduler runs every thread that can run, and a device that is not paused
\* takes data.  The steps that take the mutex or the device are strongly fair: the
\* user's flushes hold the one, and his wake-ups interrupt the other, for a moment
\* each, and do not keep the threads from them for good.
\* What the player's thread does when idle is the user's affair.
Fairness ==
  /\ WF_vars(LoopTop \/ CheckWrite \/ FlushPipe \/ ThreadEnds)
  /\ SF_vars(WaitForData \/ TakeNode \/ SignalExit)
  /\ SF_vars((~paused /\ WriteSome) \/ (~fdsOpen /\ WriteFails))
  /\ SF_vars(GiveUp \/ WaitForRoom \/ AddChunk)
  /\ WF_vars(OpenInitSync \/ FlushLock \/ FlushNode \/ FlushEnd \/ Resume
             \/ CloseSignal \/ CloseTimeout \/ CloseReturn)

FairSpec == Spec /\ Fairness

-----------------------------------------------------------------------------
(* Properties *)

\* Every variable holds a value of its type.
TypeOK ==
  /\ queue \in Seq(Chunk) /\ bufferingDataSize \in Nat
  /\ nodePtr \in Seq(Chunk) /\ Len(nodePtr) <= 1 /\ left \in Nat
  /\ consumer \in ConsumerStates /\ producer \in ProducerStates /\ ctl \in CtlStates
  /\ offered \in Sizes \cup {0}
  /\ mutex \in {"free", "flush"} /\ pipe \in BOOLEAN
  /\ hasBufferingThreadStarted \in BOOLEAN /\ fdsOpen \in BOOLEAN
  /\ dieNow \in BOOLEAN /\ isSeeking \in BOOLEAN /\ paused \in BOOLEAN
  /\ accepted \in Nat /\ added \in Nat /\ removed \in Nat
  /\ written \in Seq(Nat) /\ flushMark \in Nat /\ handMark \in Nat

\* bufferingDataSize is exactly what the queued nodes occupy: the nodes tile the
\* bytes from removed to added, and the size is their distance.  So the assert
\* of the thread (the size covers the node it takes) and the one of
\* LinuxDvbBuffFlush (an emptied queue has size 0) hold, whichever way flushes,
\* takes and writes interleave.
SizeIsExact ==
  /\ bufferingDataSize = added - removed
  /\ queue = <<>> => bufferingDataSize = 0
  /\ queue # <<>> => /\ queue[1].start = removed
                     /\ queue[Len(queue)].start + Cost(queue[Len(queue)]) = added
  /\ \A i \in 1 .. Len(queue) - 1 :
       queue[i + 1].start = queue[i].start + Cost(queue[i])

\* The queue never occupies maxBufferingDataSize or more.
SizeBelowMax == bufferingDataSize > 0 => bufferingDataSize < MaxSize

\* The chunk the thread has in hand when LinuxDvbBuffFlush runs is the only one
\* of the chunks accepted before that may still reach the decoder ("we can write
\* some portion of data after LinuxDvbBuffFlush").
OnlyChunkInHandOutlivesFlush ==
  [][written' # written => \/ written'[Len(written')] > flushMark
                           \/ written'[Len(written')] = handMark]_vars

\* The decoder gets the chunks in the order in which the container thread
\* passed them, none twice, across flushes, seeks and failing writes.
InHand == IF consumer \in {"check", "select", "frozen"} /\ left = nodePtr[1].size
          THEN <<nodePtr[1].no>> ELSE <<>>
Numbers(q) == [i \in 1 .. Len(q) |-> q[i].no]

Fifo == INSTANCE LossyFifo WITH pending <- InHand \o Numbers(queue),
                                delivered <- written
FifoSpec == Fifo!Spec

\* A container thread that waits for room goes on once there is room for its
\* chunk, unless playback ends or pauses; a Continue sets it free again.  It
\* needs the thread to pass the wake-up of each freed node, every time.
WaitingWriterGoesOn ==
  (producer = "consumedWait" /\ offered + NodeSize < MaxSize)
     ~> (producer # "consumedWait" \/ dieNow \/ paused \/ consumer = "lost")

\* After PlaybackDieNow the signal of LinuxDvbBuffClose ends the thread wherever
\* it is: waiting for data, in select, or about to look at the flag.  The one
\* exception is the thread that has looked at the flag and not yet locked.
ThreadEndsAfterClose ==
  (dieNow /\ ctl = "closeLock" /\ consumer # "lock") ~> consumer \in {"ended", "lost"}

=============================================================================
