------------------------ MODULE BufferingQueue_proofs ------------------------
(***************************************************************************)
(* Theorems about BufferingQueue, for every chunk size, header size and    *)
(* queue bound.  The inductive invariant says that the thread holds a node *)
(* whenever it is about to write, and that the nodes of the queue tile the *)
(* bytes between removed and added.                                        *)
(***************************************************************************)
EXTENDS BufferingQueue, SequenceTheorems, TLAPS

\* The thread checks, selects and writes only with a node in hand.
NodeInHand == consumer \in {"check", "select", "frozen"} => Len(nodePtr) = 1

\* SizeIsExact, with what an unlink needs to preserve it: no node ends beyond
\* the last byte added.
Tiled ==
  /\ bufferingDataSize = added - removed
  /\ removed <= added
  /\ queue = <<>> => removed = added
  /\ queue # <<>> => /\ queue[1].start = removed
                     /\ queue[Len(queue)].start + Cost(queue[Len(queue)]) = added
  /\ \A i \in 1 .. Len(queue) - 1 :
       queue[i + 1].start = queue[i].start + Cost(queue[i])
  /\ \A i \in 1 .. Len(queue) : queue[i].start + Cost(queue[i]) <= added

\* A writer in BufferingWriteV brings a chunk.
OfferMade == producer # "idle" => offered \in Sizes

IInv == TypeOK /\ NodeInHand /\ OfferMade /\ Tiled

\* Unlinking the head of a non-empty queue keeps the queue typed and tiled.
LEMMA UnlinkTiles ==
  ASSUME IInv, queue # <<>>, Unlink
  PROVE  /\ queue' \in Seq(Chunk) /\ bufferingDataSize' \in Nat
         /\ removed' \in Nat
         /\ Tiled'
         /\ bufferingDataSize' <= bufferingDataSize
PROOF
<1> DEFINE h == Head(queue)
<1>1. queue \in Seq(Chunk) /\ Len(queue) \in Nat \ {0}
  BY DEF IInv, TypeOK
<1>2. h = queue[1] /\ h \in Chunk /\ Cost(h) \in Nat /\ h.start \in Nat
  <2>1. h = queue[1] /\ h \in Chunk
    BY <1>1
  <2> QED BY <2>1, NodeSizeAssumption DEF Chunk, Cost
<1>3. /\ queue' \in Seq(Chunk)
      /\ Len(queue') = Len(queue) - 1
      /\ \A i \in 1 .. Len(queue) - 1 : queue'[i] = queue[i + 1]
  BY <1>1 DEF Unlink
<1>4. /\ h.start = removed /\ removed' = removed + Cost(h)
      /\ added' = added /\ added \in Nat /\ removed \in Nat
      /\ bufferingDataSize' = bufferingDataSize - Cost(h)
      /\ bufferingDataSize = added - removed
  BY <1>2 DEF Unlink, IInv, TypeOK, Tiled
<1>5. removed' <= added'
  BY <1>1, <1>2, <1>4 DEF IInv, Tiled
<1>6. bufferingDataSize' = added' - removed' /\ bufferingDataSize' \in Nat /\ removed' \in Nat
  BY <1>2, <1>4, <1>5
<1>7. queue' = <<>> => removed' = added'
  <2> SUFFICES ASSUME queue' = <<>> PROVE removed' = added'
    OBVIOUS
  <2>1. Len(queue) = 1
    BY <1>1, <1>3
  <2> QED BY <2>1, <1>2, <1>4 DEF IInv, Tiled
<1>8. queue' # <<>> => /\ queue'[1].start = removed'
                       /\ queue'[Len(queue')].start + Cost(queue'[Len(queue')]) = added'
  <2> SUFFICES ASSUME queue' # <<>>
               PROVE  /\ queue'[1].start = removed'
                      /\ queue'[Len(queue')].start + Cost(queue'[Len(queue')]) = added'
    OBVIOUS
  <2>1. Len(queue) > 1
    BY <1>1, <1>3
  <2>2. queue'[1] = queue[2] /\ queue'[Len(queue')] = queue[Len(queue)]
    BY <2>1, <1>1, <1>3
  <2>3. queue[2].start = queue[1].start + Cost(queue[1])
    BY <2>1, <1>1 DEF IInv, Tiled
  <2> QED BY <2>1, <2>2, <2>3, <1>2, <1>4 DEF IInv, Tiled
<1>9. \A i \in 1 .. Len(queue') - 1 :
        queue'[i + 1].start = queue'[i].start + Cost(queue'[i])
  BY <1>1, <1>3 DEF IInv, Tiled
<1>10. \A i \in 1 .. Len(queue') : queue'[i].start + Cost(queue'[i]) <= added'
  BY <1>1, <1>3, <1>4 DEF IInv, Tiled
<1>11. bufferingDataSize' <= bufferingDataSize
  BY <1>2, <1>4 DEF IInv, TypeOK
<1> QED BY <1>3, <1>5, <1>6, <1>7, <1>8, <1>9, <1>10, <1>11 DEF Tiled, Cost

\* A chunk for which there is room extends the tiling.
LEMMA AddTiles ==
  ASSUME IInv, AddChunk
  PROVE  /\ queue' \in Seq(Chunk) /\ bufferingDataSize' \in Nat
         /\ added' \in Nat /\ accepted' \in Nat
         /\ Tiled'
         /\ bufferingDataSize' < MaxSize
PROOF
<1> DEFINE c == [no |-> accepted + 1, size |-> offered, start |-> added]
<1>1. queue \in Seq(Chunk) /\ Len(queue) \in Nat /\ added \in Nat /\ accepted \in Nat
      /\ removed \in Nat /\ bufferingDataSize \in Nat
  BY DEF IInv, TypeOK
<1>2. offered \in Nat \ {0} /\ c \in Chunk /\ Cost(c) = offered + NodeSize
      /\ c.start = added
  <2>1. offered \in Nat \ {0}
    BY SizesAssumption DEF IInv, AddChunk, OfferMade
  <2>2. c \in Chunk
    BY <2>1, <1>1 DEF Chunk
  <2> QED BY <2>1, <2>2 DEF Cost
<1>3. /\ queue' = Append(queue, c) /\ queue' \in Seq(Chunk)
      /\ Len(queue') = Len(queue) + 1
      /\ \A i \in 1 .. Len(queue) : queue'[i] = queue[i]
      /\ queue'[Len(queue) + 1] = c
  BY <1>1, <1>2 DEF AddChunk
<1>4. /\ added' = added + Cost(c) /\ removed' = removed
      /\ bufferingDataSize' = bufferingDataSize + Cost(c)
      /\ accepted' = accepted + 1 /\ Cost(c) \in Nat
      /\ bufferingDataSize' < MaxSize
  BY <1>1, <1>2, NodeSizeAssumption DEF AddChunk, HasRoom
<1>5. /\ bufferingDataSize' = added' - removed' /\ removed' <= added'
      /\ queue' # <<>>
  <2>1. bufferingDataSize = added - removed /\ removed <= added
    BY DEF IInv, Tiled
  <2> QED BY <2>1, <1>1, <1>3, <1>4
<1>6. /\ queue'[1].start = removed'
      /\ queue'[Len(queue')].start + Cost(queue'[Len(queue')]) = added'
  <2>1. CASE queue = <<>>
    BY <2>1, <1>1, <1>2, <1>3, <1>4 DEF IInv, Tiled
  <2>2. CASE queue # <<>>
    <3>1. Len(queue) >= 1
      BY <2>2, <1>1
    <3> QED BY <3>1, <2>2, <1>1, <1>2, <1>3, <1>4 DEF IInv, Tiled
  <2> QED BY <2>1, <2>2
<1>7. \A i \in 1 .. Len(queue') - 1 :
        queue'[i + 1].start = queue'[i].start + Cost(queue'[i])
  <2> SUFFICES ASSUME NEW i \in 1 .. Len(queue)
               PROVE  queue'[i + 1].start = queue'[i].start + Cost(queue'[i])
    <3>1. 1 .. Len(queue') - 1 = 1 .. Len(queue)
      BY <1>1, <1>3
    <3> QED BY <3>1
  <2>1. CASE i < Len(queue)
    BY <2>1, <1>1, <1>3 DEF IInv, Tiled
  <2>2. CASE i = Len(queue)
    BY <2>2, <1>1, <1>2, <1>3 DEF IInv, Tiled
  <2> QED BY <2>1, <2>2, <1>1
<1>8. \A i \in 1 .. Len(queue') : queue'[i].start + Cost(queue'[i]) <= added'
  <2> SUFFICES ASSUME NEW i \in 1 .. Len(queue')
               PROVE  queue'[i].start + Cost(queue'[i]) <= added'
    OBVIOUS
  <2> Len(queue') \in Nat /\ i \in Nat
    BY <1>1, <1>3
  <2>1. CASE i <= Len(queue)
    <3>1. queue[i] \in Chunk /\ queue[i].start + Cost(queue[i]) <= added
      BY <2>1, <1>1 DEF IInv, Tiled
    <3>2. queue[i].start + Cost(queue[i]) \in Nat
      BY <3>1, NodeSizeAssumption DEF Chunk, Cost
    <3> QED BY <3>1, <3>2, <2>1, <1>1, <1>3, <1>4
  <2>2. CASE i = Len(queue) + 1
    BY <2>2, <1>1, <1>2, <1>3, <1>4
  <2> QED BY <2>1, <2>2, <1>1, <1>3
<1>9. bufferingDataSize' \in Nat /\ added' \in Nat /\ accepted' \in Nat
  BY <1>1, <1>4
<1>10. Tiled'
  BY <1>5, <1>6, <1>7, <1>8 DEF Tiled
<1> QED BY <1>3, <1>4, <1>9, <1>10

\* A step that leaves the queue alone leaves the tiling alone.
LEMMA QuietTiles == Tiled /\ UNCHANGED queueVars => Tiled'
PROOF BY DEF Tiled, queueVars

\* The invariant holds at the start and every step keeps it.
LEMMA InitInv == Init => IInv
PROOF
<1> SUFFICES ASSUME Init PROVE IInv
  OBVIOUS
<1>1. TypeOK
  <2>1. /\ pipe \in BOOLEAN /\ hasBufferingThreadStarted \in BOOLEAN
        /\ fdsOpen \in BOOLEAN /\ dieNow \in BOOLEAN
        /\ isSeeking \in BOOLEAN /\ paused \in BOOLEAN
    BY Zenon DEF Init
  <2> QED BY <2>1 DEF Init, TypeOK, ConsumerStates, ProducerStates, CtlStates
<1>2. NodeInHand /\ OfferMade
  BY DEF Init, NodeInHand, OfferMade
<1>3. Tiled
  BY DEF Init, Tiled
<1> QED BY <1>1, <1>2, <1>3 DEF IInv

LEMMA StepInv == IInv /\ [Next]_vars => IInv'
PROOF
<1> SUFFICES ASSUME IInv, [Next]_vars PROVE IInv'
  OBVIOUS
<1> USE DEF ConsumerStates, ProducerStates, CtlStates, TypeOK, NodeInHand, OfferMade,
        consumerVars, producerVars, flags, apiVars, flushVars,
        SignalDataConsumed, SignalDataAdded, WriteWakeUp
<1>0. TypeOK /\ NodeInHand /\ OfferMade /\ Tiled
  BY DEF IInv
<1>1. CASE Open
  <2>1. Tiled'
    BY <1>1, <1>0, QuietTiles DEF Open
  <2>2. (TypeOK /\ NodeInHand /\ OfferMade)'
    BY <1>1, <1>0 DEF Open, queueVars
  <2> QED BY <2>1, <2>2 DEF IInv
<1>2. CASE OpenInitSync
  <2>1. Tiled'
    BY <1>2, <1>0, QuietTiles DEF OpenInitSync
  <2>2. (TypeOK /\ NodeInHand /\ OfferMade)'
    BY <1>2, <1>0 DEF OpenInitSync, queueVars
  <2> QED BY <2>1, <2>2 DEF IInv
<1>3. CASE LoopTop
  <2>1. Tiled'
    BY <1>3, <1>0, QuietTiles DEF LoopTop
  <2>2. (TypeOK /\ NodeInHand /\ OfferMade)'
    BY <1>3, <1>0 DEF LoopTop, queueVars
  <2> QED BY <2>1, <2>2 DEF IInv
<1>4. CASE CheckWrite
  <2>1. Tiled'
    BY <1>4, <1>0, QuietTiles DEF CheckWrite
  <2>2. (TypeOK /\ NodeInHand /\ OfferMade)'
    BY <1>4, <1>0 DEF CheckWrite, queueVars
  <2> QED BY <2>1, <2>2 DEF IInv
<1>5. CASE FlushPipe
  <2>1. Tiled'
    BY <1>5, <1>0, QuietTiles DEF FlushPipe
  <2>2. pipe' \in BOOLEAN
    BY <1>5, Zenon DEF FlushPipe
  <2>3. (TypeOK /\ NodeInHand /\ OfferMade)'
    BY <1>5, <1>0, <2>2 DEF FlushPipe, queueVars
  <2> QED BY <2>1, <2>3 DEF IInv
<1>6. CASE WriteFails
  <2>1. Tiled'
    BY <1>6, <1>0, QuietTiles DEF WriteFails
  <2>2. (TypeOK /\ NodeInHand /\ OfferMade)'
    BY <1>6, <1>0 DEF WriteFails, queueVars
  <2> QED BY <2>1, <2>2 DEF IInv
<1>7. CASE SignalExit
  <2>1. Tiled'
    BY <1>7, <1>0, QuietTiles DEF SignalExit
  <2>2. (TypeOK /\ NodeInHand /\ OfferMade)'
    BY <1>7, <1>0 DEF SignalExit, queueVars
  <2> QED BY <2>1, <2>2 DEF IInv
<1>8. CASE ThreadEnds
  <2>1. Tiled'
    BY <1>8, <1>0, QuietTiles DEF ThreadEnds
  <2>2. (TypeOK /\ NodeInHand /\ OfferMade)'
    BY <1>8, <1>0 DEF ThreadEnds, queueVars
  <2> QED BY <2>1, <2>2 DEF IInv
<1>9. CASE Offer
  <2>1. Tiled'
    BY <1>9, <1>0, QuietTiles DEF Offer
  <2>2. (TypeOK /\ NodeInHand /\ OfferMade)'
    BY <1>9, <1>0 DEF Offer, queueVars
  <2> QED BY <2>1, <2>2 DEF IInv
<1>10. CASE GiveUp
  <2>1. Tiled'
    BY <1>10, <1>0, QuietTiles DEF GiveUp
  <2>2. (TypeOK /\ NodeInHand /\ OfferMade)'
    BY <1>10, <1>0 DEF GiveUp, queueVars
  <2> QED BY <2>1, <2>2 DEF IInv
<1>11. CASE WaitForRoom
  <2>1. Tiled'
    BY <1>11, <1>0, QuietTiles DEF WaitForRoom
  <2>2. (TypeOK /\ NodeInHand /\ OfferMade)'
    BY <1>11, <1>0 DEF WaitForRoom, queueVars
  <2> QED BY <2>1, <2>2 DEF IInv
<1>12. CASE SetSeeking
  <2>1. Tiled'
    BY <1>12, <1>0, QuietTiles DEF SetSeeking
  <2>2. (TypeOK /\ NodeInHand /\ OfferMade)'
    BY <1>12, <1>0 DEF SetSeeking, queueVars
  <2> QED BY <2>1, <2>2 DEF IInv
<1>13. CASE FlushBegin
  <2>1. Tiled'
    BY <1>13, <1>0, QuietTiles DEF FlushBegin
  <2>2. (TypeOK /\ NodeInHand /\ OfferMade)'
    BY <1>13, <1>0 DEF FlushBegin, queueVars
  <2> QED BY <2>1, <2>2 DEF IInv
<1>14. CASE FlushLock
  <2>1. Tiled'
    BY <1>14, <1>0, QuietTiles DEF FlushLock
  <2>2. (TypeOK /\ NodeInHand /\ OfferMade)'
    BY <1>14, <1>0 DEF FlushLock, queueVars
  <2> QED BY <2>1, <2>2 DEF IInv
<1>15. CASE Pause
  <2>1. Tiled'
    BY <1>15, <1>0, QuietTiles DEF Pause
  <2>2. (TypeOK /\ NodeInHand /\ OfferMade)'
    BY <1>15, <1>0 DEF Pause, queueVars
  <2> QED BY <2>1, <2>2 DEF IInv
<1>16. CASE Continue
  <2>1. Tiled'
    BY <1>16, <1>0, QuietTiles DEF Continue
  <2>2. paused' \in BOOLEAN
    BY <1>16, Zenon DEF Continue
  <2>3. (TypeOK /\ NodeInHand /\ OfferMade)'
    BY <1>16, <1>0, <2>2 DEF Continue, queueVars
  <2> QED BY <2>1, <2>3 DEF IInv
<1>17. CASE Resume
  <2>1. Tiled'
    BY <1>17, <1>0, QuietTiles DEF Resume
  <2>2. (TypeOK /\ NodeInHand /\ OfferMade)'
    BY <1>17, <1>0 DEF Resume, queueVars
  <2> QED BY <2>1, <2>2 DEF IInv
<1>18. CASE DieNow
  <2>1. Tiled'
    BY <1>18, <1>0, QuietTiles DEF DieNow
  <2>2. (TypeOK /\ NodeInHand /\ OfferMade)'
    BY <1>18, <1>0 DEF DieNow, queueVars
  <2> QED BY <2>1, <2>2 DEF IInv
<1>19. CASE CloseBegin
  <2>1. Tiled'
    BY <1>19, <1>0, QuietTiles DEF CloseBegin
  <2>2. fdsOpen' \in BOOLEAN
    BY <1>19, Zenon DEF CloseBegin
  <2>3. (TypeOK /\ NodeInHand /\ OfferMade)'
    BY <1>19, <1>0, <2>2 DEF CloseBegin, queueVars
  <2> QED BY <2>1, <2>3 DEF IInv
<1>20. CASE CloseSignal
  <2>1. Tiled'
    BY <1>20, <1>0, QuietTiles DEF CloseSignal
  <2>2. (TypeOK /\ NodeInHand /\ OfferMade)'
    BY <1>20, <1>0 DEF CloseSignal, queueVars
  <2> QED BY <2>1, <2>2 DEF IInv
<1>21. CASE CloseTimeout
  <2>1. Tiled'
    BY <1>21, <1>0, QuietTiles DEF CloseTimeout
  <2>2. (TypeOK /\ NodeInHand /\ OfferMade)'
    BY <1>21, <1>0 DEF CloseTimeout, queueVars
  <2> QED BY <2>1, <2>2 DEF IInv
<1>22. CASE CloseReturn
  <2>1. Tiled'
    BY <1>22, <1>0, QuietTiles DEF CloseReturn
  <2>2. (TypeOK /\ NodeInHand /\ OfferMade)'
    BY <1>22, <1>0 DEF CloseReturn, queueVars
  <2> QED BY <2>1, <2>2 DEF IInv
<1>23. CASE WaitForData
  <2>1. Tiled'
    BY <1>23, <1>0, QuietTiles DEF WaitForData
  <2>2. (TypeOK /\ NodeInHand /\ OfferMade)'
    BY <1>23, <1>0 DEF WaitForData, queueVars
  <2> QED BY <2>1, <2>2 DEF IInv
<1>24. CASE WriteSome
  <2>1. Tiled'
    BY <1>24, <1>0, QuietTiles DEF WriteSome
  <2>2. nodePtr[1] \in Chunk /\ nodePtr[1].no \in Nat
    <3>1. Len(nodePtr) = 1 /\ nodePtr \in Seq(Chunk)
      BY <1>24, <1>0 DEF WriteSome
    <3>2. nodePtr[1] \in Chunk
      BY <3>1
    <3> QED BY <3>2 DEF Chunk
  <2>3. left' \in Nat /\ written' \in Seq(Nat)
    BY <1>24, <1>0, <2>2 DEF WriteSome
  <2>4. (TypeOK /\ NodeInHand /\ OfferMade)'
    BY <1>24, <1>0, <2>3 DEF WriteSome, queueVars
  <2> QED BY <2>1, <2>4 DEF IInv
<1>25. CASE TakeNode
  <2>1. /\ queue' \in Seq(Chunk) /\ bufferingDataSize' \in Nat /\ removed' \in Nat
        /\ Tiled'
    BY <1>25, UnlinkTiles DEF TakeNode
  <2>2. Head(queue) \in Chunk /\ Head(queue).size \in Nat
    <3>1. Head(queue) \in Chunk
      BY <1>25, <1>0 DEF TakeNode
    <3> QED BY <3>1 DEF Chunk
  <2>3. nodePtr' \in Seq(Chunk) /\ Len(nodePtr') = 1 /\ left' \in Nat
    BY <1>25, <2>2 DEF TakeNode
  <2>4. (TypeOK /\ NodeInHand /\ OfferMade)'
    BY <1>25, <1>0, <2>1, <2>3 DEF TakeNode, Unlink
  <2> QED BY <2>1, <2>4 DEF IInv
<1>26. CASE FlushNode
  <2>1. /\ queue' \in Seq(Chunk) /\ bufferingDataSize' \in Nat /\ removed' \in Nat
        /\ Tiled'
    BY <1>26, UnlinkTiles DEF FlushNode
  <2>2. (TypeOK /\ NodeInHand /\ OfferMade)'
    BY <1>26, <1>0, <2>1 DEF FlushNode, Unlink
  <2> QED BY <2>1, <2>2 DEF IInv
<1>27. CASE FlushEnd
  <2>1. Tiled'
    BY <1>27, <1>0 DEF FlushEnd, Tiled
  <2>2. handMark' \in Nat
    <3>1. CASE nodePtr = <<>>
      BY <1>27, <3>1 DEF FlushEnd
    <3>2. CASE nodePtr # <<>>
      <4>1. nodePtr[1] \in Chunk
        BY <3>2, <1>0
      <4> QED BY <1>27, <3>2, <4>1 DEF FlushEnd, Chunk
    <3> QED BY <3>1, <3>2
  <2>3. (TypeOK /\ NodeInHand /\ OfferMade)'
    BY <1>27, <1>0, <2>2 DEF FlushEnd
  <2> QED BY <2>1, <2>3 DEF IInv
<1>28. CASE AddChunk
  <2>1. /\ queue' \in Seq(Chunk) /\ bufferingDataSize' \in Nat
        /\ added' \in Nat /\ accepted' \in Nat /\ Tiled'
    BY <1>28, AddTiles
  <2>2. (TypeOK /\ NodeInHand /\ OfferMade)'
    BY <1>28, <1>0, <2>1 DEF AddChunk
  <2> QED BY <2>1, <2>2 DEF IInv
<1>29. CASE UNCHANGED vars
  <2>1. Tiled'
    BY <1>29, <1>0, QuietTiles DEF vars
  <2> QED BY <1>29, <1>0, <2>1 DEF IInv, vars, queueVars
<1> QED
  BY <1>1, <1>2, <1>3, <1>4, <1>5, <1>6, <1>7, <1>8, <1>9, <1>10, <1>11, <1>12,
     <1>13, <1>14, <1>15, <1>16, <1>17, <1>18, <1>19, <1>20, <1>21, <1>22,
     <1>23, <1>24, <1>25, <1>26, <1>27, <1>28, <1>29 DEF Next, ConsumerNext,
     ProducerNext, PlayerNext

-----------------------------------------------------------------------------
\* Every variable of the queue keeps its type, in every behaviour.
THEOREM TypeCorrect == Spec => []TypeOK
PROOF
<1>1. IInv => TypeOK
  BY DEF IInv
<1> QED BY InitInv, StepInv, <1>1, PTL DEF Spec

\* bufferingDataSize is what the queued nodes occupy, in every behaviour: the
\* asserts of LinuxDvbBuffThread and of LinuxDvbBuffFlush never fail.
THEOREM SizeAlwaysExact == Spec => []SizeIsExact
PROOF
<1>1. IInv => SizeIsExact
  BY DEF IInv, TypeOK, Tiled, SizeIsExact
<1> QED BY InitInv, StepInv, <1>1, PTL DEF Spec

\* The queue never occupies maxBufferingDataSize or more: only AddChunk makes it
\* grow, and its guard leaves room.
LEMMA StepBelowMax == IInv /\ SizeBelowMax /\ [Next]_vars => SizeBelowMax'
PROOF
<1> SUFFICES ASSUME IInv, SizeBelowMax, [Next]_vars PROVE SizeBelowMax'
  OBVIOUS
<1>0. MaxSize \in Nat /\ bufferingDataSize \in Nat
  BY MaxSizeAssumption DEF IInv, TypeOK
<1>1. CASE UNCHANGED bufferingDataSize
  BY <1>1 DEF SizeBelowMax
<1>2. CASE AddChunk
  BY <1>2, AddTiles DEF SizeBelowMax
<1>3. CASE TakeNode \/ FlushNode
  <2>1. queue # <<>> /\ Unlink
    BY <1>3 DEF TakeNode, FlushNode
  <2>2. bufferingDataSize' <= bufferingDataSize /\ bufferingDataSize' \in Nat
    BY <2>1, UnlinkTiles
  <2> QED BY <2>2, <1>0 DEF SizeBelowMax
<1>4. CASE FlushEnd
  BY <1>4 DEF FlushEnd, SizeBelowMax
<1>5. \/ UNCHANGED bufferingDataSize \/ AddChunk \/ TakeNode \/ FlushNode \/ FlushEnd
  BY DEF vars, queueVars, Next, ConsumerNext, ProducerNext, PlayerNext, Open,
     OpenInitSync, LoopTop, CheckWrite, FlushPipe, WriteFails, SignalExit, ThreadEnds,
     Offer, GiveUp, WaitForRoom, SetSeeking, FlushBegin, FlushLock, Pause, Continue,
     Resume, DieNow, CloseBegin, CloseSignal, CloseTimeout, CloseReturn, WaitForData,
     WriteSome
<1> QED BY <1>1, <1>2, <1>3, <1>4, <1>5

\* The bound of the queue holds in every behaviour.
THEOREM SizeAlwaysBelowMax == Spec => []SizeBelowMax
PROOF
<1>1. Init => SizeBelowMax
  BY DEF Init, SizeBelowMax
<1> QED BY <1>1, InitInv, StepInv, StepBelowMax, PTL DEF Spec

-----------------------------------------------------------------------------
\* What is queued was accepted after the last flush, and what is in hand too, unless
\* it was in hand then.
AfterFlush ==
  /\ flushMark <= accepted
  /\ \A i \in 1 .. Len(queue) : queue[i].no > flushMark
  /\ nodePtr # <<>> => nodePtr[1].no > flushMark \/ nodePtr[1].no = handMark

\* The head goes off the queue: what stays was accepted after the flush, as it was.
LEMMA UnlinkAfterFlush ==
  ASSUME IInv, AfterFlush, queue # <<>>, Unlink
  PROVE  /\ \A i \in 1 .. Len(queue') : queue'[i].no > flushMark
         /\ Head(queue).no > flushMark
PROOF
<1>1. queue \in Seq(Chunk) /\ Len(queue) \in Nat \ {0}
  BY DEF IInv, TypeOK
<1>2. /\ Len(queue') = Len(queue) - 1 /\ Head(queue) = queue[1]
      /\ \A i \in 1 .. Len(queue) - 1 : queue'[i] = queue[i + 1]
  BY <1>1 DEF Unlink
<1>3. \A i \in 1 .. Len(queue) - 1 : i + 1 \in 1 .. Len(queue)
  BY <1>1
<1> QED BY <1>1, <1>2, <1>3 DEF AfterFlush

\* Every step keeps AfterFlush.
LEMMA StepAfterFlush == IInv /\ AfterFlush /\ [Next]_vars => AfterFlush'
PROOF
<1> SUFFICES ASSUME IInv, AfterFlush, [Next]_vars PROVE AfterFlush'
  OBVIOUS
<1> USE DEF queueVars, consumerVars, flushVars
<1>1. flushMark \in Nat /\ accepted \in Nat /\ queue \in Seq(Chunk)
  BY DEF IInv, TypeOK
<1>2. CASE TakeNode
  <2>1. queue # <<>> /\ Unlink /\ nodePtr' = <<Head(queue)>> /\ UNCHANGED <<flushMark, handMark, accepted>>
    BY <1>2 DEF TakeNode, Unlink
  <2>2. nodePtr'[1] = Head(queue)
    BY <2>1
  <2> QED BY <2>1, <2>2, UnlinkAfterFlush DEF AfterFlush
<1>3. CASE FlushNode
  <2>1. queue # <<>> /\ Unlink /\ UNCHANGED <<nodePtr, flushMark, handMark, accepted>>
    BY <1>3 DEF FlushNode, Unlink
  <2> QED BY <2>1, UnlinkAfterFlush DEF AfterFlush
<1>4. CASE FlushEnd
  BY <1>1, <1>4 DEF FlushEnd, AfterFlush
<1>5. CASE AddChunk
  <2> DEFINE c == [no |-> accepted + 1, size |-> offered, start |-> added]
  <2>1. /\ queue' = Append(queue, c) /\ accepted' = accepted + 1
        /\ UNCHANGED <<nodePtr, flushMark, handMark>>
    BY <1>5 DEF AddChunk
  <2>2. c.no > flushMark
    BY <1>1 DEF AfterFlush
  <2> HIDE DEF c
  <2>3. /\ Len(queue) \in Nat /\ Len(queue') = Len(queue) + 1 /\ queue'[Len(queue) + 1] = c
        /\ \A i \in 1 .. Len(queue) : queue'[i] = queue[i]
    BY <1>1, <2>1
  <2>4. \A i \in 1 .. Len(queue') : queue'[i].no > flushMark
    <3> TAKE i \in 1 .. Len(queue')
    <3>1. i \in 1 .. Len(queue) \/ i = Len(queue) + 1
      BY <2>3
    <3> QED BY <3>1, <2>2, <2>3 DEF AfterFlush
  <2> QED BY <1>1, <2>1, <2>4 DEF AfterFlush
<1>6. CASE WaitForData
  BY <1>6 DEF WaitForData, AfterFlush
<1>7. CASE UNCHANGED <<queue, accepted, nodePtr, flushMark, handMark>>
  BY <1>7 DEF AfterFlush
<1>8. \/ TakeNode \/ FlushNode \/ FlushEnd \/ AddChunk \/ WaitForData
      \/ UNCHANGED <<queue, accepted, nodePtr, flushMark, handMark>>
  BY DEF vars, Next, ConsumerNext, ProducerNext, PlayerNext, Open,
     OpenInitSync, LoopTop, CheckWrite, FlushPipe, WriteFails, SignalExit, ThreadEnds,
     Offer, GiveUp, WaitForRoom, SetSeeking, FlushBegin, FlushLock, Pause, Continue,
     Resume, DieNow, CloseBegin, CloseSignal, CloseTimeout, CloseReturn, WriteSome
<1> QED BY <1>2, <1>3, <1>4, <1>5, <1>6, <1>7, <1>8

\* Only the node in hand is written.
LEMMA WritesHand ==
  IInv /\ AfterFlush /\ [Next]_vars =>
    [written' # written => \/ written'[Len(written')] > flushMark
                           \/ written'[Len(written')] = handMark]_vars
PROOF
<1> SUFFICES ASSUME IInv, AfterFlush, Next, written' # written
             PROVE  \/ written'[Len(written')] > flushMark
                    \/ written'[Len(written')] = handMark
  BY DEF vars
<1>1. WriteSome
  BY DEF Next, ConsumerNext, ProducerNext, PlayerNext, Open,
     OpenInitSync, LoopTop, CheckWrite, FlushPipe, WriteFails, SignalExit, ThreadEnds,
     Offer, GiveUp, WaitForRoom, SetSeeking, FlushBegin, FlushLock, FlushNode, FlushEnd, Pause,
     Continue, Resume, DieNow, CloseBegin, CloseSignal, CloseTimeout, CloseReturn, WaitForData,
     TakeNode, AddChunk
<1>2. consumer = "select" /\ written' = Append(written, nodePtr[1].no)
  BY <1>1 DEF WriteSome
<1>3. nodePtr \in Seq(Chunk) /\ Len(nodePtr) = 1 /\ written \in Seq(Nat)
  BY <1>2 DEF IInv, TypeOK, NodeInHand
<1>4. nodePtr # <<>>
  <2>1. Len(<<>>) = 0 /\ 0 # 1
    BY EmptySeq
  <2> QED BY <1>3, <2>1, Zenon
<1>5. written'[Len(written')] = nodePtr[1].no
  <2>1. nodePtr[1] \in Chunk
    BY <1>3
  <2>2. nodePtr[1].no \in Nat
    BY <2>1 DEF Chunk
  <2>3. Len(written') = Len(written) + 1 /\ written'[Len(written) + 1] = nodePtr[1].no
    BY <1>2, <1>3, <2>2, AppendProperties
  <2> QED BY <2>3
<1> QED BY <1>4, <1>5 DEF AfterFlush

\* Of the chunks accepted before a flush only the one the thread had in hand may
\* still reach the decoder.
THEOREM OldChunksStayBehind == Spec => OnlyChunkInHandOutlivesFlush
PROOF
<1>1. Init => AfterFlush
  BY DEF Init, AfterFlush
<1> QED BY <1>1, InitInv, StepInv, StepAfterFlush, WritesHand, PTL
        DEF Spec, OnlyChunkInHandOutlivesFlush

-----------------------------------------------------------------------------
(***************************************************************************)
(* BufferingQueue implements LossyFifo, for every chunk size, header size  *)
(* and queue bound: each step of the output accepts a chunk behind all     *)
(* others, hands the first one to the decoder, loses one, or leaves what   *)
(* is pending as it is.                                                    *)
(***************************************************************************)

\* The node in hand has no more left than it has bytes: a write that has begun
\* does not look like a chunk of which nothing is written.
LeftOfNode ==
  consumer \in {"check", "select", "frozen"} => left <= nodePtr[1].size

RInv == IInv /\ LeftOfNode

-----------------------------------------------------------------------------
(* Sequences *)

\* Appending to the second of two sequences is appending to both together.
LEMMA AppendToConcat ==
  ASSUME NEW a \in Seq(Nat), NEW b \in Seq(Nat), NEW x \in Nat
  PROVE  a \o Append(b, x) = Append(a \o b, x)
PROOF
<1>1. /\ Len(a) \in Nat /\ Len(b) \in Nat
      /\ Append(b, x) \in Seq(Nat) /\ Len(Append(b, x)) = Len(b) + 1
      /\ \A i \in 1 .. Len(b) : Append(b, x)[i] = b[i]
      /\ Append(b, x)[Len(b) + 1] = x
  OBVIOUS
<1> DEFINE bx == Append(b, x)
           ab == a \o b
<1>2. /\ ab \in Seq(Nat) /\ Len(ab) = Len(a) + Len(b)
      /\ \A i \in 1 .. Len(a) + Len(b) : ab[i] = IF i <= Len(a) THEN a[i] ELSE b[i - Len(a)]
  BY ConcatProperties
<1>3. /\ a \o bx \in Seq(Nat) /\ Len(a \o bx) = Len(a) + Len(bx)
      /\ \A i \in 1 .. Len(a) + Len(bx) :
           (a \o bx)[i] = IF i <= Len(a) THEN a[i] ELSE bx[i - Len(a)]
  <2>1. bx \in Seq(Nat)
    BY <1>1
  <2> HIDE DEF bx
  <2> QED BY <2>1, ConcatProperties
<1> HIDE DEF ab, bx
<1>4. /\ Append(ab, x) \in Seq(Nat) /\ Len(Append(ab, x)) = Len(ab) + 1
      /\ \A i \in 1 .. Len(ab) : Append(ab, x)[i] = ab[i]
      /\ Append(ab, x)[Len(ab) + 1] = x
  BY <1>2, AppendProperties
<1>5. Len(a \o bx) = Len(Append(ab, x))
  BY <1>1, <1>2, <1>3, <1>4 DEF bx
<1>6. ASSUME NEW i \in 1 .. Len(a \o bx) PROVE (a \o bx)[i] = Append(ab, x)[i]
  <2>0. i \in 1 .. Len(a) + Len(bx) /\ Len(bx) = Len(b) + 1
    BY <1>1, <1>3, <1>6 DEF bx
  <2>1. CASE i <= Len(a)
    <3>1. i \in 1 .. Len(ab) /\ i \in 1 .. Len(a) + Len(b)
      BY <2>0, <2>1, <1>1, <1>2
    <3> QED BY <3>1, <2>0, <2>1, <1>2, <1>3, <1>4
  <2>2. CASE ~(i <= Len(a)) /\ i <= Len(a) + Len(b)
    <3>1. i \in 1 .. Len(ab) /\ i \in 1 .. Len(a) + Len(b) /\ i - Len(a) \in 1 .. Len(b)
      BY <2>0, <2>2, <1>1, <1>2
    <3>2. bx[i - Len(a)] = b[i - Len(a)]
      BY <3>1, <1>1 DEF bx
    <3> QED BY <3>1, <3>2, <2>0, <2>2, <1>2, <1>3, <1>4
  <2>3. CASE i = Len(a) + Len(b) + 1
    <3>1. ~(i <= Len(a)) /\ i - Len(a) = Len(b) + 1 /\ i = Len(ab) + 1
      BY <2>3, <1>1, <1>2
    <3>2. bx[i - Len(a)] = x
      BY <3>1, <1>1 DEF bx
    <3> QED BY <3>1, <3>2, <2>0, <1>3, <1>4
  <2>4. i \in Int /\ i <= Len(a) + (Len(b) + 1)
    BY <2>0, <1>1
  <2>5. i <= Len(a) \/ (~(i <= Len(a)) /\ i <= Len(a) + Len(b)) \/ i = Len(a) + Len(b) + 1
    BY <2>4, <1>1
  <2> QED BY <2>1, <2>2, <2>3, <2>5
<1> QED BY <1>3, <1>4, <1>5, <1>6, SeqEqual DEF ab, bx

\* Taking the first element of the second sequence out of both together.
LEMMA WithoutFirstOfSecond ==
  ASSUME NEW a \in Seq(Nat), NEW b \in Seq(Nat), b # <<>>
  PROVE  /\ Len(a) + 1 \in DOMAIN (a \o b)
         /\ Fifo!Without(a \o b, Len(a) + 1) = a \o Tail(b)
PROOF
<1>1. /\ Len(a) \in Nat /\ Len(b) \in Nat \ {0}
      /\ Tail(b) \in Seq(Nat) /\ Len(Tail(b)) = Len(b) - 1
      /\ \A i \in 1 .. Len(b) - 1 : Tail(b)[i] = b[i + 1]
  OBVIOUS
<1> DEFINE ab == a \o b
           t  == Tail(b)
<1>2. /\ ab \in Seq(Nat) /\ Len(ab) = Len(a) + Len(b)
      /\ \A i \in 1 .. Len(a) + Len(b) : ab[i] = IF i <= Len(a) THEN a[i] ELSE b[i - Len(a)]
  BY ConcatProperties
<1>3. /\ a \o t \in Seq(Nat) /\ Len(a \o t) = Len(a) + Len(t)
      /\ \A i \in 1 .. Len(a) + Len(t) :
           (a \o t)[i] = IF i <= Len(a) THEN a[i] ELSE t[i - Len(a)]
  <2>1. t \in Seq(Nat)
    BY <1>1
  <2> HIDE DEF t
  <2> QED BY <2>1, ConcatProperties
<1> HIDE DEF ab, t
<1>4. Len(t) = Len(b) - 1 /\ Len(a \o t) = Len(ab) - 1
  BY <1>1, <1>2, <1>3 DEF t
<1>5. a \o t = [i \in 1 .. Len(ab) - 1 |-> (a \o t)[i]]
  <2> DEFINE at == a \o t
  <2>1. at \in Seq(Nat) /\ Len(at) = Len(ab) - 1
    BY <1>3, <1>4
  <2> HIDE DEF at
  <2>2. at = [i \in 1 .. Len(at) |-> at[i]]
    BY <2>1
  <2>3. at = [i \in 1 .. Len(ab) - 1 |-> at[i]]
    BY <2>1, <2>2
  <2> QED BY <2>3 DEF at
<1>6. ASSUME NEW i \in 1 .. Len(ab) - 1
      PROVE  (a \o t)[i] = IF i < Len(a) + 1 THEN ab[i] ELSE ab[i + 1]
  <2>0. i \in 1 .. Len(a) + Len(t) /\ i \in 1 .. Len(a) + Len(b) /\ i \in Nat
    BY <1>1, <1>2, <1>4, <1>6
  <2>1. CASE i < Len(a) + 1
    <3>1. i <= Len(a)
      BY <2>0, <2>1, <1>1
    <3> QED BY <3>1, <2>0, <2>1, <1>2, <1>3
  <2>2. CASE ~(i < Len(a) + 1)
    <3>1. /\ ~(i <= Len(a)) /\ ~(i + 1 <= Len(a)) /\ i + 1 \in 1 .. Len(a) + Len(b)
          /\ i - Len(a) \in 1 .. Len(b) - 1 /\ (i + 1) - Len(a) = (i - Len(a)) + 1
      BY <2>0, <2>2, <1>1, <1>2, <1>4
    <3>2. t[i - Len(a)] = b[(i - Len(a)) + 1]
      BY <3>1, <1>1 DEF t
    <3>3. ab[i + 1] = b[(i + 1) - Len(a)] /\ (a \o t)[i] = t[i - Len(a)]
      BY <3>1, <2>0, <1>2, <1>3
    <3> QED BY <3>1, <3>2, <3>3, <2>2
  <2> QED BY <2>1, <2>2
<1>7. Fifo!Without(ab, Len(a) + 1)
        = [i \in 1 .. Len(ab) - 1 |-> IF i < Len(a) + 1 THEN ab[i] ELSE ab[i + 1]]
  BY DEF Fifo!Without
<1>8. Fifo!Without(ab, Len(a) + 1) = a \o t
  BY <1>5, <1>6, <1>7
<1>9. Len(a) + 1 \in DOMAIN ab
  BY <1>1, <1>2
<1> QED BY <1>8, <1>9 DEF ab, t

\* An element in front of a sequence is the first one to go.
LEMMA WithoutFirst ==
  ASSUME NEW x \in Nat, NEW b \in Seq(Nat)
  PROVE  /\ <<x>> \o b # <<>> /\ 1 \in DOMAIN (<<x>> \o b) /\ (<<x>> \o b)[1] = x
         /\ Fifo!Without(<<x>> \o b, 1) = b
PROOF
<1> DEFINE a == <<x>> \o b
<1>1. /\ Len(b) \in Nat
      /\ a \in Seq(Nat) /\ Len(a) = 1 + Len(b)
      /\ \A i \in 1 .. 1 + Len(b) : a[i] = IF i <= 1 THEN <<x>>[i] ELSE b[i - 1]
  <2>1. <<x>> \in Seq(Nat) /\ Len(<<x>>) = 1 /\ Len(b) \in Nat
    OBVIOUS
  <2> QED BY <2>1, ConcatProperties
<1> HIDE DEF a
<1>2. a[1] = x /\ 1 \in DOMAIN a /\ a # <<>>
  BY <1>1
<1>3. \A i \in 1 .. Len(b) : a[i + 1] = b[i]
  <2> TAKE i \in 1 .. Len(b)
  <2>1. i + 1 \in 1 .. 1 + Len(b) /\ ~(i + 1 <= 1) /\ (i + 1) - 1 = i
    BY <1>1
  <2> QED BY <1>1, <2>1
<1>4. b = [i \in 1 .. Len(b) |-> b[i]]
  OBVIOUS
<1>5. Fifo!Without(a, 1) = [i \in 1 .. Len(a) - 1 |-> IF i < 1 THEN a[i] ELSE a[i + 1]]
  BY DEF Fifo!Without
<1>6. Len(a) - 1 = Len(b) /\ \A i \in 1 .. Len(b) : ~(i < 1)
  BY <1>1
<1> QED BY <1>2, <1>3, <1>4, <1>5, <1>6 DEF a

\* The numbers of the chunks of a sequence are a sequence as long.
LEMMA NumbersProps ==
  ASSUME NEW q \in Seq(Chunk)
  PROVE  /\ Numbers(q) \in Seq(Nat) /\ Len(Numbers(q)) = Len(q)
         /\ \A i \in 1 .. Len(q) : Numbers(q)[i] = q[i].no
PROOF
<1>1. Len(q) \in Nat /\ \A i \in 1 .. Len(q) : q[i].no \in Nat
  <2>1. Len(q) \in Nat /\ \A i \in 1 .. Len(q) : q[i] \in Chunk
    OBVIOUS
  <2> QED BY <2>1 DEF Chunk
<1>2. Numbers(q) \in [1 .. Len(q) -> Nat]
  BY <1>1 DEF Numbers
<1>3. Numbers(q) \in Seq(Nat)
  BY <1>1, <1>2, SeqDef
<1> QED BY <1>1, <1>2, <1>3 DEF Numbers

\* A chunk behind the queue is a number behind its numbers.
LEMMA NumbersAppend ==
  ASSUME NEW q \in Seq(Chunk), NEW c \in Chunk
  PROVE  Numbers(Append(q, c)) = Append(Numbers(q), c.no)
PROOF
<1> DEFINE qc == Append(q, c)
           n  == Numbers(q)
<1>1. /\ qc \in Seq(Chunk) /\ Len(qc) = Len(q) + 1 /\ Len(q) \in Nat
      /\ \A i \in 1 .. Len(q) : qc[i] = q[i]
      /\ qc[Len(q) + 1] = c
  BY AppendProperties
<1>2. n \in Seq(Nat) /\ Len(n) = Len(q) /\ \A i \in 1 .. Len(q) : n[i] = q[i].no
  BY NumbersProps
<1>3. c.no \in Nat
  BY DEF Chunk
<1> HIDE DEF qc, n
<1>4. /\ Append(n, c.no) \in Seq(Nat) /\ Len(Append(n, c.no)) = Len(q) + 1
      /\ \A i \in 1 .. Len(q) : Append(n, c.no)[i] = n[i]
      /\ Append(n, c.no)[Len(q) + 1] = c.no
  BY <1>2, <1>3, AppendProperties
<1>5. /\ Numbers(qc) \in Seq(Nat) /\ Len(Numbers(qc)) = Len(q) + 1
      /\ \A i \in 1 .. Len(q) + 1 : Numbers(qc)[i] = qc[i].no
  BY <1>1, NumbersProps
<1>6. \A i \in 1 .. Len(q) + 1 : Numbers(qc)[i] = Append(n, c.no)[i]
  <2> TAKE i \in 1 .. Len(q) + 1
  <2>1. i \in 1 .. Len(q) \/ i = Len(q) + 1
    BY <1>1
  <2> QED BY <2>1, <1>1, <1>2, <1>4, <1>5
<1> QED BY <1>4, <1>5, <1>6, SeqEqual DEF qc, n

\* The numbers without the first are those of the queue without its head, and the
\* head in hand before the rest of the queue is what the queue was.
LEMMA NumbersTail ==
  ASSUME NEW q \in Seq(Chunk), q # <<>>
  PROVE  /\ Numbers(q) # <<>>
         /\ Numbers(Tail(q)) = Tail(Numbers(q))
         /\ <<Head(q).no>> \o Numbers(Tail(q)) = Numbers(q)
PROOF
<1> DEFINE t == Tail(q)
           n == Numbers(q)
<1>1. /\ t \in Seq(Chunk) /\ Len(t) = Len(q) - 1 /\ Len(q) \in Nat \ {0}
      /\ \A i \in 1 .. Len(q) - 1 : t[i] = q[i + 1]
      /\ Head(q) = q[1]
  OBVIOUS
<1>2. n \in Seq(Nat) /\ Len(n) = Len(q) /\ \A i \in 1 .. Len(q) : n[i] = q[i].no
  BY NumbersProps
<1> HIDE DEF t, n
<1>3. n # <<>>
  BY <1>1, <1>2
<1>4. /\ Tail(n) \in Seq(Nat) /\ Len(Tail(n)) = Len(q) - 1
      /\ \A i \in 1 .. Len(q) - 1 : Tail(n)[i] = n[i + 1]
  BY <1>1, <1>2, <1>3
<1>5. /\ Numbers(t) \in Seq(Nat) /\ Len(Numbers(t)) = Len(q) - 1
      /\ \A i \in 1 .. Len(q) - 1 : Numbers(t)[i] = t[i].no
  BY <1>1, NumbersProps
<1>6. \A i \in 1 .. Len(q) - 1 : Numbers(t)[i] = Tail(n)[i]
  <2> TAKE i \in 1 .. Len(q) - 1
  <2>1. i + 1 \in 1 .. Len(q)
    BY <1>1
  <2> QED BY <2>1, <1>1, <1>2, <1>4, <1>5
<1>7. Numbers(t) = Tail(n)
  BY <1>4, <1>5, <1>6, SeqEqual
<1>8. <<Head(q).no>> \o Numbers(t) = n
  <2> DEFINE x == Head(q).no
             m == Numbers(t)
  <2>1. x \in Nat /\ x = n[1]
    BY <1>1, <1>2
  <2>2. m = Tail(n) /\ m \in Seq(Nat) /\ <<x>> \in Seq(Nat) /\ Len(<<x>>) = 1 /\ <<x>>[1] = x
    BY <1>5, <1>7, <2>1
  <2> HIDE DEF x, m
  <2>3. /\ <<x>> \o m \in Seq(Nat) /\ Len(<<x>> \o m) = 1 + Len(m)
        /\ \A i \in 1 .. 1 + Len(m) : (<<x>> \o m)[i] = IF i <= 1 THEN <<x>>[i] ELSE m[i - 1]
    BY <2>2, ConcatProperties
  <2>4. Len(m) = Len(q) - 1 /\ 1 + Len(m) = Len(q)
    BY <1>1, <1>4, <2>2
  <2>5. \A i \in 1 .. Len(q) : (<<x>> \o m)[i] = n[i]
    <3> TAKE i \in 1 .. Len(q)
    <3>1. CASE i = 1
      BY <3>1, <2>1, <2>2, <2>3, <2>4, <1>1
    <3>2. CASE i # 1
      <4>1. i - 1 \in 1 .. Len(q) - 1 /\ ~(i <= 1) /\ (i - 1) + 1 = i
        BY <3>2, <1>1
      <4>2. (<<x>> \o m)[i] = m[i - 1]
        BY <4>1, <2>3, <2>4
      <4> QED BY <4>1, <4>2, <2>2, <1>4
    <3> QED BY <3>1, <3>2
  <2> QED BY <1>2, <2>3, <2>4, <2>5, SeqEqual DEF x, m
<1> QED BY <1>3, <1>7, <1>8 DEF t, n

-----------------------------------------------------------------------------
(* The steps *)

\* The chunk in hand, and what is left of it.
LEMMA HandProps ==
  ASSUME RInv, consumer \in {"check", "select", "frozen"}
  PROVE  left \in Nat /\ nodePtr[1] \in Chunk /\ left <= nodePtr[1].size
PROOF
<1>1. nodePtr \in Seq(Chunk) /\ Len(nodePtr) = 1
  BY DEF RInv, IInv, TypeOK, NodeInHand
<1>2. nodePtr[1] \in Chunk
  BY <1>1
<1> QED BY <1>2 DEF RInv, IInv, TypeOK, LeftOfNode

\* What is pending is a sequence of numbers, and only a thread about to write has
\* a chunk in hand.
LEMMA PendingProps ==
  ASSUME RInv
  PROVE  /\ InHand \in Seq(Nat) /\ Numbers(queue) \in Seq(Nat)
         /\ InHand = <<>> \/ (nodePtr[1].no \in Nat /\ InHand = <<nodePtr[1].no>>)
         /\ consumer \notin {"check", "select", "frozen"} => InHand = <<>>
PROOF
<1>1. Numbers(queue) \in Seq(Nat)
  BY NumbersProps DEF RInv, IInv, TypeOK
<1>2. CASE consumer \in {"check", "select", "frozen"}
  <2>1. nodePtr[1] \in Chunk
    BY <1>2, HandProps
  <2>2. nodePtr[1].no \in Nat
    BY <2>1 DEF Chunk
  <2> QED BY <1>1, <1>2, <2>2 DEF InHand
<1>3. CASE consumer \notin {"check", "select", "frozen"}
  BY <1>1, <1>3 DEF InHand
<1> QED BY <1>2, <1>3

\* A chunk that was in hand untouched and no longer is, is lost; if it was touched
\* before, nothing changes.
LEMMA HandLoses ==
  ASSUME RInv, InHand' = <<>>, UNCHANGED <<queue, accepted, written>>
  PROVE  [Fifo!Next]_(Fifo!fifoVars)
PROOF
<1>1. Numbers(queue)' = Numbers(queue) /\ (InHand \o Numbers(queue))' = Numbers(queue)
  <2>1. Numbers(queue)' = Numbers(queue)
    BY DEF Numbers
  <2>2. (InHand \o Numbers(queue))' = <<>> \o Numbers(queue)
    BY <2>1
  <2> QED BY <2>1, <2>2, PendingProps, ConcatEmptySeq
<1>2. CASE InHand = <<>>
  <2>1. (InHand \o Numbers(queue))' = InHand \o Numbers(queue)
    BY <1>1, <1>2, PendingProps, ConcatEmptySeq
  <2> QED BY <2>1 DEF Fifo!fifoVars
<1>3. CASE nodePtr[1].no \in Nat /\ InHand = <<nodePtr[1].no>>
  <2>1. 1 \in DOMAIN (InHand \o Numbers(queue))
    BY <1>3, PendingProps, WithoutFirst
  <2>2. (InHand \o Numbers(queue))' = Fifo!Without(InHand \o Numbers(queue), 1)
    BY <1>1, <1>3, PendingProps, WithoutFirst
  <2>3. Fifo!Lose
    BY <2>1, <2>2 DEF Fifo!Lose
  <2> QED BY <2>3 DEF Fifo!Next
<1> QED BY <1>2, <1>3, PendingProps

\* The head of the queue can go without being written.
LEMMA QueueLoses ==
  ASSUME RInv, queue # <<>>, queue' = Tail(queue), InHand' = InHand,
         UNCHANGED <<accepted, written>>
  PROVE  Fifo!Lose
PROOF
<1>1. queue \in Seq(Chunk)
  BY DEF RInv, IInv, TypeOK
<1>2. Numbers(queue) # <<>> /\ Numbers(queue') = Tail(Numbers(queue))
  BY <1>1, NumbersTail
<1>3. Numbers(queue)' = Tail(Numbers(queue))
  BY <1>2 DEF Numbers
<1>4. (InHand \o Numbers(queue))' = InHand \o Tail(Numbers(queue))
  BY <1>3
<1>5. /\ Len(InHand) + 1 \in DOMAIN (InHand \o Numbers(queue))
      /\ Fifo!Without(InHand \o Numbers(queue), Len(InHand) + 1) = InHand \o Tail(Numbers(queue))
  BY <1>2, PendingProps, WithoutFirstOfSecond
<1> QED BY <1>4, <1>5 DEF Fifo!Lose

\* Nothing pending changes.
LEMMA Stutters ==
  ASSUME (InHand \o Numbers(queue))' = InHand \o Numbers(queue), UNCHANGED <<accepted, written>>
  PROVE  [Fifo!Next]_(Fifo!fifoVars)
PROOF BY DEF Fifo!fifoVars

\* The same hand before the same queue.
LEMMA Quiet ==
  ASSUME InHand' = InHand, UNCHANGED <<queue, accepted, written>>
  PROVE  [Fifo!Next]_(Fifo!fifoVars)
PROOF
<1>1. (InHand \o Numbers(queue))' = InHand \o Numbers(queue)
  BY DEF Numbers
<1> QED BY <1>1, Stutters

\* Every step of the output is one of the fifo, or changes nothing of it.
LEMMA StepFifo == RInv /\ [Next]_vars => [Fifo!Next]_(Fifo!fifoVars)
PROOF
<1> SUFFICES ASSUME RInv, [Next]_vars PROVE [Fifo!Next]_(Fifo!fifoVars)
  OBVIOUS
<1> USE DEF queueVars, consumerVars
<1>1. CASE Offer \/ GiveUp \/ WaitForRoom \/ SetSeeking \/ FlushBegin \/ FlushLock \/ FlushEnd
           \/ Continue \/ Resume \/ DieNow \/ CloseBegin \/ CloseTimeout \/ CloseReturn
           \/ UNCHANGED vars
  <2>1. UNCHANGED <<queue, accepted, written, nodePtr, left, consumer>>
    BY <1>1 DEF vars, Offer, GiveUp, WaitForRoom, SetSeeking, FlushBegin, FlushLock, FlushEnd,
                Continue, Resume, DieNow, CloseBegin, CloseTimeout, CloseReturn
  <2>2. InHand' = InHand
    BY <2>1 DEF InHand
  <2> QED BY <2>1, <2>2, Quiet
<1>2. CASE Open \/ OpenInitSync \/ LoopTop \/ SignalExit \/ ThreadEnds \/ CloseSignal
  <2>1. /\ UNCHANGED <<queue, accepted, written, nodePtr, left>>
        /\ \/ consumer' = consumer
           \/ {consumer, consumer'} \cap {"check", "select", "frozen"} = {}
    BY <1>2 DEF Open, OpenInitSync, LoopTop, SignalExit, ThreadEnds, CloseSignal, SignalDataAdded
  <2>2. InHand' = InHand
    BY <2>1 DEF InHand
  <2> QED BY <2>1, <2>2, Quiet
<1>3. CASE FlushPipe \/ Pause
  <2>1. /\ UNCHANGED <<queue, accepted, written, nodePtr, left>>
        /\ \/ consumer' = consumer
           \/ {consumer, consumer'} \subseteq {"check", "select", "frozen"}
    BY <1>3 DEF FlushPipe, Pause
  <2>2. InHand' = InHand
    BY <2>1 DEF InHand
  <2> QED BY <2>1, <2>2, Quiet
<1>4. CASE CheckWrite
  <2>1. /\ UNCHANGED <<queue, accepted, written, nodePtr, left>>
        /\ consumer = "check" /\ consumer' \in {"top", "select", "frozen"}
    BY <1>4 DEF CheckWrite
  <2>2. CASE consumer' = "top"
    <3>1. InHand' = <<>>
      BY <2>2 DEF InHand
    <3> QED BY <2>1, <3>1, HandLoses
  <2>3. CASE consumer' \in {"select", "frozen"}
    <3>1. InHand' = InHand
      BY <2>1, <2>3 DEF InHand
    <3> QED BY <2>1, <3>1, Quiet
  <2> QED BY <2>1, <2>2, <2>3
<1>5. CASE WaitForData \/ WriteFails
  <2>1. UNCHANGED <<queue, accepted, written>> /\ consumer' \in {"addedWait", "top"}
    BY <1>5 DEF WaitForData, WriteFails
  <2>2. InHand' = <<>>
    BY <2>1 DEF InHand
  <2> QED BY <2>1, <2>2, HandLoses
<1>6. CASE FlushNode
  <2>1. queue # <<>> /\ queue' = Tail(queue) /\ UNCHANGED <<accepted, written, nodePtr, left, consumer>>
    BY <1>6 DEF FlushNode, Unlink
  <2>2. InHand' = InHand
    BY <2>1 DEF InHand
  <2>3. Fifo!Lose
    BY <2>1, <2>2, QueueLoses
  <2> QED BY <2>3 DEF Fifo!Next
<1>7. CASE TakeNode
  <2>1. /\ queue # <<>> /\ queue' = Tail(queue) /\ UNCHANGED <<accepted, written>>
        /\ consumer = "lock" /\ consumer' = "check"
        /\ nodePtr' = <<Head(queue)>> /\ left' = Head(queue).size
    BY <1>7 DEF TakeNode, Unlink
  <2>2. InHand = <<>>
    BY <2>1, PendingProps
  <2>3. InHand' = <<Head(queue).no>>
    <3>1. nodePtr'[1] = Head(queue)
      BY <2>1
    <3> QED BY <2>1, <3>1 DEF InHand
  <2>4. queue \in Seq(Chunk)
    BY DEF RInv, IInv, TypeOK
  <2>5. Numbers(queue)' = Numbers(Tail(queue))
    BY <2>1 DEF Numbers
  <2>6. (InHand \o Numbers(queue))' = Numbers(queue)
    BY <2>1, <2>3, <2>4, <2>5, NumbersTail
  <2>7. InHand \o Numbers(queue) = Numbers(queue)
    BY <2>2, PendingProps, ConcatEmptySeq
  <2> QED BY <2>1, <2>6, <2>7, Stutters
<1>8. CASE WriteSome
  <2>1. /\ consumer = "select" /\ consumer' = "check" /\ UNCHANGED <<queue, accepted, nodePtr>>
        /\ written' = IF left = nodePtr[1].size THEN Append(written, nodePtr[1].no) ELSE written
    BY <1>8 DEF WriteSome
  <2>2. left \in Nat /\ nodePtr[1] \in Chunk /\ left <= nodePtr[1].size
    BY <2>1, HandProps
  <2>3. left' < left
    <3>1. PICK r \in 1 .. left : left' = left - r
      BY <1>8 DEF WriteSome
    <3> QED BY <2>2, <3>1
  <2>4. left' # nodePtr[1].size
    <3>1. left' \in Int
      <4>1. PICK r \in 1 .. left : left' = left - r
        BY <1>8 DEF WriteSome
      <4> QED BY <2>2, <4>1
    <3>2. nodePtr[1].size \in Nat
      BY <2>2 DEF Chunk
    <3> QED BY <2>2, <2>3, <3>1, <3>2
  <2>5. InHand' = <<>>
    BY <2>1, <2>4 DEF InHand
  <2>6. CASE left = nodePtr[1].size
    <3>1. InHand = <<nodePtr[1].no>> /\ nodePtr[1].no \in Nat
      BY <2>1, <2>2, <2>6 DEF InHand, Chunk
    <3>2. Numbers(queue)' = Numbers(queue)
      BY <2>1 DEF Numbers
    <3>3. (InHand \o Numbers(queue))' = Numbers(queue)
      <4>1. (InHand \o Numbers(queue))' = <<>> \o Numbers(queue)
        BY <2>5, <3>2
      <4> QED BY <4>1, PendingProps, ConcatEmptySeq
    <3>4. /\ InHand \o Numbers(queue) # <<>>
          /\ (InHand \o Numbers(queue))[1] = nodePtr[1].no
          /\ Fifo!Without(InHand \o Numbers(queue), 1) = Numbers(queue)
      BY <3>1, PendingProps, WithoutFirst
    <3>5. written' = Append(written, (InHand \o Numbers(queue))[1])
      BY <2>1, <2>6, <3>4
    <3>6. Fifo!Deliver
      BY <2>1, <3>3, <3>4, <3>5 DEF Fifo!Deliver
    <3> QED BY <3>6 DEF Fifo!Next
  <2>7. CASE left # nodePtr[1].size
    BY <2>1, <2>5, <2>7, HandLoses
  <2> QED BY <2>6, <2>7
<1>9. CASE AddChunk
  <2> DEFINE c == [no |-> accepted + 1, size |-> offered, start |-> added]
  <2>1. /\ queue' = Append(queue, c) /\ accepted' = accepted + 1
        /\ UNCHANGED <<written, nodePtr, left>>
        /\ consumer' = IF consumer = "addedWait" THEN "top" ELSE consumer
    BY <1>9 DEF AddChunk, SignalDataAdded
  <2>2. InHand' = InHand
    BY <2>1 DEF InHand
  <2>3. queue \in Seq(Chunk) /\ accepted \in Nat /\ added \in Nat
    BY DEF RInv, IInv, TypeOK
  <2>4. c \in Chunk /\ c.no = accepted + 1
    <3>1. offered \in Nat \ {0}
      BY <1>9, SizesAssumption DEF RInv, IInv, AddChunk, OfferMade
    <3> QED BY <2>3, <3>1 DEF Chunk
  <2> HIDE DEF c
  <2>5. Numbers(queue)' = Append(Numbers(queue), accepted + 1)
    <3>1. Numbers(queue)' = Numbers(Append(queue, c))
      BY <2>1 DEF Numbers
    <3> QED BY <2>3, <2>4, <3>1, NumbersAppend
  <2>6. (InHand \o Numbers(queue))' = InHand \o Append(Numbers(queue), accepted + 1)
    BY <2>2, <2>5
  <2>7. (InHand \o Numbers(queue))' = Append(InHand \o Numbers(queue), accepted + 1)
    <3>1. accepted + 1 \in Nat
      BY <2>3
    <3> QED BY <2>6, <3>1, PendingProps, AppendToConcat
  <2>8. Fifo!Accept
    BY <2>1, <2>7 DEF Fifo!Accept
  <2> QED BY <2>8 DEF Fifo!Next
<1> QED
  BY <1>1, <1>2, <1>3, <1>4, <1>5, <1>6, <1>7, <1>8, <1>9 DEF Next, ConsumerNext,
     ProducerNext, PlayerNext

-----------------------------------------------------------------------------
\* The bytes left of the node in hand stay within it.
LEMMA StepLeft == RInv /\ [Next]_vars => LeftOfNode'
PROOF
<1> SUFFICES ASSUME RInv, [Next]_vars, consumer' \in {"check", "select", "frozen"}
             PROVE  left' <= nodePtr'[1].size
  BY DEF LeftOfNode
<1> USE DEF queueVars, consumerVars
<1>1. CASE TakeNode
  <2>1. nodePtr' = <<Head(queue)>> /\ left' = Head(queue).size /\ queue # <<>> /\ queue \in Seq(Chunk)
    BY <1>1 DEF TakeNode, RInv, IInv, TypeOK
  <2>2. Head(queue) \in Chunk /\ nodePtr'[1] = Head(queue)
    BY <2>1
  <2>3. Head(queue).size \in Nat
    BY <2>2 DEF Chunk
  <2> QED BY <2>1, <2>2, <2>3
<1>2. CASE WriteSome
  <2>1. nodePtr' = nodePtr /\ consumer = "select"
    BY <1>2 DEF WriteSome
  <2>2. PICK r \in 1 .. left : left' = left - r
    BY <1>2 DEF WriteSome
  <2>3. left \in Nat /\ nodePtr[1] \in Chunk /\ left <= nodePtr[1].size
    BY <2>1, HandProps
  <2>4. nodePtr[1].size \in Nat
    BY <2>3 DEF Chunk
  <2> QED BY <2>1, <2>2, <2>3, <2>4
<1>3. CASE ~TakeNode /\ ~WriteSome
  <2>1. UNCHANGED <<nodePtr, left>> /\ consumer \in {"check", "select", "frozen"}
    BY <1>3 DEF vars, Next, ConsumerNext, ProducerNext, PlayerNext, Open,
       OpenInitSync, LoopTop, CheckWrite, FlushPipe, WriteFails, SignalExit, ThreadEnds,
       Offer, GiveUp, WaitForRoom, SetSeeking, FlushBegin, FlushLock, FlushNode, FlushEnd,
       Pause, Continue, Resume, DieNow, CloseBegin, CloseSignal, CloseTimeout, CloseReturn,
       WaitForData, AddChunk, SignalDataAdded
  <2> QED BY <2>1 DEF RInv, LeftOfNode
<1> QED BY <1>1, <1>2, <1>3

\* At the start nothing is pending.
LEMMA InitFifo == Init => RInv /\ Fifo!Init
PROOF
<1> SUFFICES ASSUME Init PROVE RInv /\ Fifo!Init
  OBVIOUS
<1>1. RInv
  BY InitInv DEF Init, RInv, LeftOfNode
<1>2. InHand = <<>> /\ Numbers(queue) \in Seq(Nat) /\ Len(Numbers(queue)) = 0
  <2>1. queue \in Seq(Chunk) /\ Len(queue) = 0 /\ InHand = <<>>
    BY DEF Init, InHand
  <2> QED BY <2>1, NumbersProps
<1>3. InHand \o Numbers(queue) = <<>>
  <2>1. Numbers(queue) = <<>>
    BY <1>2
  <2> QED BY <1>2, <2>1
<1> QED BY <1>1, <1>3 DEF Init, Fifo!Init

\* The output implements the fifo: the decoder gets chunks in the order in which
\* BufferingWriteV accepted them, none twice and none that was not accepted, across
\* every flush, seek, pause, failing write and close.
THEOREM QueueIsFifo == Spec => FifoSpec
PROOF
<1>1. RInv /\ [Next]_vars => RInv'
  BY StepInv, StepLeft DEF RInv
<1> QED BY <1>1, InitFifo, StepFifo, PTL DEF Spec, FifoSpec, Fifo!Spec
=============================================================================
