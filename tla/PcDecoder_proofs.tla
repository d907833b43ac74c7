--------------------------- MODULE PcDecoder_proofs ---------------------------
(***************************************************************************)
(* Theorems about PcDecoder, for a ring of any number of buffers, any      *)
(* number of decoder threads and of calls.  The inductive invariants say   *)
(* who holds the mutexes and which buffer goes with them, as long as the   *)
(* ring was not emptied under someone's hands, and which threads Start and *)
(* Stop know of, as long as none was started or left unseen.               *)
(***************************************************************************)
EXTENDS PcDecoder, FiniteSetTheorems, TLAPS

Slots   == 0 .. VDEC_MAXBUFS - 1
Steps   == {"none", "born", "reset", "opens", "decodes", "frame", "puts", "writes",
            "out", "ended"}

\* The place that is k places after o.
Place(o, k) == (o + k) % VDEC_MAXBUFS

History == [raced : BOOLEAN, loose : BOOLEAN, picture : {"none", "waits"}]

TypeOK ==
  /\ kind \in {"video", "audio"} /\ app \in {"idle", "join", "loads", "puts"}
  /\ thread \in [Threads -> Steps] /\ thread_running \in BOOLEAN
  /\ ring \in [num : Int, in : Slots, out : Slots]
  /\ buffers \in [Slots -> {"none", "live", "picture"}]
  /\ buf_m \in {"free", "screen", "app", "thread"} /\ still_m \in {"free", "thread"}
  /\ f \in Slots /\ stillpicture \in BOOLEAN
  /\ screen \in [pc : {"idle", "takes", "draws", "drawsOld"}, buffer : Slots]
  /\ history \in History

\* Who holds buf_m is at the place in the code that does ...
BufHeld ==
  /\ buf_m = "screen" <=> screen.pc = "takes"
  /\ buf_m = "app" <=> app = "puts"
  /\ buf_m = "thread" <=> \E t \in Threads : thread[t] = "writes"

\* ... and so is the one thread that holds still_m; no frame is on its way to the
\* ring while a still picture is shown.
StillHeld ==
  /\ \A t \in Threads : thread[t] \in {"puts", "writes"} =>
       /\ still_m = "thread" /\ ~stillpicture
       /\ \A u \in Threads : thread[u] \in {"puts", "writes"} => u = t
  /\ still_m = "thread" => \E t \in Threads : thread[t] \in {"puts", "writes"}
  /\ app \in {"loads", "puts"} => stillpicture

\* The buffer that is taken is the oldest, the buffer that is written the next.
HandIsRight ==
  /\ buf_m = "screen" => f = ring.out /\ ring.num > 0
  /\ buf_m \in {"app", "thread"} => f = ring.in

Counted ==
  /\ ring.num \in Slots
  /\ ring.in = Place(ring.out, ring.num)

\* The buffer on the screen is the last that was taken, unless the ring is full.
DrawnIsLast ==
  screen.pc = "draws" => ring.out = Next1(screen.buffer) \/ ring.num = VDEC_MAXBUFS - 1

OnlyPictureWaits ==
  stillpicture => /\ \A i \in 0 .. ring.num - 1 :
                        buffers[Place(ring.out, i)] = "picture"
                  /\ history.picture = "waits" => ring.num > 0

RingInv == BufHeld /\ StillHeld /\ HandIsRight /\ Counted /\ DrawnIsLast /\ OnlyPictureWaits

IInv == TypeOK /\ (~history.raced => RingInv)

\* The one thread there may be is the one that Stop would wait for.
ThreadIsKnown ==
  /\ Alive \subseteq {tid}
  /\ app = "join" => Unmarked = {}
  /\ app # "join" /\ ~thread_running => Alive \subseteq Unmarked

DInv == ~history.loose => ThreadIsKnown

-----------------------------------------------------------------------------

\* Indices of the ring go around once at most.
LEMMA ModProps ==
  ASSUME NEW m \in Nat \ {0}, NEW a \in Nat, a < 2 * m
  PROVE  a % m = IF a < m THEN a ELSE a - m
PROOF
<1> DEFINE r == a % m
           q == a \div m
<1>1. r \in 0 .. m - 1 /\ q \in Nat /\ a = m * q + r
  OBVIOUS
<1> HIDE DEF r, q
<1>2. CASE q = 0
  BY <1>1, <1>2 DEF r
<1>3. CASE q = 1
  BY <1>1, <1>3 DEF r
<1>4. CASE q >= 2
  <2>1. m * q >= m * 2
    BY <1>1, <1>4
  <2> QED BY <1>1, <2>1
<1> QED BY <1>1, <1>2, <1>3, <1>4

LEMMA PlaceProps ==
  ASSUME Assumptions, NEW i \in Slots, NEW k \in Slots
  PROVE  /\ Place(i, k) \in Slots
         /\ Place(i, k) = (IF i + k < VDEC_MAXBUFS THEN i + k ELSE i + k - VDEC_MAXBUFS)
PROOF
<1>1. /\ VDEC_MAXBUFS \in Nat \ {0} /\ i \in Nat /\ i < VDEC_MAXBUFS
      /\ k \in Nat /\ k < VDEC_MAXBUFS
  BY DEF Assumptions, Slots
<1> DEFINE a == i + k
<1>2. a \in Nat /\ a < 2 * VDEC_MAXBUFS
  BY <1>1
<1> HIDE DEF a
<1>3. a % VDEC_MAXBUFS = IF a < VDEC_MAXBUFS THEN a ELSE a - VDEC_MAXBUFS
  BY <1>1, <1>2, ModProps
<1>4. Place(i, k) = IF i + k < VDEC_MAXBUFS THEN i + k ELSE i + k - VDEC_MAXBUFS
  <2>1. Place(i, k) = a % VDEC_MAXBUFS
    BY Zenon DEF Place, a
  <2>2. Place(i, k) = IF a < VDEC_MAXBUFS THEN a ELSE a - VDEC_MAXBUFS
    BY <1>3, <2>1, Zenon
  <2> QED BY <1>1, <2>2 DEF a
<1> QED BY <1>1, <1>4 DEF Slots

LEMMA NextProps ==
  ASSUME Assumptions, NEW i \in Slots
  PROVE  /\ Next1(i) = Place(i, 1) /\ Next1(i) \in Slots
         /\ Next1(i) = (IF i = VDEC_MAXBUFS - 1 THEN 0 ELSE i + 1)
         /\ \A k \in Slots : k + 1 \in Slots => Place(Next1(i), k) = Place(i, k + 1)
PROOF
<1>1. /\ VDEC_MAXBUFS \in Nat \ {0} /\ 1 \in Slots /\ Slots = 0 .. VDEC_MAXBUFS - 1
  BY DEF Assumptions, Slots
<1>2. Next1(i) = Place(i, 1)
  BY Zenon DEF Next1, Place
<1>3. Next1(i) = (IF i = VDEC_MAXBUFS - 1 THEN 0 ELSE i + 1) /\ Next1(i) \in Slots
  <2>1. Place(i, 1) = (IF i + 1 < VDEC_MAXBUFS THEN i + 1 ELSE i + 1 - VDEC_MAXBUFS)
        /\ Place(i, 1) \in Slots
    BY <1>1, PlaceProps
  <2> QED BY <1>1, <1>2, <2>1
<1>4. ASSUME NEW k \in Slots, k + 1 \in Slots PROVE Place(Next1(i), k) = Place(i, k + 1)
  <2>1. /\ Place(i, k + 1) = (IF i + (k + 1) < VDEC_MAXBUFS THEN i + (k + 1)
                              ELSE i + (k + 1) - VDEC_MAXBUFS)
        /\ Place(Next1(i), k) = (IF Next1(i) + k < VDEC_MAXBUFS THEN Next1(i) + k
                                 ELSE Next1(i) + k - VDEC_MAXBUFS)
    BY <1>3, <1>4, PlaceProps
  <2> QED BY <1>1, <1>3, <1>4, <2>1
<1> QED BY <1>2, <1>3, <1>4

-----------------------------------------------------------------------------
(* Types *)

LEMMA EmptyTyped ==
  ASSUME Assumptions, TypeOK, NEW p \in {"none", "waits"}, EmptyRing(p)
  PROVE  /\ ring' \in [num : Int, in : Slots, out : Slots] /\ history' \in History
         /\ screen' \in [pc : {"idle", "takes", "draws", "drawsOld"}, buffer : Slots]
PROOF
<1>1. 0 \in Slots
  BY DEF Assumptions, Slots
<1>2. history' \in History
  BY DEF TypeOK, EmptyRing, History
<1>3. screen' \in [pc : {"idle", "takes", "draws", "drawsOld"}, buffer : Slots]
  BY DEF TypeOK, EmptyRing
<1> QED BY <1>1, <1>2, <1>3 DEF EmptyRing, Empty

LEMMA PutTyped ==
  ASSUME Assumptions, TypeOK, NEW w \in {"live", "picture"}, Put(w)
  PROVE  /\ ring' \in [num : Int, in : Slots, out : Slots]
         /\ buffers' \in [Slots -> {"none", "live", "picture"}]
PROOF
<1>1. Next1(ring.in) \in Slots /\ Next1(ring.out) \in Slots
  BY NextProps DEF TypeOK
<1> QED BY <1>1 DEF TypeOK, Put

LEMMA TypeStep == ASSUME Assumptions, TypeOK, [Next]_vars PROVE TypeOK'
PROOF
<1>0. 0 \in Slots
  BY DEF Assumptions, Slots
<1> USE <1>0 DEF TypeOK
<1>1. CASE Calls
  <2>1. CASE Start
    BY <2>1 DEF Start, Goes, History, Steps
  <2>2. CASE Stop
    BY <2>2 DEF Stop, History
  <2>3. CASE ShowPicture
    BY <2>3, EmptyTyped DEF ShowPicture
  <2>4. CASE StopPicture
    BY <2>4 DEF StopPicture, History
  <2> QED BY <1>1, <2>1, <2>2, <2>3, <2>4 DEF Calls
<1>2. CASE AppStep
  <2>1. CASE Join
    BY <2>1 DEF Join, Goes, Steps
  <2>2. CASE Loads /\ UNCHANGED <<kind, thread, tid, thread_running, still_m, stillpicture, screen, calls>>
    BY <2>2, PutTyped DEF Loads, TakesBuffer, History
  <2> QED BY <1>2, <2>1, <2>2 DEF AppStep
<1>3. CASE Display
  <2>1. Next1(ring.out) \in Slots
    BY NextProps
  <2>2. Next1(ring.out) \in Slots /\ ring.num - 1 \in Int
    BY <2>1
  <2>3. CASE getDecBuf
    <3>1. CASE screen.pc = "idle"
      BY <1>3, <2>2, <2>3, <3>1 DEF Display, getDecBuf, TakesBuffer
    <3>2. CASE screen.pc = "takes"
      <4>1. ring' \in [num : Int, in : Slots, out : Slots]
        BY <2>2, <2>3, <3>2 DEF getDecBuf
      <4>2. history' \in History
        BY <2>3, <3>2 DEF getDecBuf, History
      <4>3. screen' \in [pc : {"idle", "takes", "draws", "drawsOld"}, buffer : Slots]
        BY <2>3, <3>2 DEF getDecBuf
      <4> QED BY <1>3, <2>3, <3>2, <4>1, <4>2, <4>3 DEF Display, getDecBuf
    <3> QED BY <2>3, <3>1, <3>2 DEF getDecBuf
  <2>4. CASE Drawn /\ UNCHANGED <<buf_m, f, ring, history>>
    BY <1>3, <2>4 DEF Display, Drawn
  <2> QED BY <1>3, <2>3, <2>4 DEF Display
<1>4. ASSUME NEW t \in Threads, Run(t) PROVE TypeOK'
  <2>1. CASE Begin(t)
    BY <2>1, EmptyTyped DEF Begin, Goes, Rest, Steps
  <2>2. CASE Opens(t)
    BY <2>2 DEF Opens, Goes, Rest, Steps
  <2>3. CASE Decodes(t)
    BY <2>3 DEF Decodes, Goes, Rest, Steps
  <2>4. CASE Plays(t)
    BY <2>4 DEF Plays, Goes, Rest, Steps
  <2>5. CASE Frame(t)
    BY <2>5 DEF Frame, Goes, Rest, Steps
  <2>6. CASE PutFrame(t)
    BY <2>6, PutTyped DEF PutFrame, TakesBuffer, Goes, Rest, Steps
  <2>7. CASE Out(t)
    BY <2>7, EmptyTyped DEF Out, Goes, Rest, Steps, History
  <2> QED BY <1>4, <2>1, <2>2, <2>3, <2>4, <2>5, <2>6, <2>7 DEF Run
<1>5. CASE UNCHANGED vars
  BY <1>5 DEF vars
<1> QED BY <1>1, <1>2, <1>3, <1>4, <1>5 DEF Next

-----------------------------------------------------------------------------
(* The ring *)

\* Emptying the ring while nobody holds buf_m.
LEMMA EmptyKeeps ==
  ASSUME Assumptions, IInv, ~history.raced, NEW p \in {"none", "waits"}, EmptyRing(p),
         ~history'.raced, UNCHANGED buf_m, app \notin {"puts"} => app' \notin {"puts"},
         \A t \in Threads : thread'[t] = "writes" => thread[t] = "writes"
  PROVE  BufHeld' /\ HandIsRight' /\ Counted' /\ DrawnIsLast'
PROOF
<1>1. TypeOK /\ BufHeld /\ buf_m = "free"
  BY DEF IInv, RingInv, EmptyRing, TypeOK, History
<1>2. BufHeld'
  BY <1>1 DEF BufHeld, EmptyRing, TypeOK
<1>3. HandIsRight'
  BY <1>1 DEF HandIsRight
<1>4. Counted'
  <2>1. 0 \in Slots
    BY DEF Assumptions, Slots
  <2>2. Place(0, 0) = 0
    BY <2>1, PlaceProps DEF Assumptions
  <2> QED BY <2>1, <2>2 DEF EmptyRing, Empty, Counted
<1>5. DrawnIsLast'
  BY <1>1 DEF DrawnIsLast, EmptyRing, TypeOK
<1> QED BY <1>2, <1>3, <1>4, <1>5

\* Writing the buffer in hand: the ring has one more, or has given up its oldest.
LEMMA PutKeeps ==
  ASSUME Assumptions, TypeOK, Counted, DrawnIsLast, NEW w, Put(w), f = ring.in, UNCHANGED screen
  PROVE  /\ Counted' /\ DrawnIsLast' /\ ring'.num > 0 /\ ring'.num >= ring.num
         /\ \A i \in 0 .. ring'.num - 1 :
              LET k == Place(ring'.out, i) IN
              \/ buffers'[k] = w
              \/ \E j \in 0 .. ring.num - 1 :
                   k = Place(ring.out, j) /\ buffers'[k] = buffers[k]
PROOF
<1>1. /\ ring.num \in Slots /\ ring.out \in Slots /\ ring.in \in Slots
      /\ ring.in = Place(ring.out, ring.num)
      /\ VDEC_MAXBUFS \in Nat /\ VDEC_MAXBUFS > 1 /\ Slots = 0 .. VDEC_MAXBUFS - 1
  BY DEF TypeOK, Counted, Assumptions, Slots
<1>2. /\ Next1(ring.in) \in Slots /\ Next1(ring.out) \in Slots
      /\ Next1(ring.in) = (IF ring.in = VDEC_MAXBUFS - 1 THEN 0 ELSE ring.in + 1)
      /\ Next1(ring.out) = (IF ring.out = VDEC_MAXBUFS - 1 THEN 0 ELSE ring.out + 1)
      /\ \A k \in Slots : k + 1 \in Slots => Place(Next1(ring.out), k) = Place(ring.out, k + 1)
  BY <1>1, NextProps
<1>3. \A o, k \in Slots :
        /\ Place(o, k) \in Slots
        /\ Place(o, k) = (IF o + k < VDEC_MAXBUFS THEN o + k ELSE o + k - VDEC_MAXBUFS)
  BY PlaceProps
<1>4. \A k \in Slots : buffers'[k] = IF k = ring.in THEN w ELSE buffers[k]
  BY DEF Put, TypeOK
<1>5. CASE ring.num + 1 > VDEC_MAXBUFS - 1
  <2>1. /\ ring'.num = ring.num /\ ring'.in = Next1(ring.in) /\ ring'.out = Next1(ring.out)
        /\ ring.num = VDEC_MAXBUFS - 1
    BY <1>1, <1>5 DEF Put
  <2>2. Counted'
    <3>1. Place(Next1(ring.out), ring.num)
            = (IF Next1(ring.out) + ring.num < VDEC_MAXBUFS THEN Next1(ring.out) + ring.num
               ELSE Next1(ring.out) + ring.num - VDEC_MAXBUFS)
          /\ Place(ring.out, ring.num)
            = (IF ring.out + ring.num < VDEC_MAXBUFS THEN ring.out + ring.num
               ELSE ring.out + ring.num - VDEC_MAXBUFS)
      BY <1>1, <1>2, <1>3
    <3>2. Next1(ring.in) = Place(Next1(ring.out), ring.num)
      BY <1>1, <1>2, <2>1, <3>1
    <3> QED BY <1>1, <2>1, <3>2 DEF Counted
  <2>3. DrawnIsLast'
    BY <2>1 DEF DrawnIsLast
  <2>4. ASSUME NEW i \in 0 .. ring'.num - 1, NEW k, k = Place(ring'.out, i)
        PROVE  \/ buffers'[k] = w
               \/ \E j \in 0 .. ring.num - 1 :
                    k = Place(ring.out, j) /\ buffers'[k] = buffers[k]
    <3>1. i \in Slots /\ i + 1 \in Slots /\ k = Place(ring.out, i + 1)
      BY <1>1, <1>2, <2>1, <2>4
    <3>2. k \in Slots
      BY <1>1, <1>3, <3>1
    <3>3. CASE i + 1 = ring.num
      BY <1>1, <1>4, <3>1, <3>2, <3>3
    <3>4. CASE i + 1 # ring.num
      <4>1. i + 1 \in 0 .. ring.num - 1
        BY <1>1, <2>1, <3>1, <3>4
      <4> QED BY <1>4, <3>1, <3>2, <4>1
    <3> QED BY <3>3, <3>4
  <2> QED BY <1>1, <2>1, <2>2, <2>3, <2>4
<1>6. CASE ring.num + 1 <= VDEC_MAXBUFS - 1
  <2>1. /\ ring'.num = ring.num + 1 /\ ring'.in = Next1(ring.in) /\ ring'.out = ring.out
        /\ ring.num + 1 \in Slots
    BY <1>1, <1>6 DEF Put
  <2>2. Counted'
    <3>1. Place(ring.out, ring.num + 1)
            = (IF ring.out + (ring.num + 1) < VDEC_MAXBUFS THEN ring.out + (ring.num + 1)
               ELSE ring.out + (ring.num + 1) - VDEC_MAXBUFS)
          /\ Place(ring.out, ring.num)
            = (IF ring.out + ring.num < VDEC_MAXBUFS THEN ring.out + ring.num
               ELSE ring.out + ring.num - VDEC_MAXBUFS)
      BY <1>1, <1>3, <2>1
    <3>2. CASE ring.out + ring.num < VDEC_MAXBUFS - 1
      BY <1>1, <1>2, <2>1, <3>1, <3>2 DEF Counted
    <3>3. CASE ring.out + ring.num = VDEC_MAXBUFS - 1
      <4>1. ring.in = VDEC_MAXBUFS - 1
        BY <1>1, <3>1, <3>3
      <4>2. Next1(ring.in) = 0 /\ Place(ring.out, ring.num + 1) = 0
        BY <1>1, <1>2, <3>1, <3>3, <4>1
      <4> QED BY <2>1, <4>2 DEF Counted
    <3>4. CASE ring.out + ring.num > VDEC_MAXBUFS - 1
      BY <1>1, <1>2, <2>1, <3>1, <3>4 DEF Counted
    <3> QED BY <1>1, <3>2, <3>3, <3>4
  <2>3. DrawnIsLast'
    BY <1>1, <1>6, <2>1 DEF DrawnIsLast
  <2>4. ASSUME NEW i \in 0 .. ring'.num - 1, NEW k, k = Place(ring'.out, i)
        PROVE  \/ buffers'[k] = w
               \/ \E j \in 0 .. ring.num - 1 :
                    k = Place(ring.out, j) /\ buffers'[k] = buffers[k]
    <3>1. i \in Slots /\ k = Place(ring.out, i) /\ k \in Slots
      <4>1. i \in Slots
        BY <1>1, <2>1
      <4> QED BY <1>1, <1>3, <2>1, <2>4, <4>1
    <3>2. i = ring.num \/ i \in 0 .. ring.num - 1
      BY <1>1, <2>1
    <3> QED BY <1>1, <1>4, <3>1, <3>2
  <2> QED BY <1>1, <2>1, <2>2, <2>3, <2>4
<1> QED BY <1>1, <1>5, <1>6

LEMMA RingStep ==
  ASSUME Assumptions, IInv, [Next]_vars, ~history'.raced PROVE RingInv'
PROOF
<1>1. ~history.raced
  BY DEF IInv, TypeOK, History, Next, vars
<1>2. TypeOK /\ RingInv
  BY <1>1 DEF IInv
<1>3. TypeOK'
  BY <1>2, TypeStep
<1> USE <1>1, <1>2, <1>3 DEF RingInv, TypeOK
<1>4. CASE Calls
  <2>1. CASE Start
    <3>1. /\ UNCHANGED <<app, ring, buffers, buf_m, still_m, f, stillpicture, screen>>
          /\ history'.picture = history.picture
      BY <2>1 DEF Start, History
    <3>2. \/ thread' = thread
          \/ \E t \in Threads : /\ thread[t] \in {"none", "ended"}
                               /\ thread' = [thread EXCEPT ![t] = "born"]
      BY <2>1 DEF Start, Goes
    <3>3. BufHeld' /\ StillHeld'
      BY <3>1, <3>2 DEF BufHeld, StillHeld
    <3> QED BY <3>1, <3>2, <3>3 DEF HandIsRight, Counted, DrawnIsLast, OnlyPictureWaits
  <2>2. CASE Stop
    BY <2>2 DEF Stop, BufHeld, StillHeld, HandIsRight, Counted, DrawnIsLast, OnlyPictureWaits
  <2>3. CASE ShowPicture
    <3>1. BufHeld' /\ HandIsRight' /\ Counted' /\ DrawnIsLast'
      BY <2>3, EmptyKeeps DEF ShowPicture
    <3>2. StillHeld'
      BY <2>3 DEF ShowPicture, StillHeld
    <3>3. OnlyPictureWaits'
      BY <2>3 DEF ShowPicture, EmptyRing, Empty, OnlyPictureWaits, Slots, Assumptions
    <3> QED BY <3>1, <3>2, <3>3
  <2>4. CASE StopPicture
    BY <2>4 DEF StopPicture, BufHeld, StillHeld, HandIsRight, Counted, DrawnIsLast, OnlyPictureWaits
  <2> QED BY <1>4, <2>1, <2>2, <2>3, <2>4 DEF Calls
<1>5. CASE AppStep
  <2>1. CASE Join
    BY <2>1 DEF Join, Goes, BufHeld, StillHeld, HandIsRight, Counted, DrawnIsLast, OnlyPictureWaits
  <2>2. CASE Loads /\ UNCHANGED <<kind, thread, tid, thread_running, still_m, stillpicture, screen, calls>>
    <3>1. CASE app = "loads"
      BY <2>2, <3>1 DEF Loads, TakesBuffer, BufHeld, StillHeld, HandIsRight, Counted, DrawnIsLast,
                        OnlyPictureWaits
    <3>2. CASE app = "puts"
      <4>1. /\ Put("picture") /\ f = ring.in /\ UNCHANGED <<screen, stillpicture, thread, still_m>>
            /\ buf_m = "app" /\ buf_m' = "free" /\ app' = "idle" /\ stillpicture
        BY <2>2, <3>2 DEF Loads, BufHeld, HandIsRight, StillHeld
      <4>2. /\ Counted' /\ DrawnIsLast' /\ ring'.num > 0
            /\ \A i \in 0 .. ring'.num - 1 :
                  \/ buffers'[Place(ring'.out, i)] = "picture"
                  \/ \E j \in 0 .. ring.num - 1 :
                       buffers'[Place(ring'.out, i)] = buffers[Place(ring.out, j)]
        BY <4>1, PutKeeps
      <4>3. BufHeld' /\ StillHeld' /\ HandIsRight'
        BY <4>1 DEF BufHeld, StillHeld, HandIsRight
      <4>4. OnlyPictureWaits'
        BY <4>1, <4>2 DEF OnlyPictureWaits
      <4> QED BY <4>2, <4>3, <4>4
    <3> QED BY <2>2, <3>1, <3>2 DEF Loads
  <2> QED BY <1>5, <2>1, <2>2 DEF AppStep
<1>6. CASE Display
  <2>1. CASE screen.pc = "idle"
    <3>1. /\ ring.num # 0 /\ buf_m = "free" /\ buf_m' = "screen" /\ f' = ring.out
          /\ screen'.pc = "takes" /\ ring' = ring /\ history' = history
          /\ UNCHANGED <<app, thread, buffers, still_m, stillpicture>>
      BY <1>6, <2>1 DEF Display, getDecBuf, Drawn, TakesBuffer
    <3>2. ring.num > 0
      BY <3>1 DEF Counted, Slots
    <3>3. BufHeld'
      BY <2>1, <3>1 DEF BufHeld
    <3> QED BY <3>1, <3>2, <3>3 DEF StillHeld, HandIsRight, Counted, DrawnIsLast, OnlyPictureWaits
  <2>2. CASE screen.pc = "takes"
    <3>1. /\ buf_m = "screen" /\ f = ring.out /\ ring.num > 0 /\ ring.num \in Slots
          /\ ring.out \in Slots /\ ring.in = Place(ring.out, ring.num)
      BY <2>2 DEF BufHeld, HandIsRight, Counted
    <3>2. /\ buf_m' = "free" /\ screen' = [pc |-> "draws", buffer |-> f]
          /\ ring'.num = ring.num - 1 /\ ring'.out = Next1(ring.out) /\ ring'.in = ring.in
          /\ UNCHANGED <<app, thread, buffers, still_m, stillpicture>>
          /\ history'.picture = IF buffers[f] = "picture" THEN "none" ELSE history.picture
      BY <1>6, <2>2 DEF Display, getDecBuf, Drawn, History
    <3>3. /\ Slots = 0 .. VDEC_MAXBUFS - 1 /\ VDEC_MAXBUFS \in Nat
          /\ \A k \in Slots : k + 1 \in Slots => Place(Next1(ring.out), k) = Place(ring.out, k + 1)
          /\ Place(ring.out, 0) = ring.out
      BY <3>1, NextProps, PlaceProps DEF Slots, Assumptions
    <3>4. BufHeld' /\ StillHeld' /\ HandIsRight' /\ DrawnIsLast'
      BY <2>2, <3>1, <3>2 DEF BufHeld, StillHeld, HandIsRight, DrawnIsLast
    <3>5. Counted'
      <4>1. ring.num - 1 \in Slots /\ (ring.num - 1) + 1 = ring.num
        BY <3>1, <3>3
      <4> QED BY <3>1, <3>2, <3>3, <4>1 DEF Counted
    <3>6. ASSUME stillpicture
          PROVE  /\ \A i \in 0 .. ring'.num - 1 : buffers'[Place(ring'.out, i)] = "picture"
                 /\ history'.picture = "none"
      <4>1. \A j \in 0 .. ring.num - 1 : buffers[Place(ring.out, j)] = "picture"
        BY <3>6 DEF OnlyPictureWaits
      <4>2. ASSUME NEW i \in 0 .. ring'.num - 1 PROVE buffers'[Place(ring'.out, i)] = "picture"
        <5>1. i \in Slots /\ i + 1 \in Slots /\ i + 1 \in 0 .. ring.num - 1
          BY <3>1, <3>2, <3>3
        <5> QED BY <3>2, <3>3, <4>1, <5>1
      <4>3. 0 \in 0 .. ring.num - 1
        BY <3>1, <3>3
      <4>4. buffers[f] = "picture"
        BY <3>1, <3>3, <4>1, <4>3
      <4> QED BY <3>2, <4>2, <4>4
    <3>7. OnlyPictureWaits'
      BY <3>2, <3>6 DEF OnlyPictureWaits
    <3> QED BY <3>4, <3>5, <3>7
  <2>3. CASE screen.pc \in {"draws", "drawsOld"}
    BY <1>6, <2>3 DEF Display, getDecBuf, Drawn, BufHeld, StillHeld, HandIsRight, Counted, DrawnIsLast,
                      OnlyPictureWaits
  <2> QED BY <2>1, <2>2, <2>3
<1>7. ASSUME NEW t \in Threads, Run(t) PROVE RingInv'
  <2>1. CASE Begin(t)
    <3>1. CASE thread[t] = "born" /\ kind # "audio"
      <4>1. EmptyRing("none") /\ UNCHANGED <<app, buf_m, still_m, stillpicture>>
            /\ thread' = [thread EXCEPT ![t] = "reset"]
        BY <2>1, <3>1 DEF Begin, Goes, Rest
      <4>2. BufHeld' /\ HandIsRight' /\ Counted' /\ DrawnIsLast'
        BY <4>1, EmptyKeeps
      <4>3. StillHeld'
        BY <3>1, <4>1 DEF StillHeld
      <4>4. OnlyPictureWaits'
        BY <4>1 DEF EmptyRing, Empty, OnlyPictureWaits, History
      <4> QED BY <4>2, <4>3, <4>4
    <3>2. CASE ~(thread[t] = "born" /\ kind # "audio")
      BY <2>1, <3>2 DEF Begin, Goes, Rest, BufHeld, StillHeld, HandIsRight, Counted, DrawnIsLast,
                        OnlyPictureWaits
    <3> QED BY <3>1, <3>2
  <2>2. CASE Opens(t)
    BY <2>2 DEF Opens, Goes, Rest, BufHeld, StillHeld, HandIsRight, Counted, DrawnIsLast, OnlyPictureWaits
  <2>3. CASE Decodes(t)
    BY <2>3 DEF Decodes, Goes, Rest, BufHeld, StillHeld, HandIsRight, Counted, DrawnIsLast, OnlyPictureWaits
  <2>4. CASE Plays(t)
    BY <2>4 DEF Plays, Goes, Rest, BufHeld, StillHeld, HandIsRight, Counted, DrawnIsLast, OnlyPictureWaits
  <2>5. CASE Frame(t)
    BY <2>5 DEF Frame, Goes, Rest, BufHeld, StillHeld, HandIsRight, Counted, DrawnIsLast, OnlyPictureWaits
  <2>6. CASE PutFrame(t)
    <3>1. CASE thread[t] = "puts"
      BY <2>6, <3>1 DEF PutFrame, TakesBuffer, Goes, Rest, BufHeld, StillHeld, HandIsRight, Counted,
                        DrawnIsLast, OnlyPictureWaits
    <3>2. CASE thread[t] = "writes"
      <4>1. /\ Put("live") /\ f = ring.in /\ buf_m = "thread" /\ ~stillpicture
            /\ buf_m' = "free" /\ still_m' = "free" /\ thread' = [thread EXCEPT ![t] = "decodes"]
            /\ UNCHANGED <<app, screen, stillpicture>>
            /\ \A u \in Threads : thread[u] \in {"puts", "writes"} => u = t
        BY <2>6, <3>2 DEF PutFrame, Goes, Rest, BufHeld, HandIsRight, StillHeld
      <4>2. Counted' /\ DrawnIsLast'
        BY <4>1, PutKeeps
      <4>3. BufHeld' /\ StillHeld' /\ HandIsRight' /\ OnlyPictureWaits'
        BY <4>1 DEF BufHeld, StillHeld, HandIsRight, OnlyPictureWaits
      <4> QED BY <4>2, <4>3
    <3> QED BY <2>6, <3>1, <3>2 DEF PutFrame
  <2>7. CASE Out(t)
    <3>1. CASE kind = "video" /\ ~stillpicture
      <4>1. EmptyRing(history.picture) /\ UNCHANGED <<app, buf_m, still_m, stillpicture>>
            /\ thread' = [thread EXCEPT ![t] = "ended"] /\ history.picture \in {"none", "waits"}
        BY <2>7, <3>1 DEF Out, Goes, Rest, History
      <4>2. BufHeld' /\ HandIsRight' /\ Counted' /\ DrawnIsLast'
        BY <4>1, EmptyKeeps
      <4>3. StillHeld' /\ OnlyPictureWaits'
        BY <2>7, <3>1, <4>1 DEF Out, StillHeld, OnlyPictureWaits
      <4> QED BY <4>2, <4>3
    <3>2. CASE ~(kind = "video" /\ ~stillpicture)
      BY <2>7, <3>2 DEF Out, Goes, Rest, BufHeld, StillHeld, HandIsRight, Counted, DrawnIsLast,
                        OnlyPictureWaits
    <3> QED BY <3>1, <3>2
  <2> QED BY <1>7, <2>1, <2>2, <2>3, <2>4, <2>5, <2>6, <2>7 DEF Run
<1>8. CASE UNCHANGED vars
  BY <1>8 DEF vars, BufHeld, StillHeld, HandIsRight, Counted, DrawnIsLast, OnlyPictureWaits
<1> QED BY <1>4, <1>5, <1>6, <1>7, <1>8 DEF Next

\* For a ring of any number of buffers and any threads: who holds buf_m and still_m is
\* where the code takes and puts buffers, and its buffer is the one the counters say, as
\* long as nobody emptied the ring under its hands.
THEOREM RingIsKept == ASSUME Assumptions PROVE Spec => []IInv
PROOF
<1>1. Init => IInv
  <2> SUFFICES ASSUME Init PROVE IInv
    OBVIOUS
  <2>1. 0 \in Slots
    BY DEF Assumptions, Slots
  <2>2. TypeOK
    <3>1. history \in History /\ thread_running \in BOOLEAN /\ stillpicture \in BOOLEAN
      BY Zenon DEF Init, History
    <3>2. buffers \in [Slots -> {"none", "live", "picture"}] /\ thread \in [Threads -> Steps]
      BY DEF Init, Steps, Slots
    <3>3. /\ ring \in [num : Int, in : Slots, out : Slots] /\ f \in Slots
          /\ screen \in [pc : {"idle", "takes", "draws", "drawsOld"}, buffer : Slots]
      BY <2>1 DEF Init, Empty
    <3> QED BY <3>1, <3>2, <3>3 DEF Init, TypeOK
  <2>3. Counted
    <3>1. Place(0, 0) = 0
      BY <2>1, PlaceProps DEF Assumptions
    <3> QED BY <2>1, <3>1 DEF Init, Empty, Counted
  <2>4. BufHeld /\ StillHeld /\ HandIsRight /\ DrawnIsLast /\ OnlyPictureWaits
    BY DEF Init, BufHeld, StillHeld, HandIsRight, DrawnIsLast, OnlyPictureWaits
  <2> QED BY <2>2, <2>3, <2>4 DEF IInv, RingInv
<1>2. IInv /\ [Next]_vars => IInv'
  BY TypeStep, RingStep DEF IInv
<1> QED BY <1>1, <1>2, PTL DEF Spec

\* For a ring of any number of buffers: its counters agree, and a buffer that is being
\* drawn is written over only when the ring is full or was emptied.
THEOREM RingIsAlwaysSound == ASSUME Assumptions PROVE Spec => []RingIsSound
PROOF
<1>1. IInv => RingIsSound
  <2> SUFFICES ASSUME IInv, ~history.raced PROVE RingIsSound
    BY DEF RingIsSound
  <2>1. /\ ring.num \in Slots /\ ring.out \in Slots /\ ring.in \in Slots /\ screen.buffer \in Slots
        /\ ring.in = Place(ring.out, ring.num)
        /\ Slots = 0 .. VDEC_MAXBUFS - 1 /\ VDEC_MAXBUFS \in Nat /\ VDEC_MAXBUFS > 1
    BY DEF IInv, TypeOK, RingInv, Counted, Slots, Assumptions
  <2>2. Place(ring.out, ring.num)
          = (IF ring.out + ring.num < VDEC_MAXBUFS THEN ring.out + ring.num
             ELSE ring.out + ring.num - VDEC_MAXBUFS)
    BY <2>1, PlaceProps
  <2>3. Next1(screen.buffer) = (IF screen.buffer = VDEC_MAXBUFS - 1 THEN 0 ELSE screen.buffer + 1)
    BY <2>1, NextProps
  <2>4. ASSUME screen.pc = "draws", app = "puts" \/ \E t \in Threads : thread[t] = "writes",
               f = screen.buffer
        PROVE  ring.num = VDEC_MAXBUFS - 1
    <3>1. f = ring.in
      BY <2>4 DEF IInv, TypeOK, RingInv, BufHeld, HandIsRight
    <3>2. ring.out = Next1(screen.buffer) \/ ring.num = VDEC_MAXBUFS - 1
      BY <2>4 DEF IInv, RingInv, DrawnIsLast
    <3> QED BY <2>1, <2>2, <2>3, <2>4, <3>1, <3>2
  <2>5. ring.in = (ring.out + ring.num) % VDEC_MAXBUFS
    BY <2>1, Zenon DEF Place
  <2> QED BY <2>1, <2>4, <2>5, Zenon DEF RingIsSound
<1> QED BY <1>1, RingIsKept, PTL

\* While a still picture is shown nothing but the picture waits, and it waits until it
\* is drawn, unless a decoder that starts throws it away.
THEOREM PictureAlwaysStays == ASSUME Assumptions PROVE Spec => []PictureStays
PROOF
<1>1. IInv => PictureStays
  <2> SUFFICES ASSUME IInv, ~history.raced, stillpicture PROVE PictureStays
    BY DEF PictureStays
  <2>1. /\ \A i \in 0 .. ring.num - 1 : buffers[Place(ring.out, i)] = "picture"
        /\ history.picture = "waits" => ring.num > 0
    BY DEF IInv, RingInv, OnlyPictureWaits
  <2>2. Waiting \subseteq {"picture"}
    BY <2>1, Zenon DEF Waiting, Place
  <2> QED BY <2>1, <2>2 DEF PictureStays
<1> QED BY <1>1, RingIsKept, PTL

-----------------------------------------------------------------------------
(* The threads *)

LEMMA KnownStep ==
  ASSUME TypeOK, DInv, [Next]_vars PROVE DInv'
PROOF
<1> SUFFICES ASSUME ~history'.loose PROVE ThreadIsKnown'
  BY DEF DInv
<1> USE DEF TypeOK, History
<1>1. CASE Calls
  <2>1. CASE Start
    <3>1. CASE StartTest
      <4>1. PICK t \in Threads : /\ thread[t] \in {"none", "ended"}
                                /\ thread' = [thread EXCEPT ![t] = "born"] /\ tid' = t
                                /\ history' = [history EXCEPT !.loose = @ \/ Missed # {}]
        BY <2>1, <3>1 DEF Start, Goes
      <4>2. Missed = {} /\ ~history.loose /\ app = "idle" /\ app' = "idle"
        BY <2>1, <4>1 DEF Start
      <4>3. \A u \in Threads : thread[u] \in {"none", "ended"}
        BY <2>1, <3>1, <4>2 DEF Start, StartTest, DInv, ThreadIsKnown, Missed, Alive, Unmarked
      <4> QED BY <4>1, <4>2, <4>3 DEF ThreadIsKnown, Alive, Unmarked
    <3>2. CASE ~StartTest
      BY <2>1, <3>2 DEF Start, DInv, ThreadIsKnown, Alive, Unmarked
    <3> QED BY <3>1, <3>2
  <2>2. CASE Stop
    BY <2>2 DEF Stop, DInv, ThreadIsKnown, Alive, Unmarked
  <2>3. CASE ShowPicture
    BY <2>3 DEF ShowPicture, EmptyRing, DInv, ThreadIsKnown, Alive, Unmarked
  <2>4. CASE StopPicture
    BY <2>4 DEF StopPicture, DInv, ThreadIsKnown, Alive, Unmarked
  <2> QED BY <1>1, <2>1, <2>2, <2>3, <2>4 DEF Calls
<1>2. CASE AppStep
  <2>1. CASE Join
    BY <2>1 DEF Join, Goes, DInv, ThreadIsKnown, Alive, Unmarked
  <2>2. CASE Loads /\ UNCHANGED <<kind, thread, tid, thread_running, still_m, stillpicture, screen, calls>>
    BY <2>2 DEF Loads, DInv, ThreadIsKnown, Alive, Unmarked
  <2> QED BY <1>2, <2>1, <2>2 DEF AppStep
<1>3. CASE Display
  BY <1>3 DEF Display, getDecBuf, Drawn, DInv, ThreadIsKnown, Alive, Unmarked
<1>4. ASSUME NEW t \in Threads, Run(t) PROVE ThreadIsKnown'
  <2> USE DEF DInv, ThreadIsKnown, Alive, Unmarked, Goes, Rest
  <2>1. CASE Begin(t)
    BY <2>1 DEF Begin, EmptyRing
  <2>2. CASE Opens(t)
    BY <2>2 DEF Opens
  <2>3. CASE Decodes(t)
    BY <2>3 DEF Decodes
  <2>4. CASE Plays(t)
    BY <2>4 DEF Plays
  <2>5. CASE Frame(t)
    BY <2>5 DEF Frame
  <2>6. CASE PutFrame(t)
    BY <2>6 DEF PutFrame
  <2>7. CASE Out(t)
    BY <2>7 DEF Out, EmptyRing
  <2> QED BY <1>4, <2>1, <2>2, <2>3, <2>4, <2>5, <2>6, <2>7 DEF Run
<1>5. CASE UNCHANGED vars
  BY <1>5 DEF vars, DInv, ThreadIsKnown, Alive, Unmarked
<1> QED BY <1>1, <1>2, <1>3, <1>4, <1>5 DEF Next

\* For any number of threads and calls: as long as Start and Stop came when the last
\* thread had set thread_running, there is one decoder thread at most, and none after
\* Stop but one that is about to set it.
THEOREM OneDecoderAlways == ASSUME Assumptions PROVE Spec => []OneDecoder
PROOF
<1>1. Init => DInv
  BY DEF Init, DInv, ThreadIsKnown, Alive, Unmarked
<1>2. TypeOK /\ DInv /\ [Next]_vars => DInv'
  BY KnownStep
<1>3. TypeOK /\ DInv => OneDecoder
  <2> SUFFICES ASSUME TypeOK, DInv, ~history.loose
               PROVE  Cardinality(Alive) <= 1 /\ (app = "idle" /\ ~thread_running => Alive \subseteq Unmarked)
    BY DEF OneDecoder
  <2>1. ThreadIsKnown
    BY DEF DInv
  <2>2. IsFiniteSet({tid}) /\ Cardinality({tid}) = 1
    BY FS_Singleton
  <2>3. Cardinality(Alive) <= Cardinality({tid})
    BY <2>1, <2>2, FS_Subset DEF ThreadIsKnown
  <2> QED BY <2>1, <2>2, <2>3 DEF ThreadIsKnown
<1>4. IInv => TypeOK
  BY DEF IInv
<1> QED BY <1>1, <1>2, <1>3, <1>4, RingIsKept, PTL DEF Spec

=============================================================================
