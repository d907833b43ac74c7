---------------------------- MODULE Endings_proofs ----------------------------
(***************************************************************************)
(* Theorems about two parts of MCEndings.                                  *)
(*                                                                         *)
(* Recording, for every size of the buffer and of a read: the inductive    *)
(* invariant says where in the stream the buffer stands (Continues), what  *)
(* the run-out has still to write (RanOut) and which endings were reported *)
(* (Reported).                                                             *)
(*                                                                         *)
(* InputMux, for any devices, threads, file numbers, keys and calls: the   *)
(* invariant says where the keys of a device are (InOrder), and that, as   *)
(* long as nothing was closed or pulled out, they are the last ones up to  *)
(* the one pressed last (NoneMissing).                                     *)
(***************************************************************************)
EXTENDS MCEndings, SequenceTheorems, FiniteSetTheorems, WellFoundedInduction, TLAPS

\* How many bytes of the buffer are in the file already: those of a request that ended well.
InFile == IF aio.busy \/ aio.ret = "error" THEN 0 ELSE queued

Continues ==
  ~cut => /\ \A i \in 1 .. Len(file) : file[i] = i
          /\ InFile <= Len(file)
          /\ \A i \in 1 .. Len(buf) : buf[i] = Len(file) - InFile + i
          /\ Len(file) + Len(buf) - InFile = total

\* Nothing is in the buffer, nor under way, before the thread has begun.
NotBegun == thread \in {"none", "begin"} => Len(buf) = 0 /\ queued = 0 /\ ~aio.busy

RanOut ==
  /\ thread = "runout" => idleStop \/ queued > 0 \/ Len(buf) = 0 \/ aio.ret = "error"
  /\ thread \in {"end", "ended"} =>
       ~aio.busy /\ (aio.ret = "ok" => idleStop \/ (queued = 0 /\ Len(buf) = 0))

Reported ==
  /\ thread # "ended" => callbacks = 0
  /\ thread # "none" /\ ~stopAsked => exit_flag # "STOPPED"
  /\ FailureIsReported

IInv == TypeOK /\ Continues /\ NotBegun /\ RanOut /\ Reported

\* The three states of a request, told apart by their fields.
LEMMA Requests ==
  /\ Busy.busy /\ Busy.ret = "ok"
  /\ ~Done("ok").busy /\ Done("ok").ret = "ok"
  /\ ~Done("error").busy /\ Done("error").ret = "error"
PROOF BY DEF Busy, Done

\* What is left of a sequence when its first n elements are dropped.
LEMMA DropProps ==
  ASSUME NEW s \in Seq(Nat), NEW n \in 0 .. Len(s)
  PROVE  /\ Drop(s, n) \in Seq(Nat)
         /\ Len(Drop(s, n)) = Len(s) - n
         /\ \A i \in 1 .. Len(s) - n : Drop(s, n)[i] = s[n + i]
PROOF
<1>1. Len(s) \in Nat /\ n \in Nat /\ n <= Len(s)
  OBVIOUS
<1>2. Drop(s, n) = [i \in 1 .. Len(s) - n |-> s[n + i]]
  BY <1>1 DEF Drop
<1>3. \A i \in 1 .. Len(s) - n : s[n + i] \in Nat
  BY <1>1
<1>4. Drop(s, n) \in Seq(Nat)
  BY <1>1, <1>2, <1>3
<1> QED BY <1>1, <1>2, <1>4

\* The first n elements of a sequence behind another one.
LEMMA TakenProps ==
  ASSUME NEW s \in Seq(Nat), NEW t \in Seq(Nat), NEW n \in 0 .. Len(s)
  PROVE  /\ t \o SubSeq(s, 1, n) \in Seq(Nat)
         /\ Len(t \o SubSeq(s, 1, n)) = Len(t) + n
         /\ \A i \in 1 .. Len(t) : (t \o SubSeq(s, 1, n))[i] = t[i]
         /\ \A i \in Len(t) + 1 .. Len(t) + n : (t \o SubSeq(s, 1, n))[i] = s[i - Len(t)]
PROOF
<1>1. Len(s) \in Nat /\ Len(t) \in Nat /\ n \in Nat /\ n <= Len(s)
  OBVIOUS
<1>2. /\ SubSeq(s, 1, n) \in Seq(Nat) /\ Len(SubSeq(s, 1, n)) = n
      /\ \A i \in 1 .. n : SubSeq(s, 1, n)[i] = s[i]
  BY <1>1
<1> DEFINE taken == SubSeq(s, 1, n)
<1> HIDE DEF taken
<1>3. /\ taken \in Seq(Nat) /\ Len(taken) = n
      /\ \A i \in 1 .. n : taken[i] = s[i]
  BY <1>2 DEF taken
<1>4. /\ t \o taken \in Seq(Nat) /\ Len(t \o taken) = Len(t) + n
      /\ \A i \in 1 .. Len(t) + n :
           (t \o taken)[i] = IF i <= Len(t) THEN t[i] ELSE taken[i - Len(t)]
  BY <1>3, ConcatProperties
<1>5. \A i \in 1 .. Len(t) : (t \o taken)[i] = t[i]
  BY <1>1, <1>4
<1>6. ASSUME NEW i \in Len(t) + 1 .. Len(t) + n
      PROVE  (t \o taken)[i] = s[i - Len(t)]
  <2>1. i \in 1 .. Len(t) + n /\ ~(i <= Len(t)) /\ i - Len(t) \in 1 .. n
    BY <1>1, <1>6
  <2>2. (t \o taken)[i] = taken[i - Len(t)]
    BY <1>4, <2>1
  <2>3. taken[i - Len(t)] = s[i - Len(t)]
    BY <1>3, <2>1
  <2> QED BY <2>2, <2>3
<1> QED BY <1>4, <1>5, <1>6 DEF taken

\* Moving the buffer up and asking for all of it: what follows the file is in the buffer.
LEMMA MoveUp ==
  ASSUME IInv, ~aio.busy, aio.ret = "ok",
         buf' = Drop(buf, queued), queued' = Len(buf'), aio' \in {Busy, Done("error")},
         UNCHANGED <<file, total, cut>>
  PROVE  /\ buf' \in Seq(Nat) /\ Len(buf') <= BufSize /\ queued' \in 0 .. Len(buf')
         /\ aio' \in {Busy, Done("ok"), Done("error")}
         /\ Continues'
PROOF
<1>1. buf \in Seq(Nat) /\ queued \in 0 .. Len(buf) /\ Len(buf) \in Nat /\ Len(buf) <= BufSize /\ BufSize \in Nat
  BY BufAssumption DEF IInv, TypeOK
<1>2. /\ buf' \in Seq(Nat) /\ Len(buf') = Len(buf) - queued
      /\ \A i \in 1 .. Len(buf) - queued : buf'[i] = buf[queued + i]
  BY <1>1, DropProps
<1>3. aio'.busy \/ aio'.ret = "error"
  <2>1. CASE aio' = Busy
    BY <2>1, Requests
  <2>2. CASE aio' = Done("error")
    BY <2>2, Requests
  <2> QED BY <2>1, <2>2
<1>4. Continues'
  <2> SUFFICES ASSUME ~cut'
               PROVE  /\ \A i \in 1 .. Len(file') : file'[i] = i
                      /\ InFile' <= Len(file')
                      /\ \A i \in 1 .. Len(buf') : buf'[i] = Len(file') - InFile' + i
                      /\ Len(file') + Len(buf') - InFile' = total'
    BY DEF Continues
  <2>1. InFile = queued /\ InFile' = 0
    BY <1>3 DEF InFile
  <2>2. /\ \A i \in 1 .. Len(file) : file[i] = i
        /\ queued <= Len(file)
        /\ \A i \in 1 .. Len(buf) : buf[i] = Len(file) - queued + i
        /\ Len(file) + Len(buf) - queued = total
    BY <2>1 DEF IInv, Continues
  <2>3. Len(file) \in Nat /\ total \in Nat
    BY DEF IInv, TypeOK
  <2>4. \A i \in 1 .. Len(buf') : buf'[i] = Len(file) + i
    <3> SUFFICES ASSUME NEW i \in 1 .. Len(buf') PROVE buf'[i] = Len(file) + i
      OBVIOUS
    <3>1. i \in Nat /\ queued + i \in 1 .. Len(buf) /\ buf'[i] = buf[queued + i]
      BY <1>1, <1>2
    <3>2. buf[queued + i] = Len(file) - queued + (queued + i)
      BY <3>1, <2>2
    <3> QED BY <3>1, <3>2, <2>3, <1>1
  <2> QED BY <1>1, <1>2, <2>1, <2>2, <2>3, <2>4
<1> QED BY <1>1, <1>2, <1>3, <1>4

\* The end of a request: its bytes come to the end of the file.
LEMMA RequestEnds ==
  ASSUME IInv, AioEnds
  PROVE  /\ file' \in Seq(Nat) /\ cut' \in BOOLEAN
         /\ aio' \in {Busy, Done("ok"), Done("error")} /\ ~aio'.busy
         /\ Continues'
PROOF
<1>1. /\ buf \in Seq(Nat) /\ queued \in 0 .. Len(buf) /\ Len(buf) \in Nat
      /\ file \in Seq(Nat) /\ Len(file) \in Nat /\ total \in Nat
      /\ cut \in BOOLEAN /\ aio.busy /\ UNCHANGED <<buf, queued, total>>
  BY DEF IInv, TypeOK, AioEnds
<1>2. ~cut => /\ \A i \in 1 .. Len(file) : file[i] = i
              /\ \A i \in 1 .. Len(buf) : buf[i] = Len(file) + i
              /\ Len(file) + Len(buf) = total
  BY <1>1 DEF IInv, Continues, InFile
<1>3. CASE aio' = Done("error") /\ UNCHANGED <<file, cut>>
  <2>1. ~aio'.busy /\ InFile' = 0
    BY <1>3, Requests DEF InFile
  <2> QED BY <1>1, <1>2, <1>3, <2>1 DEF Continues
<1>4. ASSUME NEW n \in IF ShortWrites THEN 0 .. queued ELSE {queued},
             file' = file \o SubSeq(buf, 1, n), cut' = (cut \/ n < queued), aio' = Done("ok")
      PROVE  /\ file' \in Seq(Nat) /\ cut' \in BOOLEAN
             /\ aio' \in {Busy, Done("ok"), Done("error")} /\ ~aio'.busy
             /\ Continues'
  <2>1. n \in 0 .. queued /\ n \in 0 .. Len(buf) /\ queued \in Nat
    BY <1>1
  <2>2. /\ file' \in Seq(Nat) /\ Len(file') = Len(file) + n
        /\ \A i \in 1 .. Len(file) : file'[i] = file[i]
        /\ \A i \in Len(file) + 1 .. Len(file) + n : file'[i] = buf[i - Len(file)]
    BY <1>1, <1>4, <2>1, TakenProps
  <2>3. ~aio'.busy /\ InFile' = queued
    BY <1>1, <1>4, Requests DEF InFile
  <2>4. Continues'
    <3> SUFFICES ASSUME ~cut'
                 PROVE  /\ \A i \in 1 .. Len(file') : file'[i] = i
                        /\ InFile' <= Len(file')
                        /\ \A i \in 1 .. Len(buf') : buf'[i] = Len(file') - InFile' + i
                        /\ Len(file') + Len(buf') - InFile' = total'
      BY DEF Continues
    <3>1. ~cut /\ n = queued
      <4>1. ~cut /\ ~(n < queued)
        BY <1>4
      <4>2. n \in Nat /\ n <= queued /\ queued \in Nat
        BY <2>1
      <4> QED BY <4>1, <4>2
    <3>2. \A i \in 1 .. Len(file') : file'[i] = i
      <4> SUFFICES ASSUME NEW i \in 1 .. Len(file') PROVE file'[i] = i
        OBVIOUS
      <4>1. CASE i <= Len(file)
        <5>1. i \in 1 .. Len(file)
          BY <4>1, <1>1, <2>1, <2>2
        <5> QED BY <5>1, <1>2, <2>2, <3>1
      <4>2. CASE i > Len(file)
        <5>1. /\ i \in Len(file) + 1 .. Len(file) + n /\ i - Len(file) \in 1 .. Len(buf)
              /\ i \in Int
          BY <4>2, <1>1, <2>1, <2>2
        <5>2. file'[i] = buf[i - Len(file)] /\ buf[i - Len(file)] = Len(file) + (i - Len(file))
          BY <5>1, <1>2, <2>2, <3>1
        <5> QED BY <5>1, <5>2, <1>1
      <4> QED BY <4>1, <4>2, <1>1, <2>1, <2>2
    <3>3. InFile' = queued /\ Len(file') = Len(file) + queued /\ Len(file) \in Nat /\ queued \in Nat
      BY <1>1, <2>1, <2>2, <2>3, <3>1
    <3>4. \A i \in 1 .. Len(buf') : buf'[i] = Len(file') - InFile' + i
      <4> SUFFICES ASSUME NEW i \in 1 .. Len(buf) PROVE buf[i] = Len(file') - InFile' + i
        BY <1>1
      <4>1. buf[i] = Len(file) + i /\ i \in Nat
        BY <1>1, <1>2, <3>1
      <4> QED BY <4>1, <3>3
    <3>5. Len(file') + Len(buf') - InFile' = total'
      <4>1. Len(buf') = Len(buf) /\ total' = total /\ Len(file) + Len(buf) = total
        BY <1>1, <1>2, <3>1
      <4>2. Len(file) \in Int /\ Len(buf) \in Int /\ queued \in Int
        BY <1>1, <2>1
      <4>3. Len(file') + Len(buf') - InFile' = (Len(file) + queued) + Len(buf) - queued
        BY <4>1, <3>3
      <4>4. (Len(file) + queued) + Len(buf) - queued = Len(file) + Len(buf)
        BY <4>2
      <4> QED BY <4>1, <4>3, <4>4
    <3>6. InFile' <= Len(file')
      BY <3>3
    <3> QED BY <3>2, <3>4, <3>5, <3>6
  <2> QED BY <1>1, <1>4, <2>2, <2>3, <2>4
<1> QED BY <1>3, <1>4 DEF AioEnds

\* A read adds the next bytes of the stream to the buffer.
LEMMA ReadContinues ==
  ASSUME IInv, ReadBytes
  PROVE  /\ buf' \in Seq(Nat) /\ Len(buf') <= BufSize /\ Len(buf') >= Len(buf)
         /\ total' \in Nat
         /\ Continues'
PROOF
<1>1. /\ buf \in Seq(Nat) /\ queued \in 0 .. Len(buf) /\ Len(buf) \in Nat
      /\ file \in Seq(Nat) /\ Len(file) \in Nat /\ total \in Nat
      /\ BufSize \in Nat /\ ReadSize \in Nat /\ UNCHANGED <<queued, file, aio, cut>>
  BY BufAssumption DEF IInv, TypeOK, ReadBytes, history
<1>2. PICK s \in 0 .. ReadSize : /\ s <= BufSize - Len(buf)
                                 /\ buf' = buf \o [i \in 1 .. s |-> total + i]
                                 /\ total' = total + s
  BY DEF ReadBytes
<1> DEFINE new == [i \in 1 .. s |-> total + i]
<1>3. new \in Seq(Nat) /\ Len(new) = s /\ \A i \in 1 .. s : new[i] = total + i
  <2>1. s \in Nat /\ \A i \in 1 .. s : total + i \in Nat
    BY <1>1, <1>2
  <2>2. new \in [1 .. s -> Nat]
    BY <2>1
  <2>3. new \in Seq(Nat)
    BY <2>1, <2>2, SeqDef
  <2> QED BY <2>1, <2>2, <2>3
<1>4. /\ buf' \in Seq(Nat) /\ Len(buf') = Len(buf) + s /\ s \in Nat
      /\ \A i \in 1 .. Len(buf) : buf'[i] = buf[i]
      /\ \A i \in Len(buf) + 1 .. Len(buf) + s : buf'[i] = total + (i - Len(buf))
  <2> HIDE DEF new
  <2>1. buf' = buf \o new
    BY <1>2 DEF new
  <2>2. s \in Nat
    BY <1>1, <1>2
  <2>3. /\ buf' \in Seq(Nat) /\ Len(buf') = Len(buf) + s
        /\ \A i \in 1 .. Len(buf) + s :
             buf'[i] = IF i <= Len(buf) THEN buf[i] ELSE new[i - Len(buf)]
    BY <1>1, <1>3, <2>1, ConcatProperties
  <2>4. \A i \in 1 .. Len(buf) : buf'[i] = buf[i]
    BY <1>1, <2>2, <2>3
  <2>5. ASSUME NEW i \in Len(buf) + 1 .. Len(buf) + s
        PROVE  buf'[i] = total + (i - Len(buf))
    <3>1. i \in 1 .. Len(buf) + s /\ ~(i <= Len(buf)) /\ i - Len(buf) \in 1 .. s
      BY <1>1, <2>2, <2>5
    <3> QED BY <1>3, <2>3, <3>1
  <2> QED BY <2>2, <2>3, <2>4, <2>5
<1>5. Continues'
  <2> HIDE DEF new
  <2> SUFFICES ASSUME ~cut'
               PROVE  /\ \A i \in 1 .. Len(file') : file'[i] = i
                      /\ InFile' <= Len(file')
                      /\ \A i \in 1 .. Len(buf') : buf'[i] = Len(file') - InFile' + i
                      /\ Len(file') + Len(buf') - InFile' = total'
    BY DEF Continues
  <2>1. InFile' = InFile /\ InFile \in Nat
    BY <1>1 DEF InFile
  <2>2. /\ \A i \in 1 .. Len(file) : file[i] = i
        /\ InFile <= Len(file)
        /\ \A i \in 1 .. Len(buf) : buf[i] = Len(file) - InFile + i
        /\ Len(file) + Len(buf) - InFile = total
    BY <1>1 DEF IInv, Continues
  <2>3. \A i \in 1 .. Len(buf') : buf'[i] = Len(file) - InFile + i
    <3> SUFFICES ASSUME NEW i \in 1 .. Len(buf') PROVE buf'[i] = Len(file) - InFile + i
      OBVIOUS
    <3>1. i \in Nat
      BY <1>4, <1>1
    <3>2. CASE i <= Len(buf)
      <4>1. i \in 1 .. Len(buf)
        BY <3>1, <3>2, <1>1
      <4> QED BY <4>1, <1>4, <2>2
    <3>3. CASE i > Len(buf)
      <4>1. buf'[i] = total + (i - Len(buf))
        <5>1. i \in Len(buf) + 1 .. Len(buf) + s
          BY <3>1, <3>3, <1>1, <1>4
        <5> QED BY <5>1, <1>4
      <4>2. InFile \in Nat /\ Len(file) + Len(buf) - InFile = total
        BY <2>1, <2>2
      <4> DEFINE a == Len(file)
                 b == Len(buf)
                 c == InFile
      <4>3. /\ a \in Nat /\ b \in Nat /\ c \in Nat /\ a + b - c = total /\ buf'[i] = total + (i - b)
        BY <4>1, <4>2, <1>1
      <4> HIDE DEF a, b, c
      <4>4. buf'[i] = a - c + i
        BY <4>3, <3>1
      <4> QED BY <4>4 DEF a, c
    <3> QED BY <3>1, <3>2, <3>3, <1>1
  <2>4. Len(file') + Len(buf') - InFile' = total'
    <3>1. Len(buf') = Len(buf) + s /\ total' = total + s /\ file' = file /\ s \in Nat
      BY <1>1, <1>2, <1>4
    <3>2. Len(file) + Len(buf) - InFile = total
      BY <2>2
    <3>3. Len(file') + Len(buf') - InFile' = Len(file) + (Len(buf) + s) - InFile
      BY <3>1, <2>1
    <3>4. Len(file) \in Int /\ Len(buf) \in Int /\ s \in Int /\ InFile \in Int
      BY <1>1, <3>1, <2>1
    <3>5. Len(file) + (Len(buf) + s) - InFile = (Len(file) + Len(buf) - InFile) + s
      BY <3>4
    <3> QED BY <3>1, <3>2, <3>3, <3>5
  <2>5. \A i \in 1 .. Len(buf') : buf'[i] = Len(file') - InFile' + i
    BY <1>1, <2>1, <2>3
  <2> QED BY <1>1, <2>1, <2>2, <2>4, <2>5
<1> QED BY <1>1, <1>2, <1>4, <1>5

-----------------------------------------------------------------------------
LEMMA InitIInv == Init => IInv
PROOF
<1> SUFFICES ASSUME Init PROVE IInv
  OBVIOUS
<1>1. <<>> \in Seq(Nat) /\ Len(<<>>) = 0 /\ 0 <= BufSize
  BY BufAssumption
<1>2. TypeOK
  <2>1. /\ thread \in {"none", "begin", "loop", "read", "full", "aio", "runout", "end", "ended"}
        /\ control \in {"idle", "running", "join", "stopped"}
        /\ exit_flag \in Flags
    BY DEF Init, Flags
  <2>2. buf \in Seq(Nat) /\ Len(buf) <= BufSize /\ queued \in 0 .. Len(buf) /\ file \in Seq(Nat)
    BY <1>1, BufAssumption DEF Init
  <2>3. aio \in {Busy, Done("ok"), Done("error")}
    BY DEF Init
  <2>4. count \in Nat /\ total \in Nat /\ callbacks \in 0 .. 1
    BY DEF Init
  <2>5. overflow \in BOOLEAN /\ stopAsked \in BOOLEAN /\ cut \in BOOLEAN /\ idleStop \in BOOLEAN
    BY DEF Init
  <2> QED BY <2>1, <2>2, <2>3, <2>4, <2>5 DEF TypeOK
<1>3. Continues
  BY <1>1, Requests DEF Init, Continues, InFile
<1>4. NotBegun /\ RanOut /\ Reported
  BY <1>1, Requests DEF Init, NotBegun, RanOut, Reported, FailureIsReported
<1> QED BY <1>2, <1>3, <1>4 DEF IInv

-----------------------------------------------------------------------------
(* Every action, and the stuttering step, keeps the invariant. *)

\* The caller: Start and Stop leave the buffer and the file alone.
LEMMA CallerIInv == IInv /\ (Start \/ StopBegin \/ StopJoin) => IInv'
PROOF
<1> SUFFICES ASSUME IInv, Start \/ StopBegin \/ StopJoin PROVE IInv'
  OBVIOUS
<1> USE DEF data, reading, history
<1>1. UNCHANGED <<buf, queued, file, total, count, overflow, aio, callbacks, cut, idleStop>>
  BY DEF Start, StopBegin, StopJoin
<1>2. Continues'
  BY <1>1 DEF IInv, Continues, InFile
<1>3. CASE Start
  <2>1. TypeOK'
    BY <1>1, <1>3 DEF IInv, TypeOK, Start, Flags
  <2>2. NotBegun' /\ RanOut'
    BY <1>1, <1>3 DEF IInv, NotBegun, RanOut, Start
  <2>3. Reported'
    BY <1>1, <1>3 DEF IInv, Reported, FailureIsReported, Start
  <2> QED BY <1>2, <2>1, <2>2, <2>3 DEF IInv
<1>4. CASE StopBegin
  <2>1. TypeOK'
    BY <1>1, <1>4 DEF IInv, TypeOK, StopBegin, Flags
  <2>2. NotBegun' /\ RanOut'
    BY <1>1, <1>4 DEF IInv, NotBegun, RanOut, StopBegin
  <2>3. Reported'
    BY <1>1, <1>4 DEF IInv, Reported, FailureIsReported, StopBegin
  <2> QED BY <1>2, <2>1, <2>2, <2>3 DEF IInv
<1>5. CASE StopJoin
  <2>1. TypeOK'
    BY <1>1, <1>5 DEF IInv, TypeOK, StopJoin, Flags
  <2>2. NotBegun' /\ RanOut'
    BY <1>1, <1>5 DEF IInv, NotBegun, RanOut, StopJoin
  <2>3. Reported'
    BY <1>1, <1>5 DEF IInv, Reported, FailureIsReported, StopJoin
  <2> QED BY <1>2, <2>1, <2>2, <2>3 DEF IInv
<1> QED BY <1>3, <1>4, <1>5

\* The steps of the thread that only look at the buffer.
LEMMA LooksIInv ==
  ASSUME IInv,
         Begin \/ Loop \/ ReadFails \/ BufferFull \/ AioPending \/ AioFailed
           \/ RunOutFailed \/ RunOutDone \/ End
  PROVE  IInv'
PROOF
<1> USE DEF data, reading, history
<1>1. UNCHANGED <<control, buf, queued, file, total, count, aio, stopAsked, cut>>
  BY DEF Begin, Loop, ReadFails, BufferFull, AioPending, AioFailed, RunOutFailed, RunOutDone, End
<1>2. Continues'
  BY <1>1 DEF IInv, Continues, InFile
<1>3. /\ buf \in Seq(Nat) /\ Len(buf) \in Nat /\ queued \in Nat /\ queued <= Len(buf)
      /\ callbacks \in 0 .. 1
  BY DEF IInv, TypeOK
<1>4. TypeOK'
  <2>1. thread' \in {"none", "begin", "loop", "read", "full", "aio", "runout", "end", "ended"}
    BY DEF IInv, TypeOK, Begin, Loop, ReadFails, BufferFull, AioPending, AioFailed,
           RunOutFailed, RunOutDone, End
  <2>2. exit_flag' \in Flags
    BY DEF IInv, TypeOK, Flags, Begin, Loop, ReadFails, BufferFull, AioPending, AioFailed,
           RunOutFailed, RunOutDone, End
  <2>3. callbacks' \in 0 .. 1
    BY DEF IInv, TypeOK, Reported, Begin, Loop, ReadFails, BufferFull, AioPending, AioFailed,
           RunOutFailed, RunOutDone, End
  <2>4. idleStop' \in BOOLEAN
    BY DEF IInv, TypeOK, Begin, Loop, ReadFails, BufferFull, AioPending, AioFailed,
           RunOutFailed, RunOutDone, End
  <2>5. overflow' \in BOOLEAN
    BY DEF IInv, TypeOK, Begin, Loop, ReadFails, BufferFull, AioPending, AioFailed,
           RunOutFailed, RunOutDone, End
  <2> QED BY <1>1, <2>1, <2>2, <2>3, <2>4, <2>5 DEF IInv, TypeOK
<1>5. NotBegun'
  BY <1>1 DEF IInv, NotBegun, Begin, Loop, ReadFails, BufferFull, AioPending, AioFailed,
              RunOutFailed, RunOutDone, End
<1>6. RanOut'
  <2>1. CASE Begin
    BY <1>1, <2>1 DEF IInv, NotBegun, RanOut, Begin
  <2>2. CASE Loop \/ ReadFails
    <3>1. thread' \notin {"end", "ended"}
      BY <2>2 DEF Loop, ReadFails
    <3>2. ASSUME thread' = "runout" PROVE idleStop' \/ queued # 0
      <4>1. CASE Loop
        <5>1. exit_flag # "RUNNING"
          BY <4>1, <3>2 DEF Loop
        <5> QED BY <4>1, <5>1 DEF Loop
      <4>2. CASE ReadFails
        BY <4>2, <3>2 DEF ReadFails
      <4> QED BY <2>2, <4>1, <4>2
    <3> QED BY <1>1, <1>3, <3>1, <3>2 DEF RanOut
  <2>3. CASE BufferFull \/ AioPending
    BY <1>1, <2>3 DEF RanOut, BufferFull, AioPending
  <2>4. CASE AioFailed \/ RunOutFailed
    BY <1>1, <2>4 DEF RanOut, AioFailed, RunOutFailed
  <2>5. CASE RunOutDone
    BY <1>1, <2>5 DEF IInv, RanOut, RunOutDone
  <2>6. CASE End
    BY <1>1, <2>6 DEF IInv, RanOut, End
  <2> QED BY <2>1, <2>2, <2>3, <2>4, <2>5, <2>6
<1>7. Reported'
  <2>1. CASE Begin
    BY <1>1, <2>1 DEF IInv, Reported, FailureIsReported, Begin
  <2>2. CASE Loop \/ ReadFails
    BY <1>1, <2>2 DEF IInv, Reported, FailureIsReported, Loop, ReadFails
  <2>3. CASE BufferFull \/ AioPending
    BY <1>1, <2>3 DEF IInv, Reported, FailureIsReported, BufferFull, AioPending
  <2>4. CASE AioFailed \/ RunOutFailed \/ RunOutDone
    BY <1>1, <2>4 DEF IInv, Reported, FailureIsReported, AioFailed, RunOutFailed, RunOutDone
  <2>5. CASE End
    BY <1>1, <1>3, <2>5 DEF IInv, Reported, FailureIsReported, End
  <2> QED BY <2>1, <2>2, <2>3, <2>4, <2>5
<1> QED BY <1>2, <1>4, <1>5, <1>6, <1>7 DEF IInv

LEMMA ReadBytesIInv == IInv /\ ReadBytes => IInv'
PROOF
<1> SUFFICES ASSUME IInv, ReadBytes PROVE IInv'
  OBVIOUS
<1>1. /\ buf' \in Seq(Nat) /\ Len(buf') <= BufSize /\ Len(buf') >= Len(buf)
      /\ total' \in Nat /\ Continues'
  BY ReadContinues
<1>2. /\ thread = "read" /\ thread' \in {"loop", "aio"}
      /\ UNCHANGED <<control, exit_flag, queued, file, aio, callbacks, stopAsked, cut, idleStop>>
      /\ overflow' = FALSE
  BY DEF ReadBytes, history
<1>3. count' \in Nat
  BY DEF ReadBytes, IInv, TypeOK
<1>4. queued' \in 0 .. Len(buf')
  <2>1. queued \in 0 .. Len(buf) /\ Len(buf) \in Nat /\ Len(buf') \in Nat
    BY <1>1 DEF IInv, TypeOK
  <2> QED BY <1>1, <1>2, <2>1
<1>5. TypeOK'
  BY <1>1, <1>2, <1>3, <1>4 DEF IInv, TypeOK
<1>6. NotBegun' /\ RanOut'
  BY <1>2 DEF NotBegun, RanOut
<1>7. Reported'
  BY <1>2 DEF IInv, Reported, FailureIsReported
<1> QED BY <1>1, <1>5, <1>6, <1>7 DEF IInv

LEMMA AioEndsIInv == IInv /\ AioEnds => IInv'
PROOF
<1> SUFFICES ASSUME IInv, AioEnds PROVE IInv'
  OBVIOUS
<1>1. /\ file' \in Seq(Nat) /\ cut' \in BOOLEAN
      /\ aio' \in {Busy, Done("ok"), Done("error")} /\ ~aio'.busy
      /\ Continues'
  BY RequestEnds
<1>2. /\ aio.busy
      /\ UNCHANGED <<thread, control, exit_flag, buf, queued, total, count, overflow,
                     callbacks, stopAsked, idleStop>>
  BY DEF AioEnds, reading
<1>3. TypeOK'
  BY <1>1, <1>2 DEF IInv, TypeOK
<1>4. NotBegun' /\ Reported'
  BY <1>2 DEF IInv, NotBegun, Reported, FailureIsReported
<1>5. RanOut'
  <2>1. thread = "runout" => idleStop \/ queued > 0 \/ Len(buf) = 0
    <3>1. aio.ret = "ok"
      BY <1>2, Requests DEF IInv, TypeOK
    <3> QED BY <3>1 DEF IInv, RanOut
  <2> QED BY <1>2, <2>1 DEF IInv, RanOut
<1> QED BY <1>1, <1>3, <1>4, <1>5 DEF IInv

LEMMA MovesUpIInv == IInv /\ (AioReady \/ RunOutWrite) => IInv'
PROOF
<1> SUFFICES ASSUME IInv, AioReady \/ RunOutWrite PROVE IInv'
  OBVIOUS
<1>1. /\ ~aio.busy /\ aio.ret = "ok" /\ thread \in {"aio", "runout"}
      /\ buf' = Drop(buf, queued) /\ queued' = Len(buf')
      /\ UNCHANGED <<control, file, total, count, overflow, callbacks, stopAsked, cut, idleStop>>
  BY DEF AioReady, RunOutWrite, reading, history
<1>2. aio' \in {Busy, Done("error")}
  BY DEF AioReady, RunOutWrite
<1>3. /\ thread' \in {"loop", "runout"} /\ exit_flag' \in {exit_flag, "FAILED_FILE"}
  BY DEF AioReady, RunOutWrite
<1>4. /\ buf' \in Seq(Nat) /\ Len(buf') <= BufSize /\ queued' \in 0 .. Len(buf')
      /\ aio' \in {Busy, Done("ok"), Done("error")} /\ Continues'
  BY <1>1, <1>2, MoveUp
<1>5. TypeOK'
  BY <1>1, <1>3, <1>4 DEF IInv, TypeOK, Flags
<1>6. NotBegun'
  BY <1>3 DEF NotBegun
<1>7. RanOut'
  <2>1. queued' > 0 \/ Len(buf') = 0
    BY <1>1, <1>4
  <2> QED BY <1>3, <2>1 DEF RanOut
<1>8. Reported'
  BY <1>1, <1>3 DEF IInv, Reported, FailureIsReported
<1> QED BY <1>4, <1>5, <1>6, <1>7, <1>8 DEF IInv

LEMMA NextIInv == IInv /\ [Next]_vars => IInv'
PROOF
<1> SUFFICES ASSUME IInv, [Next]_vars PROVE IInv'
  OBVIOUS
<1>1. CASE Start \/ StopBegin \/ StopJoin
  BY <1>1, CallerIInv
<1>2. CASE AioEnds
  BY <1>2, AioEndsIInv
<1>3. CASE ReadBytes
  BY <1>3, ReadBytesIInv
<1>4. CASE AioReady \/ RunOutWrite
  BY <1>4, MovesUpIInv
<1>5. CASE \/ Begin \/ Loop \/ ReadFails \/ BufferFull \/ AioPending \/ AioFailed
           \/ RunOutFailed \/ RunOutDone \/ End
  BY <1>5, LooksIInv
<1>6. CASE UNCHANGED vars
  <2>1. UNCHANGED <<thread, control, exit_flag, buf, queued, file, total, count, overflow, aio,
                    callbacks, stopAsked, cut, idleStop>>
    BY <1>6 DEF vars, data, reading, history
  <2>2. TypeOK' /\ Continues'
    BY <2>1 DEF IInv, TypeOK, Continues, InFile
  <2>3. NotBegun' /\ RanOut' /\ Reported'
    BY <2>1 DEF IInv, NotBegun, RanOut, Reported, FailureIsReported
  <2> QED BY <2>2, <2>3 DEF IInv
<1> QED BY <1>1, <1>2, <1>3, <1>4, <1>5, <1>6 DEF Next, RecordThread

-----------------------------------------------------------------------------
(* The theorems *)

\* A recording that was not cut short is the stream, and nothing of it is dropped.
LEMMA WholeFromIInv == IInv => FileIsWhole
PROOF
<1> SUFFICES ASSUME IInv, ~cut PROVE FileIsPrefix /\ NothingDropped /\ EndedRecordingIsWhole
  BY DEF FileIsWhole
<1>1. /\ buf \in Seq(Nat) /\ Len(buf) \in Nat /\ queued \in 0 .. Len(buf)
      /\ Len(file) \in Nat /\ total \in Nat
  BY DEF IInv, TypeOK
<1>2. /\ \A i \in 1 .. Len(file) : file[i] = i
      /\ Len(file) + Len(buf) - InFile = total
  BY DEF IInv, Continues
<1>3. InFile \in Nat /\ Len(Unwritten) = Len(buf) - InFile
  <2>1. CASE aio.busy \/ aio.ret = "error"
    BY <2>1, <1>1 DEF InFile, Unwritten
  <2>2. CASE ~(aio.busy \/ aio.ret = "error")
    BY <2>2, <1>1, DropProps DEF InFile, Unwritten
  <2> QED BY <2>1, <2>2
<1>4. FileIsPrefix
  BY <1>2 DEF FileIsPrefix
<1>5. NothingDropped
  BY <1>1, <1>2, <1>3 DEF NothingDropped
<1>6. EndedRecordingIsWhole
  <2> SUFFICES ASSUME thread = "ended", aio.ret = "ok", ~idleStop PROVE Len(file) = total
    BY DEF EndedRecordingIsWhole
  <2>1. queued = 0 /\ Len(buf) = 0
    BY DEF IInv, RanOut
  <2>2. InFile = 0
    BY <2>1 DEF InFile
  <2> QED BY <1>1, <1>2, <2>1, <2>2
<1> QED BY <1>4, <1>5, <1>6

\* The invariant holds in every state of every recording.
THEOREM RecordingInvariant == Spec => []IInv
PROOF BY InitIInv, NextIInv, PTL DEF Spec

\* The buffer stays within bufsize, and the request within the buffer: the memmove
\* and the Read of RecordThread stay inside the allocation.
THEOREM RecordingTypeOK == Spec => []TypeOK
PROOF
<1>1. IInv => TypeOK
  BY DEF IInv
<1> QED BY <1>1, RecordingInvariant, PTL

\* As long as no write is cut short the file is the stream, with nothing missing,
\* doubled or out of order, whatever the moments at which the writes end, fail or
\* are stopped.
THEOREM RecordingIsWhole == Spec => []FileIsWhole
PROOF BY RecordingInvariant, WholeFromIInv, PTL

\* A recording that ends by itself calls failureCallback, exactly once.
THEOREM RecordingFailureIsReported == Spec => []FailureIsReported
PROOF
<1>1. IInv => FailureIsReported
  BY DEF IInv, Reported
<1> QED BY <1>1, RecordingInvariant, PTL

\* What MCEndings does with a recording is a recording.
LEMMA RecordingInside == MCSpec => Spec
PROOF
<1>1. MCInit => Init
  BY DEF MCInit
<1>2. [MCNext]_all => [Next]_vars
  BY DEF MCNext, InRecord, InSessions, InPlayback, InSh4, InPc, InKeys, all
<1> QED BY <1>1, <1>2, PTL DEF MCSpec, Spec

\* So it is a stream without gaps, or one whose end was reported, there too.
THEOREM EndingsKeepRecordings == MCSpec => [](FileIsWhole /\ FailureIsReported)
PROOF BY RecordingInside, RecordingIsWhole, RecordingFailureIsReported, PTL

-----------------------------------------------------------------------------
(* InputMux.  Its variables have the names of the module here.               *)

fd      == v3
app     == v4
mux     == v5
files   == v6
pressed == v8
written == v9
two     == v11
again   == v12
broken  == v13

USE DEF fd, app, mux, files, pressed, written, two, again, broken

\* A key: the device and which of its keys it is.
KeyPairs == Keys!Panel \X Nat

EntryShape(e) == /\ DOMAIN e = {"no", "dev", "kept", "rev"}
                 /\ e.no \in Keys!Fds /\ e.dev \in Keys!Panel /\ e.rev \in {"none", "in", "hup"}
MuxShape(m)   == /\ DOMAIN m = {"at", "fds", "hand"} /\ \A e \in m.fds : EntryShape(e)
                 /\ m.hand \in Seq(KeyPairs)
AppShape(a)   == /\ DOMAIN a = {"at", "i", "n"} /\ a.i \in Keys!Devices
                 /\ a.at = "assign" => a.n \in Keys!Fds
FileShape(f)  == /\ DOMAIN f = {"dev", "live", "queue"} /\ f.dev \in Keys!Devices \cup {-1}
                 /\ f.queue \in Seq(KeyPairs)

KeysTyped ==
  /\ fd \in [Keys!Devices -> Keys!Fds \cup {-1}]
  /\ AppShape(app)
  /\ mux = [t \in MuxThreads |-> mux[t]] /\ \A t \in MuxThreads : MuxShape(mux[t])
  /\ files = [n \in Keys!Fds |-> files[n]] /\ \A n \in Keys!Fds : FileShape(files[n])
  /\ pressed \in [Keys!Panel -> Nat] /\ written \in [Keys!Panel -> Seq(KeyPairs)]

\* A thread has a key in hand between its read and its write, and entries to go on with until
\* it has handled the last one.
InPlace(m) ==
  /\ m.at \in {"ended", "begin", "loop"} => m.fds = {}
  /\ IF m.at = "write" THEN Len(m.hand) = 1 ELSE m.hand = <<>>
  /\ m.at \in {"handle", "write", "let go"} => m.fds # {}

ThreadsInPlace ==
  /\ \A t \in MuxThreads : InPlace(mux[t])
  /\ ~two => \A t, u \in MuxThreads : Keys!Alive(t) /\ Keys!Alive(u) => t = u

\* No key that is still to come to nevis_ir is behind one that came.
Later(d, no) == no <= pressed[d] /\ \A i \in DOMAIN written[d] : written[d][i][2] < no

HandLater(m) == m.hand # <<>> => Later(m.hand[1][1], m.hand[1][2])

KeyLater(f, i) ==
  /\ f.queue[i][1] = f.dev /\ Later(f.dev, f.queue[i][2])
  /\ \A j \in DOMAIN f.queue : j < i => f.queue[j][2] < f.queue[i][2]
  /\ \A t \in MuxThreads :
       mux[t].hand # <<>> /\ mux[t].hand[1][1] = f.dev => mux[t].hand[1][2] < f.queue[i][2]

QueueLater(f) == f.live => \A i \in DOMAIN f.queue : KeyLater(f, i)

\* Of the files of a device one only has keys that can be read.
OneQueue ==
  \A n, m \in Keys!Fds :
    n # m /\ files[n].live /\ files[m].live /\ files[n].dev = files[m].dev
      => files[n].queue = <<>> \/ files[m].queue = <<>>

InOrder ==
  ~two /\ ~again =>
    /\ \A d \in Keys!Panel : \A i, j \in DOMAIN written[d] : i < j => written[d][i][2] < written[d][j][2]
    /\ \A d \in Keys!Panel : \A i \in DOMAIN written[d] : written[d][i][2] <= pressed[d]
    /\ \A t \in MuxThreads : HandLater(mux[t])
    /\ \A n \in Keys!Fds : QueueLater(files[n])
    /\ OneQueue

\* As long as nothing was closed or pulled out: a device has the file of its number, and an
\* entry is about that file.
HasFile(d) == fd[d] # -1 /\ files[fd[d]].dev = d
StandsFor(e) == e.kept /\ e.rev # "hup" /\ fd[e.dev] = e.no
Stands ==
  /\ app.at = "idle"
  /\ (\E t \in MuxThreads : Keys!Alive(t)) => HasFile(0)
  /\ \A d \in Keys!Panel : fd[d] # -1 => HasFile(d) /\ files[fd[d]].live
  /\ \A t \in MuxThreads : mux[t].at # "let go" /\ \A e \in mux[t].fds : StandsFor(e)

\* The keys of d on their way: w written ones, h in hand, q in the queue, up to the last.
HandOf(d) == IF \E t \in MuxThreads : mux[t].hand # <<>> /\ mux[t].hand[1][1] = d THEN 1 ELSE 0

Unbroken(d) ==
  IF fd[d] = -1 THEN written[d] = <<>> /\ HandOf(d) = 0
  ELSE LET q == files[fd[d]].queue
           w == written[d]
       IN  /\ \A i \in DOMAIN q : q[i] = <<d, pressed[d] - Len(q) + i>>
           /\ \A t \in MuxThreads : mux[t].hand # <<>> /\ mux[t].hand[1][1] = d
                => mux[t].hand[1] = <<d, pressed[d] - Len(q)>>
           /\ \A i \in DOMAIN w : w[i] = <<d, pressed[d] - Len(q) - HandOf(d) - Len(w) + i>>

NoneMissing ==
  ~two /\ ~again /\ ~broken => Stands /\ \A d \in Keys!Panel : Unbroken(d)

KeysInv == KeysTyped /\ ThreadsInPlace /\ InOrder /\ NoneMissing

LEMMA KeysConstants ==
  ASSUME Keys!Assumptions
  PROVE  /\ LastDevice \in Nat /\ Keys!Panel = 1 .. LastDevice /\ Keys!Devices = 0 .. LastDevice
         /\ FdLimit \in Nat /\ Keys!Fds = 1 .. FdLimit
         /\ 0 \notin Keys!Panel /\ -1 \notin Keys!Fds /\ -1 \notin Keys!Devices
BY DEF Keys!Assumptions, Keys!Panel, Keys!Devices, Keys!Fds

LEMMA NoKeys == <<>> \in Seq(KeyPairs)
PROOF OBVIOUS

LEMMA InitKeys ==
  ASSUME Keys!Init, Keys!Assumptions
  PROVE  KeysInv
<1>1. KeysTyped
  <2>1. <<>> \in Seq(KeyPairs)
    BY NoKeys
  <2>2. MuxShape(Keys!Ended)
    BY <2>1 DEF MuxShape, Keys!Ended
  <2>3. FileShape(Keys!NoFile)
    BY <2>1 DEF FileShape, Keys!NoFile
  <2>4. AppShape(app)
    BY KeysConstants DEF Keys!Init, Keys!Idle, AppShape
  <2>5. /\ mux = [t \in MuxThreads |-> Keys!Ended] /\ files = [n \in Keys!Fds |-> Keys!NoFile]
        /\ fd = [d \in Keys!Devices |-> -1] /\ pressed = [d \in Keys!Panel |-> 0]
        /\ written = [d \in Keys!Panel |-> <<>>]
    BY DEF Keys!Init
  <2>6. mux = [t \in MuxThreads |-> mux[t]] /\ \A t \in MuxThreads : MuxShape(mux[t])
    BY <2>2, <2>5
  <2>7. files = [n \in Keys!Fds |-> files[n]] /\ \A n \in Keys!Fds : FileShape(files[n])
    BY <2>3, <2>5
  <2>8. fd \in [Keys!Devices -> Keys!Fds \cup {-1}] /\ pressed \in [Keys!Panel -> Nat]
    BY <2>5
  <2>9. written \in [Keys!Panel -> Seq(KeyPairs)]
    BY <2>1, <2>5
  <2> QED BY <2>4, <2>6, <2>7, <2>8, <2>9 DEF KeysTyped
<1>2. ThreadsInPlace
  BY DEF Keys!Init, ThreadsInPlace, InPlace, Keys!Ended, Keys!Alive
<1>3. InOrder
  BY DEF Keys!Init, InOrder, HandLater, QueueLater, OneQueue, Keys!Ended, Keys!NoFile
<1>4. NoneMissing
  <2>1. Stands
    <3>1. app.at = "idle" /\ \A d \in Keys!Panel : fd[d] = -1
      BY KeysConstants DEF Keys!Init, Keys!Idle
    <3>2. \A t \in MuxThreads : mux[t].at = "ended" /\ mux[t].fds = {}
      BY DEF Keys!Init, Keys!Ended
    <3> QED BY <3>1, <3>2 DEF Stands, Keys!Alive
  <2>2. \A d \in Keys!Panel : Unbroken(d)
    BY KeysConstants DEF Keys!Init, Unbroken, HandOf, Keys!Ended, Keys!Devices
  <2> QED BY <2>1, <2>2 DEF NoneMissing
<1> QED BY <1>1, <1>2, <1>3, <1>4 DEF KeysInv

\* A step of a thread that moves no key and touches no file.
LEMMA ThreadOnly ==
  ASSUME KeysInv, NEW t \in MuxThreads, NEW m, mux' = [mux EXCEPT ![t] = m],
         MuxShape(m), InPlace(m), m.hand = mux[t].hand, m.at # "ended" => mux[t].at # "ended",
         ~two /\ ~again /\ ~broken => m.at # "let go" /\ \A e \in m.fds : StandsFor(e),
         UNCHANGED <<fd, app, files, pressed, written, two, again, broken>>
  PROVE  KeysInv'
<1>1. mux = [u \in MuxThreads |-> mux[u]]
  BY DEF KeysInv, KeysTyped
<1>2. mux' = [u \in MuxThreads |-> mux'[u]] /\ mux'[t] = m /\ \A u \in MuxThreads : u # t => mux'[u] = mux[u]
  BY <1>1
<1>3. \A u \in MuxThreads : mux'[u].hand = mux[u].hand
  BY <1>2
<1>4. KeysTyped'
  BY <1>2 DEF KeysInv, KeysTyped
<1>5. ThreadsInPlace'
  BY <1>2 DEF KeysInv, ThreadsInPlace, Keys!Alive
<1>6. InOrder'
  <2> SUFFICES ASSUME ~two, ~again PROVE InOrder'
    BY DEF InOrder
  <2>1. InOrder
    BY DEF KeysInv
  <2>2. \A d, no : Later(d, no)' <=> Later(d, no)
    BY DEF Later
  <2>3. \A u \in MuxThreads : HandLater(mux[u])'
    BY <1>3, <2>1, <2>2 DEF InOrder, HandLater
  <2>4. \A n \in Keys!Fds : QueueLater(files[n])'
    <3> SUFFICES ASSUME NEW n \in Keys!Fds, files[n].live, NEW i \in DOMAIN files[n].queue
                 PROVE  KeyLater(files[n], i)'
      BY DEF QueueLater
    <3>1. KeyLater(files[n], i)
      BY <2>1 DEF InOrder, QueueLater
    <3> QED BY <1>3, <2>2, <3>1 DEF KeyLater
  <2>5. OneQueue'
    BY <2>1 DEF InOrder, OneQueue
  <2> QED BY <2>1, <2>3, <2>4, <2>5 DEF InOrder
<1>7. NoneMissing'
  <2> SUFFICES ASSUME ~two, ~again, ~broken PROVE Stands' /\ \A d \in Keys!Panel : Unbroken(d)'
    BY DEF NoneMissing
  <2>1. Stands /\ \A d \in Keys!Panel : Unbroken(d)
    BY DEF KeysInv, NoneMissing
  <2>2. Stands'
    <3>1. \A e : StandsFor(e)' <=> StandsFor(e)
      BY DEF StandsFor
    <3>2. \A d : HasFile(d)' <=> HasFile(d)
      BY DEF HasFile
    <3>3. (\E u \in MuxThreads : Keys!Alive(u)') => \E u \in MuxThreads : Keys!Alive(u)
      BY <1>2 DEF Keys!Alive
    <3>4. \A u \in MuxThreads : mux'[u].at # "let go" /\ \A e \in mux'[u].fds : StandsFor(e)
      BY <1>2, <2>1 DEF Stands
    <3> QED BY <2>1, <3>1, <3>2, <3>3, <3>4 DEF Stands
  <2>3. ASSUME NEW d \in Keys!Panel PROVE Unbroken(d)'
    <3>1. HandOf(d)' = HandOf(d)
      BY <1>3 DEF HandOf
    <3>2. Unbroken(d)
      BY <2>1
    <3>3. CASE fd[d] = -1
      BY <3>1, <3>2, <3>3 DEF Unbroken
    <3>4. CASE fd[d] # -1
      BY <1>3, <3>1, <3>2, <3>4 DEF Unbroken
    <3> QED BY <3>3, <3>4
  <2> QED BY <2>2, <2>3
<1> QED BY <1>4, <1>5, <1>6, <1>7 DEF KeysInv

\* The thread begins and ends, and poll says what it found.
LEMMA PollSteps ==
  ASSUME KeysInv, NEW t \in MuxThreads,
         Keys!inmux_thread(t) \/ Keys!LoopEnds(t) \/ Keys!PollTimesOut(t) \/ Keys!PollFails(t) \/ Keys!PollReturns(t)
  PROVE  KeysInv'
<1>1. MuxShape(mux[t]) /\ InPlace(mux[t]) /\ mux = [u \in MuxThreads |-> mux[u]]
  BY DEF KeysInv, KeysTyped, ThreadsInPlace
<1>2. UNCHANGED <<fd, app, files, pressed, written, two, again, broken>>
  BY DEF Keys!inmux_thread, Keys!LoopEnds, Keys!PollTimesOut, Keys!PollFails, Keys!PollReturns, Keys!history
<1>3. ~two /\ ~again /\ ~broken => \A e \in mux[t].fds : StandsFor(e)
  BY DEF KeysInv, NoneMissing, Stands
<1>4. CASE Keys!inmux_thread(t) \/ Keys!LoopEnds(t)
  <2>1. PICK at \in {"loop", "ended"} : mux' = [mux EXCEPT ![t].at = at] /\ mux[t].at \in {"begin", "loop"}
                                        /\ (at = "ended" => mux[t].at = "loop")
    BY <1>4 DEF Keys!inmux_thread, Keys!LoopEnds, Keys!At, Keys!Goes
  <2> DEFINE m == [mux[t] EXCEPT !.at = at]
  <2>2. mux' = [mux EXCEPT ![t] = m]
    BY <2>1
  <2>3. MuxShape(m) /\ m.at = at /\ m.fds = mux[t].fds /\ m.hand = mux[t].hand
    BY <1>1 DEF MuxShape
  <2> HIDE DEF m
  <2>4. InPlace(m)
    BY <1>1, <2>1, <2>3 DEF InPlace
  <2> QED BY <1>2, <1>3, <2>1, <2>2, <2>3, <2>4, ThreadOnly
<1>5. CASE Keys!PollTimesOut(t) \/ Keys!PollFails(t)
  <2> DEFINE m == [mux[t] EXCEPT !.at = "loop", !.fds = {}]
  <2>1. mux' = [mux EXCEPT ![t] = m] /\ mux[t].at = "poll"
    BY <1>1, <1>5 DEF Keys!PollTimesOut, Keys!PollFails, Keys!At
  <2>2. MuxShape(m) /\ m.at = "loop" /\ m.fds = {} /\ m.hand = mux[t].hand
    BY <1>1 DEF MuxShape
  <2>3. InPlace(m)
    BY <1>1, <2>1, <2>2 DEF InPlace
  <2> HIDE DEF m
  <2> QED BY <1>2, <2>1, <2>2, <2>3, ThreadOnly
<1>6. CASE Keys!PollReturns(t)
  <2> DEFINE es == mux[t].fds
  <2>1. PICK rev \in [es -> {"none", "in", "hup"}] :
          /\ \A e \in es : rev[e] \in Keys!Revents(e)
          /\ \E e \in es : rev[e] # "none"
          /\ mux' = [mux EXCEPT ![t].at = "handle",
               ![t].fds = {[e EXCEPT !.rev = rev[e]] : e \in {e \in es : rev[e] # "none"}}]
    BY <1>6 DEF Keys!PollReturns
  <2> DEFINE gs == {[e EXCEPT !.rev = rev[e]] : e \in {e \in es : rev[e] # "none"}}
             m == [mux[t] EXCEPT !.at = "handle", !.fds = gs]
  <2>2. mux' = [mux EXCEPT ![t] = m] /\ mux[t].at = "poll"
    BY <1>1, <1>6, <2>1 DEF Keys!PollReturns, Keys!At
  <2>3. ASSUME NEW g \in gs
        PROVE  \E e \in es : /\ EntryShape(e) /\ EntryShape(g) /\ g.no = e.no /\ g.dev = e.dev /\ g.kept = e.kept
                             /\ g.rev = rev[e] /\ rev[e] \in Keys!Revents(e)
    <3>1. PICK e \in es : g = [e EXCEPT !.rev = rev[e]]
      BY <2>3
    <3>2. EntryShape(e) /\ rev[e] \in {"none", "in", "hup"}
      BY <1>1, <2>1 DEF MuxShape
    <3> QED BY <2>1, <3>1, <3>2 DEF EntryShape
  <2>4. gs # {}
    BY <2>1
  <2> HIDE DEF gs
  <2>5. MuxShape(m) /\ m.at = "handle" /\ m.fds = gs /\ m.hand = mux[t].hand
    BY <1>1, <2>3 DEF MuxShape
  <2>6. InPlace(m)
    BY <1>1, <2>2, <2>4, <2>5 DEF InPlace
  <2>7. ASSUME ~two, ~again, ~broken, NEW g \in gs PROVE StandsFor(g)
    <3>1. PICK e \in es : /\ EntryShape(e) /\ g.no = e.no /\ g.dev = e.dev /\ g.kept = e.kept
                          /\ g.rev = rev[e] /\ rev[e] \in Keys!Revents(e)
      BY <2>3
    <3>2. StandsFor(e) /\ e.dev \in Keys!Panel /\ e.no \in Keys!Fds
      BY <1>3, <2>7, <3>1 DEF EntryShape
    <3>3. e.no # -1
      BY <3>2 DEF Keys!Fds
    <3>4. files[e.no].live
      BY <2>7, <3>2, <3>3 DEF KeysInv, NoneMissing, Stands, StandsFor
    <3>5. Keys!Revents(e) \subseteq {"none", "in"}
      BY <3>2, <3>4 DEF Keys!Revents, StandsFor
    <3> QED BY <3>1, <3>2, <3>5 DEF StandsFor
  <2> HIDE DEF m
  <2> QED BY <1>2, <2>2, <2>5, <2>6, <2>7, ThreadOnly
<1> QED BY <1>4, <1>5, <1>6

LEMMA Minimum ==
  ASSUME NEW S \in SUBSET Nat, S # {}
  PROVE  \E n \in S : \A m \in S : n <= m
<1> DEFINE R == {ss \in Nat \X Nat : ss[1] < ss[2]}
<1>1. IsWellFoundedOn(R, Nat)
  BY NatLessThanWellFounded DEF OpToRel
<1>2. PICK n \in S : \A m \in S : <<m, n>> \notin R
  <2> HIDE DEF R
  <2> QED BY <1>1, WFMin
<1>3. \A m \in S : ~(m < n)
  BY <1>2, Zenon
<1> QED BY <1>3

LEMMA LeastFree ==
  ASSUME Keys!Assumptions, Keys!Free # {}
  PROVE  /\ Keys!Least(Keys!Free) \in Keys!Fds
         /\ files[Keys!Least(Keys!Free)].dev = -1
<1>1. Keys!Free \in SUBSET Nat /\ Keys!Free \subseteq Keys!Fds
  BY KeysConstants DEF Keys!Free
<1>2. Keys!Least(Keys!Free) \in Keys!Free
  BY <1>1, Minimum DEF Keys!Least
<1> QED BY <1>2 DEF Keys!Free

\* The next entry of a thread is one of its entries.
LEMMA NextEntry ==
  ASSUME Keys!Assumptions, NEW t \in MuxThreads, MuxShape(mux[t]), mux[t].fds # {}
  PROVE  Keys!Entry(t) \in mux[t].fds
<1> DEFINE S == {e.dev : e \in mux[t].fds}
<1>1. S \in SUBSET Nat /\ S # {}
  BY KeysConstants DEF MuxShape, EntryShape
<1>2. PICK d \in S : \A c \in S : d <= c
  BY <1>1, Minimum
<1>3. PICK e \in mux[t].fds : e.dev = d
  BY <1>2
<1>4. \A f \in mux[t].fds : e.dev <= f.dev
  BY <1>2, <1>3
<1> QED BY <1>3, <1>4 DEF Keys!Entry

LEMMA LoopsShape ==
  ASSUME Keys!Assumptions, AppShape(app), NEW at \in {"reopen", "exit"}, Keys!Loops(at)
  PROVE  AppShape(app')
<1>1. CASE app.i < LastDevice
  <2>1. app.i + 1 \in Keys!Devices
    BY <1>1, KeysConstants DEF AppShape
  <2> QED BY <1>1, <2>1 DEF Keys!Loops, Keys!Idle, AppShape
<1>2. CASE ~(app.i < LastDevice)
  BY <1>2, KeysConstants DEF Keys!Loops, Keys!Idle, AppShape
<1> QED BY <1>1, <1>2

\* A number that is closed changes of the threads only what poll is about.
LEMMA Forgotten ==
  ASSUME \A t \in MuxThreads : MuxShape(mux[t]) /\ InPlace(mux[t]), NEW n
  PROVE  /\ Keys!Forget(n, mux) = [t \in MuxThreads |-> Keys!Forget(n, mux)[t]]
         /\ \A t \in MuxThreads :
              /\ MuxShape(Keys!Forget(n, mux)[t]) /\ InPlace(Keys!Forget(n, mux)[t])
              /\ Keys!Forget(n, mux)[t].at = mux[t].at /\ Keys!Forget(n, mux)[t].hand = mux[t].hand
<1> DEFINE es(t) == {[e EXCEPT !.kept = @ /\ e.no # n] : e \in mux[t].fds}
           m(t)  == [mux[t] EXCEPT !.fds = es(t)]
<1>1. Keys!Forget(n, mux) = [t \in MuxThreads |-> m(t)]
  BY DEF Keys!Forget
<1>2. ASSUME NEW t \in MuxThreads
      PROVE  MuxShape(m(t)) /\ InPlace(m(t)) /\ m(t).at = mux[t].at /\ m(t).hand = mux[t].hand
  <2>1. MuxShape(mux[t]) /\ InPlace(mux[t])
    OBVIOUS
  <2>2. ASSUME NEW g \in es(t) PROVE EntryShape(g)
    <3>1. PICK e \in mux[t].fds : g = [e EXCEPT !.kept = @ /\ e.no # n]
      BY <2>2
    <3>2. EntryShape(e)
      BY <2>1 DEF MuxShape
    <3> QED BY <3>1, <3>2 DEF EntryShape
  <2>3. es(t) = {} <=> mux[t].fds = {}
    OBVIOUS
  <2> HIDE DEF es
  <2>4. DOMAIN mux[t] = {"at", "fds", "hand"}
    BY <2>1 DEF MuxShape
  <2>5. /\ DOMAIN m(t) = {"at", "fds", "hand"} /\ m(t).at = mux[t].at /\ m(t).hand = mux[t].hand
        /\ m(t).fds = es(t)
    BY <2>4
  <2> HIDE DEF m
  <2>6. MuxShape(m(t))
    BY <2>1, <2>2, <2>5 DEF MuxShape
  <2>7. InPlace(m(t))
    BY <2>1, <2>3, <2>5 DEF InPlace
  <2> QED BY <2>5, <2>6, <2>7
<1> HIDE DEF m
<1> QED BY <1>1, <1>2

\* Files may be moved to other numbers, closed, or opened anew.
LEMMA FilesMoved ==
  ASSUME KeysTyped, InOrder, NEW from \in [Keys!Fds -> Keys!Fds],
         \A n \in Keys!Fds : files'[n].live /\ files'[n].queue # <<>> => files'[n] = files[from[n]],
         \A n, m \in Keys!Fds : n # m /\ files'[n].queue # <<>> /\ files'[m].queue # <<>>
                                  /\ files'[n].live /\ files'[m].live => from[n] # from[m],
         \A n \in Keys!Fds : FileShape(files'[n]),
         \A u \in MuxThreads : mux'[u].hand = mux[u].hand,
         \A d \in Keys!Panel : written'[d] = written[d] \/ written'[d] = <<>>,
         pressed' = pressed, ~two' => ~two, again' = again
  PROVE  InOrder'
<1> SUFFICES ASSUME ~two', ~again' PROVE InOrder'
  BY DEF InOrder
<1>1. InOrder /\ ~two /\ ~again
  OBVIOUS
<1>2. \A d \in Keys!Panel : \A no : Later(d, no) => Later(d, no)'
  BY DEF Later
<1>3. \A d \in Keys!Panel : \A i, j \in DOMAIN written'[d] : i < j => written'[d][i][2] < written'[d][j][2]
  BY <1>1 DEF InOrder
<1>4. \A d \in Keys!Panel : \A i \in DOMAIN written'[d] : written'[d][i][2] <= pressed'[d]
  BY <1>1 DEF InOrder
<1>5. \A u \in MuxThreads : HandLater(mux[u])'
  <2> SUFFICES ASSUME NEW u \in MuxThreads, mux[u].hand # <<>>
               PROVE  Later(mux[u].hand[1][1], mux[u].hand[1][2])'
    BY DEF HandLater
  <2>1. mux[u].hand[1] \in KeyPairs
    BY DEF KeysTyped, MuxShape
  <2>2. Later(mux[u].hand[1][1], mux[u].hand[1][2])
    BY <1>1 DEF InOrder, HandLater
  <2> QED BY <1>2, <2>1, <2>2 DEF KeyPairs
<1>6. \A n \in Keys!Fds : QueueLater(files[n])'
  <2> SUFFICES ASSUME NEW n \in Keys!Fds, files'[n].live, NEW i \in DOMAIN files'[n].queue
               PROVE  KeyLater(files[n], i)'
    BY DEF QueueLater
  <2>1. files'[n] = files[from[n]] /\ from[n] \in Keys!Fds
    OBVIOUS
  <2>2. KeyLater(files[from[n]], i)
    BY <1>1, <2>1 DEF InOrder, QueueLater
  <2>3. files[from[n]].queue[i] \in KeyPairs
    BY <2>1 DEF KeysTyped, FileShape
  <2>4. files[from[n]].dev \in Keys!Panel
    BY <2>2, <2>3 DEF KeyLater, KeyPairs
  <2>5. files'[n].queue[i][1] = files'[n].dev /\ Later(files[n].dev, files[n].queue[i][2])'
    BY <1>2, <2>1, <2>2, <2>4 DEF KeyLater, Later
  <2>6. \A j \in DOMAIN files'[n].queue : j < i => files'[n].queue[j][2] < files'[n].queue[i][2]
    BY <2>1, <2>2 DEF KeyLater
  <2>7. \A u \in MuxThreads : mux'[u].hand # <<>> /\ mux'[u].hand[1][1] = files'[n].dev
                                => mux'[u].hand[1][2] < files'[n].queue[i][2]
    BY <2>1, <2>2 DEF KeyLater
  <2> QED BY <2>5, <2>6, <2>7 DEF KeyLater
<1>7. OneQueue'
  <2> SUFFICES ASSUME NEW n \in Keys!Fds, NEW m \in Keys!Fds, n # m, files'[n].live, files'[m].live,
                      files'[n].dev = files'[m].dev, files'[n].queue # <<>>, files'[m].queue # <<>>
               PROVE  FALSE
    BY DEF OneQueue
  <2>1. files'[n] = files[from[n]] /\ files'[m] = files[from[m]] /\ from[n] # from[m]
        /\ from[n] \in Keys!Fds /\ from[m] \in Keys!Fds
    OBVIOUS
  <2> QED BY <1>1, <2>1 DEF InOrder, OneQueue
<1> QED BY <1>3, <1>4, <1>5, <1>6, <1>7 DEF InOrder

\* The threads keep the keys they have in hand, and none begins.
Stays ==
  /\ mux' = [t \in MuxThreads |-> mux'[t]]
  /\ \A t \in MuxThreads : /\ MuxShape(mux'[t]) /\ InPlace(mux'[t])
                            /\ (mux'[t].at # "ended" => mux[t].at # "ended") /\ mux'[t].hand = mux[t].hand

LEMMA Unmoved ==
  ASSUME KeysInv, mux' = mux \/ \E n : mux' = Keys!Forget(n, mux)
  PROVE  Stays
<1>1. mux = [t \in MuxThreads |-> mux[t]] /\ \A t \in MuxThreads : MuxShape(mux[t]) /\ InPlace(mux[t])
  BY DEF KeysInv, KeysTyped, ThreadsInPlace
<1>2. CASE mux' = mux
  BY <1>1, <1>2 DEF Stays
<1>3. CASE \E n : mux' = Keys!Forget(n, mux)
  <2>1. PICK n : mux' = Keys!Forget(n, mux)
    BY <1>3
  <2> QED BY <1>1, <2>1, Forgotten DEF Stays
<1> QED BY <1>2, <1>3

\* A step of the application, or a device that is closed.
LEMMA FileSteps ==
  ASSUME KeysInv, Stays, NEW from \in [Keys!Fds -> Keys!Fds],
         files' = [n \in Keys!Fds |-> files'[n]],
         \A n \in Keys!Fds : FileShape(files'[n]),
         \A n \in Keys!Fds : files'[n].live /\ files'[n].queue # <<>> => files'[n] = files[from[n]],
         \A n, m \in Keys!Fds : n # m /\ files'[n].queue # <<>> /\ files'[m].queue # <<>>
                                  /\ files'[n].live /\ files'[m].live => from[n] # from[m],
         fd' \in [Keys!Devices -> Keys!Fds \cup {-1}], AppShape(app'),
         pressed' = pressed, written' = written, two' = two, again' = again, two' \/ again' \/ broken'
  PROVE  KeysInv'
<1>1. /\ mux' = [t \in MuxThreads |-> mux'[t]]
      /\ \A t \in MuxThreads : /\ MuxShape(mux'[t]) /\ InPlace(mux'[t]) /\ mux'[t].hand = mux[t].hand
                               /\ (mux'[t].at # "ended" => mux[t].at # "ended")
  BY DEF Stays
<1>2. KeysTyped'
  BY <1>1 DEF KeysInv, KeysTyped
<1>3. ThreadsInPlace'
  BY <1>1 DEF KeysInv, ThreadsInPlace, Keys!Alive
<1>4. InOrder'
  <2>1. KeysTyped /\ InOrder
    BY DEF KeysInv
  <2> QED BY <1>1, <2>1, FilesMoved
<1>5. NoneMissing'
  BY DEF NoneMissing
<1> QED BY <1>2, <1>3, <1>4, <1>5 DEF KeysInv

\* The application is in the middle of a call only when something was reopened or closed.
LEMMA Disturbed ==
  ASSUME KeysInv
  PROVE  app.at # "idle" => two \/ again \/ broken
BY DEF KeysInv, NoneMissing, Stands

\* Nothing is moved: files are closed, pulled out or opened.
LEMMA FilesChanged ==
  ASSUME KeysInv, Stays,
         files' = [n \in Keys!Fds |-> files'[n]],
         \A n \in Keys!Fds : FileShape(files'[n]),
         \A n \in Keys!Fds : files'[n].live => files'[n] = files[n] \/ files'[n].queue = <<>>,
         fd' \in [Keys!Devices -> Keys!Fds \cup {-1}], AppShape(app'),
         pressed' = pressed, written' = written, two' = two, again' = again, two' \/ again' \/ broken'
  PROVE  KeysInv'
<1> DEFINE from == [n \in Keys!Fds |-> n]
<1>1. from \in [Keys!Fds -> Keys!Fds] /\ \A n \in Keys!Fds : from[n] = n
  OBVIOUS
<1> HIDE DEF from
<1> QED BY <1>1, FileSteps

LEMMA PlugSteps ==
  ASSUME KeysInv, NEW d \in Keys!Panel, Keys!Unplug(d)
  PROVE  KeysInv'
<1>1. files = [n \in Keys!Fds |-> files[n]] /\ \A n \in Keys!Fds : FileShape(files[n])
  BY DEF KeysInv, KeysTyped
<1>2. files' = [n \in Keys!Fds |-> IF files[n].dev = d THEN [files[n] EXCEPT !.live = FALSE] ELSE files[n]]
  BY DEF Keys!Unplug
<1>3. ASSUME NEW n \in Keys!Fds
      PROVE  FileShape(files'[n]) /\ (files'[n].live => files'[n] = files[n])
  <2>1. FileShape(files[n])
    BY <1>1
  <2>2. CASE files[n].dev = d
    BY <1>2, <2>1, <2>2 DEF FileShape
  <2>3. CASE files[n].dev # d
    BY <1>2, <2>1, <2>3
  <2> QED BY <2>2, <2>3
<1>4. fd' \in [Keys!Devices -> Keys!Fds \cup {-1}] /\ AppShape(app')
  BY DEF KeysInv, KeysTyped, Keys!Unplug
<1>5. /\ pressed' = pressed /\ written' = written /\ two' = two /\ again' = again /\ broken' /\ Stays
  BY Unmoved DEF Keys!Unplug
<1>6. files' = [n \in Keys!Fds |-> files'[n]]
  BY <1>2
<1> QED BY <1>3, <1>4, <1>5, <1>6, FilesChanged

LEMMA CallSteps ==
  ASSUME KeysInv, Keys!Assumptions, Keys!InitAgain \/ Keys!hal_api_exit
  PROVE  KeysInv'
<1>1. AppShape(app') /\ fd' = fd /\ files' = files
  BY KeysConstants DEF Keys!InitAgain, Keys!hal_api_exit, Keys!Idle, AppShape
<1>2. /\ pressed' = pressed /\ written' = written /\ two' = two /\ again' = again /\ broken' /\ Stays
  BY Unmoved DEF Keys!InitAgain, Keys!hal_api_exit
<1>3. /\ files = [n \in Keys!Fds |-> files[n]] /\ \A n \in Keys!Fds : FileShape(files[n])
      /\ fd \in [Keys!Devices -> Keys!Fds \cup {-1}]
  BY DEF KeysInv, KeysTyped
<1> QED BY <1>1, <1>2, <1>3, FilesChanged

LEMMA Emptied ==
  FileShape(Keys!NoFile) /\ ~Keys!NoFile.live /\ Keys!NoFile.queue = <<>> /\ Keys!NoFile.dev = -1
BY NoKeys DEF FileShape, Keys!NoFile

LEMMA OpenedNow ==
  ASSUME NEW d \in Keys!Devices
  PROVE  /\ FileShape(Keys!Opened(d)) /\ Keys!Opened(d).queue = <<>> /\ Keys!Opened(d).dev = d
         /\ Keys!Opened(d).live
BY NoKeys DEF FileShape, Keys!Opened

LEMMA ReopenKeys ==
  ASSUME KeysInv, Keys!Assumptions, Keys!Reopen
  PROVE  KeysInv'
<1>1. /\ files = [n \in Keys!Fds |-> files[n]] /\ \A n \in Keys!Fds : FileShape(files[n])
      /\ fd \in [Keys!Devices -> Keys!Fds \cup {-1}] /\ AppShape(app) /\ app.i \in Keys!Devices
  BY DEF KeysInv, KeysTyped, AppShape
<1>2. /\ fd' = fd /\ pressed' = pressed /\ written' = written /\ two' = two /\ again' = again
      /\ two' \/ again' \/ broken'
  BY Disturbed DEF Keys!Reopen, Keys!history
<1>3. CASE /\ Keys!Free # {} /\ app.i \in v7 \cup {0}
           /\ app' = [app EXCEPT !.at = "assign", !.n = Keys!Least(Keys!Free)]
           /\ files' = [files EXCEPT ![Keys!Least(Keys!Free)] = Keys!Opened(app.i)]
           /\ mux' = mux
  <2> DEFINE k == Keys!Least(Keys!Free)
  <2>1. k \in Keys!Fds
    BY <1>3, LeastFree
  <2>2. files' = [files EXCEPT ![k] = Keys!Opened(app.i)] /\ app' = [app EXCEPT !.at = "assign", !.n = k]
    BY <1>3
  <2> HIDE DEF k
  <2>3. AppShape(app')
    BY <1>1, <2>1, <2>2 DEF AppShape
  <2>4. files' = [n \in Keys!Fds |-> files'[n]] /\ files'[k] = Keys!Opened(app.i)
        /\ \A n \in Keys!Fds : n # k => files'[n] = files[n]
    BY <1>1, <2>1, <2>2
  <2>5. \A n \in Keys!Fds : FileShape(files'[n]) /\ (files'[n] = files[n] \/ files'[n].queue = <<>>)
    BY <1>1, <2>4, OpenedNow
  <2>6. Stays
    BY <1>3, Unmoved
  <2> QED BY <1>1, <1>2, <2>3, <2>4, <2>5, <2>6, FilesChanged
<1>4. CASE /\ fd[app.i] > -1 /\ app' = [app EXCEPT !.at = "drop"]
           /\ files' = [files EXCEPT ![fd[app.i]] = Keys!NoFile] /\ mux' = Keys!Forget(fd[app.i], mux)
  <2>1. AppShape(app')
    BY <1>1, <1>4 DEF AppShape
  <2>2. files' = [n \in Keys!Fds |-> files'[n]]
        /\ \A n \in Keys!Fds : files'[n] = files[n] \/ files'[n] = Keys!NoFile
    BY <1>1, <1>4
  <2>3. \A n \in Keys!Fds : FileShape(files'[n]) /\ (files'[n] = files[n] \/ files'[n].queue = <<>>)
    BY <1>1, <2>2, Emptied
  <2>4. Stays
    BY <1>4, Unmoved
  <2> QED BY <1>1, <1>2, <2>1, <2>2, <2>3, <2>4, FilesChanged
<1>5. CASE Keys!Loops("reopen") /\ files' = files /\ mux' = mux
  <2>1. AppShape(app')
    BY <1>1, <1>5, LoopsShape
  <2>2. Stays
    BY <1>5, Unmoved
  <2> QED BY <1>1, <1>2, <1>5, <2>1, <2>2, FilesChanged
<1> QED BY <1>3, <1>4, <1>5 DEF Keys!Reopen

\* dup2: the file of one number goes under another.
LEMMA AssignKeys ==
  ASSUME KeysInv, Keys!Assumptions, Keys!Assign
  PROVE  KeysInv'
<1>1. /\ files = [n \in Keys!Fds |-> files[n]] /\ \A n \in Keys!Fds : FileShape(files[n])
      /\ fd \in [Keys!Devices -> Keys!Fds \cup {-1}] /\ AppShape(app) /\ app.i \in Keys!Devices
      /\ app.n \in Keys!Fds
  BY DEF KeysInv, KeysTyped, AppShape, Keys!Assign
<1>2. /\ pressed' = pressed /\ written' = written /\ two' = two /\ again' = again
      /\ two' \/ again' \/ broken'
  BY Disturbed DEF Keys!Assign, Keys!history
<1>3. AppShape(app')
  BY <1>1, LoopsShape DEF Keys!Assign
<1>4. CASE fd[app.i] > -1
  <2> DEFINE k == fd[app.i]
             from == [n \in Keys!Fds |-> IF n = k THEN app.n ELSE n]
  <2>1. /\ files' = [files EXCEPT ![k] = files[app.n], ![app.n] = Keys!NoFile]
        /\ mux' = Keys!Forget(k, mux) /\ fd' = fd
    BY <1>4 DEF Keys!Assign
  <2>2. k \in Keys!Fds
    BY <1>1, <1>4
  <2>3. from \in [Keys!Fds -> Keys!Fds] /\ from[k] = app.n /\ \A n \in Keys!Fds : n # k => from[n] = n
    BY <1>1, <2>2
  <2> HIDE DEF k, from
  <2>4. /\ files' = [n \in Keys!Fds |-> files'[n]] /\ files'[app.n] = Keys!NoFile
        /\ k # app.n => files'[k] = files[app.n]
        /\ \A n \in Keys!Fds : n # k /\ n # app.n => files'[n] = files[n]
    BY <1>1, <2>1, <2>2
  <2>5. \A n \in Keys!Fds : FileShape(files'[n])
    BY <1>1, <2>2, <2>4, Emptied
  <2>6. \A n \in Keys!Fds : files'[n].live => n # app.n /\ files'[n] = files[from[n]]
    BY <2>2, <2>3, <2>4, Emptied
  <2>7. \A n, m \in Keys!Fds : n # m /\ files'[n].live /\ files'[m].live => from[n] # from[m]
    BY <2>3, <2>6
  <2>8. Stays
    BY <2>1, Unmoved
  <2>9. fd' \in [Keys!Devices -> Keys!Fds \cup {-1}] /\ files' = [n \in Keys!Fds |-> files'[n]]
    BY <1>1, <2>1, <2>4
  <2>10. \A n \in Keys!Fds : files'[n].live /\ files'[n].queue # <<>> => files'[n] = files[from[n]]
    BY <2>6
  <2>11. \A n, m \in Keys!Fds : n # m /\ files'[n].queue # <<>> /\ files'[m].queue # <<>>
                                   /\ files'[n].live /\ files'[m].live => from[n] # from[m]
    BY <2>7
  <2> QED BY <1>2, <1>3, <2>3, <2>5, <2>8, <2>9, <2>10, <2>11, FileSteps
<1>5. CASE ~(fd[app.i] > -1)
  <2>1. fd' = [fd EXCEPT ![app.i] = app.n] /\ files' = files /\ mux' = mux
    BY <1>5 DEF Keys!Assign
  <2>2. fd' \in [Keys!Devices -> Keys!Fds \cup {-1}] /\ Stays
    BY <1>1, <2>1, Unmoved
  <2> QED BY <1>1, <1>2, <1>3, <2>1, <2>2, FilesChanged
<1> QED BY <1>4, <1>5

LEMMA CloseKeys ==
  ASSUME KeysInv, Keys!Assumptions, Keys!close_input_devices \/ Keys!Unset
  PROVE  KeysInv'
<1>1. /\ files = [n \in Keys!Fds |-> files[n]] /\ \A n \in Keys!Fds : FileShape(files[n])
      /\ fd \in [Keys!Devices -> Keys!Fds \cup {-1}] /\ AppShape(app) /\ app.i \in Keys!Devices
  BY DEF KeysInv, KeysTyped, AppShape
<1>2. /\ pressed' = pressed /\ written' = written /\ two' = two /\ again' = again
      /\ two' \/ again' \/ broken'
  BY Disturbed DEF Keys!close_input_devices, Keys!Unset, Keys!history
<1>3. CASE /\ fd[app.i] > -1 /\ app' = [app EXCEPT !.at = "closed"] /\ fd' = fd
           /\ files' = [files EXCEPT ![fd[app.i]] = Keys!NoFile] /\ mux' = Keys!Forget(fd[app.i], mux)
  <2>1. AppShape(app')
    BY <1>1, <1>3 DEF AppShape
  <2>2. files' = [n \in Keys!Fds |-> files'[n]]
        /\ \A n \in Keys!Fds : files'[n] = files[n] \/ files'[n] = Keys!NoFile
    BY <1>1, <1>3
  <2>3. \A n \in Keys!Fds : FileShape(files'[n]) /\ (files'[n] = files[n] \/ files'[n].queue = <<>>)
    BY <1>1, <2>2, Emptied
  <2>4. Stays
    BY <1>3, Unmoved
  <2> QED BY <1>1, <1>2, <1>3, <2>1, <2>2, <2>3, <2>4, FilesChanged
<1>4. CASE /\ Keys!Loops("exit") \/ Keys!Loops("reopen")
           /\ files' = files /\ mux' = mux /\ fd' \in [Keys!Devices -> Keys!Fds \cup {-1}]
  <2>1. AppShape(app')
    BY <1>1, <1>4, LoopsShape
  <2>2. Stays
    BY <1>4, Unmoved
  <2> QED BY <1>1, <1>2, <1>4, <2>1, <2>2, FilesChanged
<1>5. CASE Keys!close_input_devices
  BY <1>1, <1>3, <1>4, <1>5 DEF Keys!close_input_devices
<1>6. CASE Keys!Unset
  <2>1. fd' \in [Keys!Devices -> Keys!Fds \cup {-1}] /\ files' = files /\ mux' = mux
    BY <1>1, <1>6 DEF Keys!Unset
  <2>2. Keys!Loops("exit") \/ Keys!Loops("reopen")
    BY <1>6 DEF Keys!Unset
  <2> QED BY <1>4, <2>1, <2>2
<1> QED BY <1>5, <1>6

LEMMA OthersUnchanged ==
  ASSUME KeysInv, UNCHANGED <<fd, app, files, pressed, written, two, again, broken, mux>>
  PROVE  KeysInv'
<1>2. KeysTyped'
  BY DEF KeysInv, KeysTyped
<1>3. ThreadsInPlace'
  BY DEF KeysInv, ThreadsInPlace, Keys!Alive
<1>4. InOrder'
  <2> DEFINE from == [n \in Keys!Fds |-> n]
  <2>1. from \in [Keys!Fds -> Keys!Fds] /\ \A n \in Keys!Fds : from[n] = n
    OBVIOUS
  <2>2. KeysTyped /\ InOrder /\ \A n \in Keys!Fds : FileShape(files[n])
    BY DEF KeysInv, KeysTyped
  <2> HIDE DEF from
  <2> QED BY <2>1, <2>2, FilesMoved
<1>5. NoneMissing'
  <2>1. \A d : HandOf(d)' = HandOf(d)
    BY DEF HandOf
  <2>2. \A d : Unbroken(d) => Unbroken(d)'
    <3> SUFFICES ASSUME NEW d, Unbroken(d) PROVE Unbroken(d)'
      OBVIOUS
    <3>1. CASE fd[d] = -1
      BY <2>1, <3>1 DEF Unbroken
    <3>2. CASE fd[d] # -1
      BY <2>1, <3>2 DEF Unbroken
    <3> QED BY <3>1, <3>2
  <2>3. Stands => Stands'
    BY DEF Stands, HasFile, StandsFor, Keys!Alive
  <2> QED BY <2>2, <2>3 DEF KeysInv, NoneMissing
<1> QED BY <1>2, <1>3, <1>4, <1>5 DEF KeysInv

\* The thread that is started finds nothing written, and, unless something was open, nothing open.
LEMMA StartKeys ==
  ASSUME KeysInv, Keys!Assumptions, Keys!hal_api_init
  PROVE  KeysInv'
<1>1. /\ files = [n \in Keys!Fds |-> files[n]] /\ \A n \in Keys!Fds : FileShape(files[n])
      /\ fd \in [Keys!Devices -> Keys!Fds \cup {-1}] /\ AppShape(app)
      /\ mux = [t \in MuxThreads |-> mux[t]] /\ \A t \in MuxThreads : MuxShape(mux[t]) /\ InPlace(mux[t])
      /\ 0 \in Keys!Devices /\ KeysTyped /\ InOrder
  BY KeysConstants DEF KeysInv, KeysTyped, ThreadsInPlace
<1>2. /\ pressed' = pressed /\ app' = app /\ again' = again /\ app.at = "idle"
      /\ written' = [d \in Keys!Panel |-> <<>>]
  BY DEF Keys!hal_api_init, Keys!Calls
<1>3. two' <=> two \/ \E t \in MuxThreads : mux[t].at # "ended"
  BY DEF Keys!hal_api_init, Keys!Alive
<1> DEFINE k == Keys!Least(Keys!Free)
<1>4. k \in Keys!Fds /\ files[k].dev = -1
  BY LeastFree DEF Keys!hal_api_init
<1>5. PICK opens \in BOOLEAN, creates \in BOOLEAN :
        /\ fd' = [fd EXCEPT ![0] = IF opens THEN k ELSE -1]
        /\ files' = IF opens THEN [files EXCEPT ![k] = Keys!Opened(0)] ELSE files
        /\ IF opens /\ creates
             THEN \E t \in MuxThreads : ~Keys!Alive(t) /\ mux' = [mux EXCEPT ![t].at = "begin"]
             ELSE mux' = mux
        /\ broken' <=> ~opens \/ \E d \in Keys!Panel : fd[d] > -1
  BY DEF Keys!hal_api_init
<1> HIDE DEF k
<1>6. /\ mux' = [u \in MuxThreads |-> mux'[u]]
      /\ \A u \in MuxThreads : MuxShape(mux'[u]) /\ InPlace(mux'[u]) /\ mux'[u].hand = mux[u].hand
                               /\ mux'[u].fds = mux[u].fds /\ (mux'[u].at = mux[u].at \/ mux'[u].at = "begin")
      /\ (\A u \in MuxThreads : mux[u].at = "ended")
           => \A u, v \in MuxThreads : mux'[u].at # "ended" /\ mux'[v].at # "ended" => u = v
  <2>1. CASE mux' = mux
    BY <1>1, <2>1
  <2>2. CASE \E t \in MuxThreads : ~Keys!Alive(t) /\ mux' = [mux EXCEPT ![t].at = "begin"]
    <3>1. PICK t \in MuxThreads : mux[t].at = "ended" /\ mux' = [mux EXCEPT ![t].at = "begin"]
      BY <2>2 DEF Keys!Alive
    <3> DEFINE m == [mux[t] EXCEPT !.at = "begin"]
    <3>2. MuxShape(m) /\ m.at = "begin" /\ m.hand = mux[t].hand /\ m.fds = mux[t].fds
      BY <1>1 DEF MuxShape
    <3>3. InPlace(m)
      BY <1>1, <3>1, <3>2 DEF InPlace
    <3>4. mux' = [mux EXCEPT ![t] = m]
      BY <3>1
    <3> HIDE DEF m
    <3>5. mux' = [u \in MuxThreads |-> mux'[u]] /\ mux'[t] = m /\ \A u \in MuxThreads : u # t => mux'[u] = mux[u]
      BY <1>1, <3>4
    <3> QED BY <1>1, <3>2, <3>3, <3>5
  <2> QED BY <1>5, <2>1, <2>2
<1>7. /\ files' = [n \in Keys!Fds |-> files'[n]] /\ \A n \in Keys!Fds : FileShape(files'[n])
      /\ \A n \in Keys!Fds : files'[n] = files[n] \/ files'[n].queue = <<>>
  <2>1. CASE opens
    <3>1. files' = [files EXCEPT ![k] = Keys!Opened(0)]
      BY <1>5, <2>1
    <3>2. files' = [n \in Keys!Fds |-> files'[n]] /\ files'[k] = Keys!Opened(0)
          /\ \A n \in Keys!Fds : n # k => files'[n] = files[n]
      BY <1>1, <1>4, <3>1
    <3> QED BY <1>1, <3>2, OpenedNow
  <2>2. CASE ~opens
    BY <1>1, <1>5, <2>2
  <2> QED BY <2>1, <2>2
<1>8. fd' \in [Keys!Devices -> Keys!Fds \cup {-1}] /\ \A d \in Keys!Panel : fd'[d] = fd[d]
  BY <1>1, <1>4, <1>5, KeysConstants
<1>9. KeysTyped'
  <2>1. written' \in [Keys!Panel -> Seq(KeyPairs)]
    BY <1>2
  <2>2. pressed' \in [Keys!Panel -> Nat]
    BY <1>1, <1>2 DEF KeysTyped
  <2> QED BY <1>1, <1>2, <1>6, <1>7, <1>8, <2>1, <2>2 DEF KeysTyped
<1>10. ThreadsInPlace'
  BY <1>3, <1>6 DEF ThreadsInPlace, Keys!Alive
<1>11. InOrder'
  <2> DEFINE from == [n \in Keys!Fds |-> n]
  <2>1. from \in [Keys!Fds -> Keys!Fds] /\ \A n \in Keys!Fds : from[n] = n
    OBVIOUS
  <2>2. \A d \in Keys!Panel : written'[d] = <<>>
    BY <1>2
  <2> HIDE DEF from
  <2> QED BY <1>1, <1>2, <1>3, <1>6, <1>7, <2>1, <2>2, FilesMoved
<1>12. NoneMissing'
  <2> SUFFICES ASSUME ~two', ~again', ~broken' PROVE Stands' /\ \A d \in Keys!Panel : Unbroken(d)'
    BY DEF NoneMissing
  <2>1. opens /\ \A d \in Keys!Panel : fd'[d] = -1
    <3>1. opens /\ \A d \in Keys!Panel : ~(fd[d] > -1)
      BY <1>5
    <3>2. \A d \in Keys!Panel : fd[d] \in Nat \cup {-1}
      BY <1>1, KeysConstants
    <3>3. \A d \in Keys!Panel : fd[d] = -1
      BY <3>1, <3>2
    <3> QED BY <1>8, <3>1, <3>3
  <2>2. \A u \in MuxThreads : mux[u].at = "ended" /\ mux[u].fds = {} /\ mux[u].hand = <<>>
    BY <1>1, <1>3 DEF InPlace
  <2>3. \A u \in MuxThreads : mux'[u].at \in {"ended", "begin"} /\ mux'[u].fds = {} /\ mux'[u].hand = <<>>
    BY <1>6, <2>2
  <2>4. HasFile(0)'
    <3>1. fd'[0] = k /\ files'[k].dev = 0
      BY <1>1, <1>4, <1>5, <2>1, OpenedNow
    <3> QED BY <1>4, <3>1, KeysConstants DEF HasFile
  <2>5. Stands'
    BY <1>2, <2>1, <2>3, <2>4 DEF Stands
  <2>6. ASSUME NEW d \in Keys!Panel PROVE Unbroken(d)'
    <3>1. HandOf(d)' = 0
      BY <2>3 DEF HandOf
    <3>2. fd'[d] = -1 /\ written'[d] = <<>>
      BY <1>2, <2>1
    <3> QED BY <3>1, <3>2 DEF Unbroken
  <2> QED BY <2>5, <2>6
<1> QED BY <1>9, <1>10, <1>11, <1>12 DEF KeysInv

\* A key goes behind the others of its device, into the one file of it that is live.
LEMMA PressKeys ==
  ASSUME KeysInv, Keys!Assumptions, NEW d \in Keys!Panel, Keys!Press(d)
  PROVE  KeysInv'
<1> DEFINE key == <<d, pressed[d] + 1>>
           Grown(n) == files[n].dev = d /\ files[n].live
<1>1. /\ files = [n \in Keys!Fds |-> files[n]] /\ \A n \in Keys!Fds : FileShape(files[n])
      /\ fd \in [Keys!Devices -> Keys!Fds \cup {-1}] /\ AppShape(app) /\ pressed \in [Keys!Panel -> Nat]
      /\ written \in [Keys!Panel -> Seq(KeyPairs)]
      /\ mux = [t \in MuxThreads |-> mux[t]] /\ \A t \in MuxThreads : MuxShape(mux[t])
  BY DEF KeysInv, KeysTyped
<1>2. /\ fd' = fd /\ app' = app /\ mux' = mux /\ written' = written /\ two' = two /\ broken' = broken
      /\ pressed' = [pressed EXCEPT ![d] = @ + 1]
  BY DEF Keys!Press
<1>3. pressed' \in [Keys!Panel -> Nat] /\ pressed'[d] = pressed[d] + 1
      /\ \A c \in Keys!Panel : c # d => pressed'[c] = pressed[c]
  BY <1>1, <1>2
<1>4. key \in KeyPairs /\ key[1] = d /\ key[2] = pressed[d] + 1 /\ pressed[d] \in Nat
  BY <1>1 DEF KeyPairs
<1>5. files' = [n \in Keys!Fds |-> IF files[n].dev = d /\ files[n].live
                                     THEN [files[n] EXCEPT !.queue = Append(@, <<d, pressed'[d]>>)]
                                     ELSE files[n]]
  BY DEF Keys!Press
<1>6. files' = [n \in Keys!Fds |-> files'[n]]
      /\ \A n \in Keys!Fds : IF Grown(n) THEN files'[n] = [files[n] EXCEPT !.queue = Append(@, key)]
                             ELSE files'[n] = files[n]
  BY <1>3, <1>5
<1> HIDE DEF key
<1>7. ASSUME NEW n \in Keys!Fds
      PROVE  /\ FileShape(files'[n]) /\ files'[n].dev = files[n].dev /\ files'[n].live = files[n].live
             /\ Grown(n) => files'[n].queue = Append(files[n].queue, key)
             /\ ~Grown(n) => files'[n] = files[n]
  <2>1. FileShape(files[n])
    BY <1>1
  <2>2. CASE Grown(n)
    <3>1. files'[n] = [files[n] EXCEPT !.queue = Append(@, key)]
      BY <1>6, <2>2
    <3>2. Append(files[n].queue, key) \in Seq(KeyPairs) /\ DOMAIN files[n] = {"dev", "live", "queue"}
      BY <1>4, <2>1 DEF FileShape
    <3>3. /\ DOMAIN files'[n] = {"dev", "live", "queue"} /\ files'[n].dev = files[n].dev
          /\ files'[n].live = files[n].live /\ files'[n].queue = Append(files[n].queue, key)
      BY <3>1, <3>2
    <3> QED BY <2>1, <2>2, <3>2, <3>3 DEF FileShape
  <2>3. CASE ~Grown(n)
    BY <1>6, <2>1, <2>3
  <2> QED BY <2>2, <2>3
<1>8. ASSUME NEW n \in Keys!Fds, Grown(n)
      PROVE  /\ Len(files'[n].queue) = Len(files[n].queue) + 1 /\ Len(files[n].queue) \in Nat
             /\ DOMAIN files'[n].queue = 1 .. Len(files[n].queue) + 1
             /\ DOMAIN files[n].queue = 1 .. Len(files[n].queue)
             /\ files'[n].queue[Len(files[n].queue) + 1] = key
             /\ \A i \in DOMAIN files[n].queue : files'[n].queue[i] = files[n].queue[i]
             /\ \A i \in DOMAIN files[n].queue : files[n].queue[i] \in KeyPairs
  <2>1. files[n].queue \in Seq(KeyPairs) /\ files'[n].queue = Append(files[n].queue, key)
    BY <1>1, <1>7, <1>8 DEF FileShape
  <2> QED BY <1>4, <2>1
<1>9. (\A c \in Keys!Devices : fd[c] # -1 => fd[c] \in Keys!Fds) /\ 0 \in Keys!Devices
        /\ Keys!Panel \subseteq Keys!Devices
  BY <1>1, KeysConstants
<1>10. KeysTyped'
  BY <1>1, <1>2, <1>3, <1>6, <1>7 DEF KeysTyped
<1>11. ThreadsInPlace'
  BY <1>2 DEF KeysInv, ThreadsInPlace, Keys!Alive
<1>12. InOrder'
  <2> SUFFICES ASSUME ~two', ~again' PROVE InOrder'
    BY DEF InOrder
  <2>1. ~two /\ ~again /\ \A n, m \in Keys!Fds : Grown(n) /\ Grown(m) => n = m
    <3>1. ~again /\ ~\E n, m \in Keys!Fds : /\ n # m /\ files[n].live /\ files[m].live
                                            /\ files[n].dev = d /\ files[m].dev = d
      BY DEF Keys!Press
    <3> QED BY <1>2, <3>1
  <2>2. InOrder
    BY DEF KeysInv
  <2>3. \A c \in Keys!Panel : \A no \in Nat : Later(c, no) => Later(c, no)'
    BY <1>1, <1>2, <1>3, <1>4 DEF Later
  <2>4. \A c \in Keys!Panel : \A i, j \in DOMAIN written'[c] : i < j => written'[c][i][2] < written'[c][j][2]
    BY <1>2, <2>1, <2>2 DEF InOrder
  <2>5. \A c \in Keys!Panel : \A i \in DOMAIN written[c] : written[c][i][2] \in Nat
                                                         /\ written[c][i][2] <= pressed[c]
    <3>1. \A c \in Keys!Panel : \A i \in DOMAIN written[c] : written[c][i] \in KeyPairs
      BY <1>1
    <3> QED BY <2>1, <2>2, <3>1 DEF InOrder, KeyPairs
  <2>6. \A c \in Keys!Panel : \A i \in DOMAIN written'[c] : written'[c][i][2] <= pressed'[c]
    BY <1>1, <1>2, <1>3, <1>4, <2>5
  <2>7. \A u \in MuxThreads : HandLater(mux[u])'
    <3> SUFFICES ASSUME NEW u \in MuxThreads, mux[u].hand # <<>>
                 PROVE  Later(mux[u].hand[1][1], mux[u].hand[1][2])'
      BY <1>2 DEF HandLater
    <3>1. mux[u].hand[1] \in KeyPairs
      BY <1>1 DEF MuxShape
    <3>2. Later(mux[u].hand[1][1], mux[u].hand[1][2])
      BY <2>1, <2>2 DEF InOrder, HandLater
    <3>3. mux[u].hand[1][1] \in Keys!Panel /\ mux[u].hand[1][2] \in Nat
      BY <3>1 DEF KeyPairs
    <3> QED BY <1>2, <2>3, <3>2, <3>3
  <2>8. ASSUME NEW n \in Keys!Fds, files'[n].live, NEW i \in DOMAIN files'[n].queue
        PROVE  KeyLater(files[n], i)'
    <3>1. CASE ~Grown(n)
      <4>1. files'[n] = files[n] /\ KeyLater(files[n], i) /\ files[n].queue[i] \in KeyPairs
        BY <1>1, <1>7, <2>1, <2>2, <2>8, <3>1 DEF InOrder, QueueLater, FileShape
      <4>2. files[n].dev \in Keys!Panel /\ files[n].queue[i][2] \in Nat
        BY <4>1 DEF KeyLater, KeyPairs
      <4>3. Later(files[n].dev, files[n].queue[i][2])'
        BY <2>3, <4>1, <4>2 DEF KeyLater
      <4> QED BY <1>2, <4>1, <4>3 DEF KeyLater
    <3>2. CASE Grown(n) /\ i \in DOMAIN files[n].queue
      <4>1. files'[n].queue[i] = files[n].queue[i] /\ files[n].queue[i] \in KeyPairs /\ files'[n].dev = d
        BY <1>7, <1>8, <3>2
      <4>2. KeyLater(files[n], i)
        BY <2>1, <2>2, <3>2 DEF InOrder, QueueLater
      <4>3. files[n].queue[i][2] \in Nat /\ files[n].dev = d
        BY <3>2, <4>1 DEF KeyPairs
      <4>4. Later(files[n].dev, files[n].queue[i][2])'
        BY <2>3, <4>1, <4>2, <4>3 DEF KeyLater
      <4>5. files'[n].queue[i][1] = files'[n].dev
        BY <4>1, <4>2, <4>3 DEF KeyLater
      <4>6. \A j \in DOMAIN files'[n].queue : j < i => files'[n].queue[j][2] < files'[n].queue[i][2]
        <5>1. \A j \in DOMAIN files'[n].queue : j < i => j \in DOMAIN files[n].queue
          BY <1>8, <3>2
        <5> QED BY <1>8, <3>2, <4>1, <4>2, <5>1 DEF KeyLater
      <4>7. \A u \in MuxThreads : mux'[u].hand # <<>> /\ mux'[u].hand[1][1] = files'[n].dev
              => mux'[u].hand[1][2] < files'[n].queue[i][2]
        BY <1>2, <4>1, <4>2, <4>3 DEF KeyLater
      <4> QED BY <4>4, <4>5, <4>6, <4>7 DEF KeyLater
    <3>3. CASE Grown(n) /\ i = Len(files[n].queue) + 1
      <4>1. files'[n].queue[i] = key /\ files'[n].dev = d /\ files[n].dev = d /\ files[n].live
        BY <1>7, <1>8, <3>3
      <4>2. Later(files[n].dev, files[n].queue[i][2])'
        BY <1>1, <1>2, <1>3, <1>4, <2>5, <4>1 DEF Later
      <4>3. \A j \in DOMAIN files'[n].queue : j < i => files'[n].queue[j][2] < files'[n].queue[i][2]
        <5> SUFFICES ASSUME NEW j \in DOMAIN files'[n].queue, j < i PROVE files'[n].queue[j][2] < key[2]
          BY <4>1
        <5>1. j \in DOMAIN files[n].queue /\ files'[n].queue[j] = files[n].queue[j] /\ files[n].queue[j] \in KeyPairs
          BY <1>8, <3>3
        <5>2. KeyLater(files[n], j)
          BY <2>1, <2>2, <4>1, <5>1 DEF InOrder, QueueLater
        <5>3. files[n].queue[j][2] \in Nat /\ files[n].queue[j][2] <= pressed[d]
          BY <4>1, <5>1, <5>2 DEF KeyLater, Later, KeyPairs
        <5> QED BY <1>4, <5>1, <5>3
      <4>4. \A u \in MuxThreads : mux'[u].hand # <<>> /\ mux'[u].hand[1][1] = files'[n].dev
              => mux'[u].hand[1][2] < files'[n].queue[i][2]
        <5> SUFFICES ASSUME NEW u \in MuxThreads, mux[u].hand # <<>>, mux[u].hand[1][1] = d
                     PROVE  mux[u].hand[1][2] < key[2]
          BY <1>2, <4>1
        <5>1. mux[u].hand[1] \in KeyPairs
          BY <1>1 DEF MuxShape
        <5>2. mux[u].hand[1][2] \in Nat /\ mux[u].hand[1][2] <= pressed[d]
          BY <2>1, <2>2, <5>1 DEF InOrder, HandLater, Later, KeyPairs
        <5> QED BY <1>4, <5>2
      <4> QED BY <1>4, <4>1, <4>2, <4>3, <4>4 DEF KeyLater
    <3> QED BY <1>8, <2>8, <3>1, <3>2, <3>3
  <2>9. \A n \in Keys!Fds : QueueLater(files[n])'
    BY <2>8 DEF QueueLater
  <2>10. OneQueue'
    <3> SUFFICES ASSUME NEW n \in Keys!Fds, NEW m \in Keys!Fds, n # m, files'[n].live, files'[m].live,
                        files'[n].dev = files'[m].dev
                 PROVE  files'[n].queue = <<>> \/ files'[m].queue = <<>>
      BY DEF OneQueue
    <3>1. ~Grown(n) /\ ~Grown(m)
      BY <1>7, <2>1
    <3> QED BY <1>7, <2>1, <2>2, <3>1 DEF InOrder, OneQueue
  <2> QED BY <2>4, <2>6, <2>7, <2>9, <2>10 DEF InOrder
<1>13. NoneMissing'
  <2> SUFFICES ASSUME ~two', ~again', ~broken' PROVE Stands' /\ \A c \in Keys!Panel : Unbroken(c)'
    BY DEF NoneMissing
  <2>1. ~again
    BY DEF Keys!Press
  <2>2. Stands /\ \A c \in Keys!Panel : Unbroken(c)
    BY <1>2, <2>1 DEF KeysInv, NoneMissing
  <2>3. \A c : fd[c] \in Keys!Fds /\ HasFile(c) => HasFile(c)'
    BY <1>2, <1>7 DEF HasFile
  <2>4. Stands'
    <3>1. \A e : StandsFor(e) => StandsFor(e)'
      BY <1>2 DEF StandsFor
    <3>2. (\E u \in MuxThreads : Keys!Alive(u)') => HasFile(0)'
      <4>1. (\E u \in MuxThreads : Keys!Alive(u)') => HasFile(0) /\ fd[0] \in Keys!Fds
        BY <1>2, <1>9, <2>2 DEF Stands, HasFile, Keys!Alive
      <4> QED BY <2>3, <4>1
    <3>3. \A c \in Keys!Panel : fd'[c] # -1 => HasFile(c)' /\ files'[fd'[c]].live
      <4>1. \A c \in Keys!Panel : fd[c] # -1 => fd[c] \in Keys!Fds
        BY <1>9
      <4> QED BY <1>2, <1>7, <2>2, <2>3, <4>1 DEF Stands
    <3> QED BY <1>2, <2>2, <3>1, <3>2, <3>3 DEF Stands
  <2>5. ASSUME NEW c \in Keys!Panel PROVE Unbroken(c)'
    <3>1. HandOf(c)' = HandOf(c) /\ Unbroken(c)
      BY <1>2, <2>2 DEF HandOf
    <3>2. CASE fd[c] = -1
      BY <1>2, <3>1, <3>2 DEF Unbroken
    <3>3. CASE fd[c] # -1 /\ c # d
      <4>1. fd[c] \in Keys!Fds /\ files[fd[c]].dev = c
        BY <1>9, <2>2, <3>3 DEF Stands, HasFile
      <4>2. files'[fd[c]] = files[fd[c]] /\ pressed'[c] = pressed[c]
        BY <1>3, <1>7, <3>3, <4>1
      <4> QED BY <1>2, <3>1, <3>3, <4>2 DEF Unbroken
    <3>4. CASE fd[c] # -1 /\ c = d
      <4> DEFINE n == fd[c]
                 q == files[n].queue
                 r == files'[n].queue
      <4>1. n \in Keys!Fds /\ Grown(n)
        BY <1>9, <2>2, <3>4 DEF Stands, HasFile
      <4>2. /\ Len(r) = Len(q) + 1 /\ Len(q) \in Nat /\ DOMAIN r = 1 .. Len(q) + 1 /\ DOMAIN q = 1 .. Len(q)
            /\ r[Len(q) + 1] = <<d, pressed[d] + 1>> /\ \A i \in DOMAIN q : r[i] = q[i]
        BY <1>8, <4>1 DEF key
      <4>3. /\ \A i \in DOMAIN q : q[i] = <<d, pressed[d] - Len(q) + i>>
            /\ \A t \in MuxThreads : mux[t].hand # <<>> /\ mux[t].hand[1][1] = d
                 => mux[t].hand[1] = <<d, pressed[d] - Len(q)>>
            /\ \A i \in DOMAIN written[d] :
                 written[d][i] = <<d, pressed[d] - Len(q) - HandOf(d) - Len(written[d]) + i>>
        BY <3>1, <3>4 DEF Unbroken
      <4> HIDE DEF n, q, r
      <4>4. pressed'[d] - Len(r) = pressed[d] - Len(q)
        BY <1>3, <1>4, <4>2
      <4>5. \A i \in DOMAIN r : r[i] = <<d, pressed'[d] - Len(r) + i>>
        BY <1>4, <4>2, <4>3, <4>4
      <4>6. \A t \in MuxThreads : mux[t].hand # <<>> /\ mux[t].hand[1][1] = d
                 => mux[t].hand[1] = <<d, pressed'[d] - Len(r)>>
        BY <4>3, <4>4
      <4>7. \A i \in DOMAIN written[d] :
                 written[d][i] = <<d, pressed'[d] - Len(r) - HandOf(d) - Len(written[d]) + i>>
        BY <4>3, <4>4
      <4> QED BY <1>2, <3>1, <3>4, <4>5, <4>6, <4>7 DEF Unbroken, n, r
    <3> QED BY <3>2, <3>3, <3>4
  <2> QED BY <2>4, <2>5
<1> QED BY <1>10, <1>11, <1>12, <1>13 DEF KeysInv

LEMMA KeyTypes ==
  ASSUME KeysInv, Keys!Assumptions
  PROVE  /\ files = [n \in Keys!Fds |-> files[n]] /\ \A n \in Keys!Fds : FileShape(files[n])
         /\ fd \in [Keys!Devices -> Keys!Fds \cup {-1}] /\ AppShape(app) /\ pressed \in [Keys!Panel -> Nat]
         /\ written \in [Keys!Panel -> Seq(KeyPairs)]
         /\ mux = [t \in MuxThreads |-> mux[t]] /\ \A t \in MuxThreads : MuxShape(mux[t]) /\ InPlace(mux[t])
         /\ (\A d \in Keys!Devices : fd[d] # -1 => fd[d] \in Keys!Fds) /\ 0 \in Keys!Devices
         /\ Keys!Panel \subseteq Keys!Devices /\ Keys!Devices \subseteq Nat
         /\ KeysTyped /\ InOrder
BY KeysConstants DEF KeysInv, KeysTyped, ThreadsInPlace

\* Each device that is opened gets a number of its own.
LEMMA OwnNumber ==
  ASSUME NEW D \in SUBSET Keys!Devices, NEW d \in D, NEW e \in D, d < e, Keys!Assumptions
  PROVE  Keys!Number(D, d) \cap Keys!Number(D, e) = {}
<1>1. \A S : Keys!Cardinality(S) = Cardinality(S)
  BY DEF Keys!Cardinality, Cardinality
<1> DEFINE A == {x \in D : x < d}
           B == {x \in D : x < e}
<1>2. D \subseteq 0 .. LastDevice /\ LastDevice \in Nat
  BY KeysConstants
<1>3. IsFiniteSet(0 .. LastDevice)
  BY <1>2, FS_Interval
<1>4. IsFiniteSet(B)
  BY <1>2, <1>3, FS_Subset
<1>5. A \subseteq B /\ d \in B /\ d \notin A
  <2>1. D \subseteq Nat
    BY <1>2
  <2>2. \A x \in D : x < d => x < e
    BY <2>1
  <2>3. d \in D /\ d < e /\ ~(d < d)
    BY <2>1
  <2> QED BY <2>2, <2>3
<1> HIDE DEF A, B
<1>6. Cardinality(A) # Cardinality(B)
  BY <1>4, <1>5, FS_Subset
<1>7. Keys!Number(D, d) = {n \in Keys!Free : Cardinality({m \in Keys!Free : m < n}) = Cardinality(A)}
  BY <1>1 DEF Keys!Number, A
<1>8. Keys!Number(D, e) = {n \in Keys!Free : Cardinality({m \in Keys!Free : m < n}) = Cardinality(B)}
  BY <1>1 DEF Keys!Number, B
<1> QED BY <1>6, <1>7, <1>8

LEMMA OpenKeys ==
  ASSUME KeysInv, Keys!Assumptions, NEW t \in MuxThreads, Keys!open_input_devices(t)
  PROVE  KeysInv'
<1>1. PICK S \in SUBSET Keys!Devices :
        LET C   == Keys!Discover(S)
            D   == {d \in C : Keys!Number(C, d) # {}}
            now == [d \in Keys!Devices |-> IF d \in D THEN CHOOSE n \in Keys!Number(C, d) : TRUE ELSE fd[d]]
        IN  /\ fd' = now
            /\ files' = [n \in Keys!Fds |-> IF \E d \in D : now[d] = n
                                             THEN Keys!Opened(CHOOSE d \in D : now[d] = n) ELSE files[n]]
            /\ mux' = [mux EXCEPT ![t].at = "poll",
                         ![t].fds = {[no |-> now[d], dev |-> d, kept |-> TRUE, rev |-> "none"] :
                                       d \in {d \in Keys!Panel : now[d] > -1}}]
  BY DEF Keys!open_input_devices
<1> DEFINE C == Keys!Discover(S)
           D == {d \in C : Keys!Number(C, d) # {}}
           N(d) == CHOOSE n \in Keys!Number(C, d) : TRUE
           es == {[no |-> fd'[d], dev |-> d, kept |-> TRUE, rev |-> "none"] : d \in {d \in Keys!Panel : fd'[d] > -1}}
           m == [mux[t] EXCEPT !.at = "poll", !.fds = es]
<1>2. fd' = [d \in Keys!Devices |-> IF d \in D THEN N(d) ELSE fd[d]]
  BY <1>1
<1>3. files' = [n \in Keys!Fds |-> IF \E d \in D : fd'[d] = n
                                    THEN Keys!Opened(CHOOSE d \in D : fd'[d] = n) ELSE files[n]]
  BY <1>1, <1>2
<1>4. mux' = [mux EXCEPT ![t].at = "poll", ![t].fds = es] /\ mux[t].at = "loop"
  BY <1>1, <1>2 DEF Keys!open_input_devices, Keys!At
<1>5. /\ app' = app /\ pressed' = pressed /\ written' = written /\ two' = two /\ again' = again
      /\ broken' = broken
  BY DEF Keys!open_input_devices, Keys!FilesOnly, Keys!history
<1>6. C \in SUBSET Keys!Devices /\ D \subseteq C /\ \A d \in C : fd[d] < 0
  BY DEF Keys!Discover
<1>7. \A d \in D : N(d) \in Keys!Number(C, d) /\ N(d) \in Keys!Free
  BY DEF Keys!Number
<1>8. \A d \in D : N(d) \in Keys!Fds /\ files[N(d)].dev = -1
  BY <1>7 DEF Keys!Free
<1>9. \A d, e \in D : N(d) = N(e) => d = e
  <2>1. \A d, e \in D : d < e => N(d) # N(e)
    BY <1>6, <1>7, OwnNumber
  <2>2. D \subseteq Nat
    BY <1>6, KeyTypes
  <2> QED BY <2>1, <2>2
<1>10. \A d \in D : fd'[d] = N(d) /\ d \in Keys!Devices /\ fd[d] < 0
  BY <1>2, <1>6
<1>11. \A d \in Keys!Devices \ D : fd'[d] = fd[d]
  BY <1>2
<1> HIDE DEF C, N
<1> HIDE DEF D
<1>12. \A d \in D : fd'[d] \in Keys!Fds /\ files'[fd'[d]] = Keys!Opened(d)
  <2> SUFFICES ASSUME NEW d \in D PROVE fd'[d] \in Keys!Fds /\ files'[fd'[d]] = Keys!Opened(d)
    OBVIOUS
  <2>1. fd'[d] \in Keys!Fds /\ \A e \in D : fd'[e] = fd'[d] => e = d
    BY <1>8, <1>9, <1>10
  <2>2. (CHOOSE e \in D : fd'[e] = fd'[d]) = d
    BY <2>1
  <2>3. files'[fd'[d]] = Keys!Opened(CHOOSE e \in D : fd'[e] = fd'[d])
    BY <1>3, <2>1
  <2> QED BY <2>1, <2>2, <2>3
<1>13. \A n \in Keys!Fds : files'[n] = files[n] \/ \E d \in D : files'[n] = Keys!Opened(d)
  BY <1>3
<1>14. \A n \in Keys!Fds : files[n].dev # -1 => files'[n] = files[n]
  BY <1>3, <1>8, <1>10
<1>15. fd' \in [Keys!Devices -> Keys!Fds \cup {-1}]
  BY <1>2, <1>8, <1>10, <1>11, KeyTypes
<1>16. /\ files' = [n \in Keys!Fds |-> files'[n]]
       /\ \A n \in Keys!Fds : FileShape(files'[n]) /\ (files'[n] = files[n] \/ files'[n].queue = <<>>)
  <2>1. \A n \in Keys!Fds : FileShape(files[n])
    BY KeyTypes
  <2> QED BY <1>3, <1>10, <1>13, <2>1, OpenedNow
<1>17. mux' = [mux EXCEPT ![t] = m]
  BY <1>4
<1>18. MuxShape(mux[t]) /\ InPlace(mux[t])
  BY KeyTypes
<1>19. \A e \in es : /\ EntryShape(e) /\ e.kept /\ e.rev = "none" /\ e.no = fd'[e.dev]
  <2> SUFFICES ASSUME NEW d \in Keys!Panel, fd'[d] > -1
               PROVE  EntryShape([no |-> fd'[d], dev |-> d, kept |-> TRUE, rev |-> "none"])
    OBVIOUS
  <2>1. fd'[d] \in Keys!Fds
    BY <1>15, KeyTypes
  <2> QED BY <2>1 DEF EntryShape
<1> HIDE DEF es
<1>20. MuxShape(m) /\ m.at = "poll" /\ m.fds = es /\ m.hand = mux[t].hand
  BY <1>18, <1>19 DEF MuxShape
<1>21. InPlace(m)
  BY <1>4, <1>18, <1>20 DEF InPlace
<1> HIDE DEF m
<1>22. /\ mux' = [u \in MuxThreads |-> mux'[u]] /\ mux'[t] = m
       /\ \A u \in MuxThreads : u # t => mux'[u] = mux[u]
  BY <1>17, KeyTypes
<1>23. \A u \in MuxThreads : MuxShape(mux'[u]) /\ InPlace(mux'[u]) /\ mux'[u].hand = mux[u].hand
                             /\ (mux'[u].at # "ended" => mux[u].at # "ended")
  BY <1>4, <1>20, <1>21, <1>22, KeyTypes
<1>24. KeysTyped'
  BY <1>5, <1>15, <1>16, <1>22, <1>23, KeyTypes DEF KeysTyped
<1>25. ThreadsInPlace'
  BY <1>5, <1>23 DEF KeysInv, ThreadsInPlace, Keys!Alive
<1>26. InOrder'
  <2> DEFINE from == [n \in Keys!Fds |-> n]
  <2>1. from \in [Keys!Fds -> Keys!Fds] /\ \A n \in Keys!Fds : from[n] = n
    OBVIOUS
  <2> HIDE DEF from
  <2>2. KeysTyped /\ InOrder
    BY KeyTypes
  <2> QED BY <1>5, <1>16, <1>23, <2>1, <2>2, FilesMoved
<1>27. NoneMissing'
  <2> SUFFICES ASSUME ~two, ~again, ~broken PROVE Stands' /\ \A c \in Keys!Panel : Unbroken(c)'
    BY <1>5 DEF NoneMissing
  <2>1. Stands /\ \A c \in Keys!Panel : Unbroken(c)
    BY DEF KeysInv, NoneMissing
  <2>2. HasFile(0)
    BY <1>4, <2>1 DEF Stands, Keys!Alive
  <2>3. ASSUME NEW d \in Keys!Devices, HasFile(d)
        PROVE  HasFile(d)' /\ fd'[d] = fd[d] /\ files'[fd[d]] = files[fd[d]] /\ fd[d] \in Keys!Fds
    <3>1. fd[d] \in Keys!Fds /\ files[fd[d]].dev = d /\ d \in Nat
      BY <2>3, KeyTypes DEF HasFile
    <3>2. d \notin D
      BY <1>10, <3>1, KeysConstants
    <3>3. fd'[d] = fd[d] /\ files'[fd[d]] = files[fd[d]]
      BY <1>11, <1>14, <3>1, <3>2
    <3> QED BY <2>3, <3>1, <3>3 DEF HasFile
  <2>4. \A d \in Keys!Panel : d \in D \/ fd[d] = -1 \/ HasFile(d)
    BY <2>1 DEF Stands
  <2>5. Stands'
    <3>1. HasFile(0)'
      BY <2>2, <2>3, KeyTypes
    <3>2. ASSUME NEW d \in Keys!Panel, fd'[d] # -1 PROVE HasFile(d)' /\ files'[fd'[d]].live
      <4>1. d \in Keys!Devices
        BY KeyTypes
      <4>2. CASE d \in D
        BY <1>12, <3>2, <4>1, <4>2, OpenedNow DEF HasFile
      <4>3. CASE d \notin D
        <5>1. fd[d] # -1
          BY <1>11, <3>2, <4>1, <4>3
        <5>2. HasFile(d) /\ files[fd[d]].live
          BY <2>1, <5>1 DEF Stands
        <5> QED BY <2>3, <4>1, <5>2
      <4> QED BY <4>2, <4>3
    <3>3. \A u \in MuxThreads : mux'[u].at # "let go" /\ \A e \in mux'[u].fds : StandsFor(e)'
      <4>1. CASE ~\E u \in MuxThreads : u # t /\ mux[u].at # "ended"
        <5>1. \A u \in MuxThreads : u # t => mux'[u].at = "ended" /\ mux'[u].fds = {}
          BY <1>22, <4>1, KeyTypes DEF InPlace
        <5> QED BY <1>19, <1>20, <1>22, <5>1 DEF StandsFor
      <4>2. CASE \E u \in MuxThreads : u # t /\ mux[u].at # "ended"
        BY <1>4, <4>2 DEF KeysInv, ThreadsInPlace, Keys!Alive
      <4> QED BY <4>1, <4>2
    <3> QED BY <1>5, <2>1, <3>1, <3>2, <3>3 DEF Stands
  <2>6. ASSUME NEW d \in Keys!Panel PROVE Unbroken(d)'
    <3>1. HandOf(d)' = HandOf(d) /\ Unbroken(d) /\ d \in Keys!Devices
      BY <1>23, <2>1, KeyTypes DEF HandOf
    <3>2. CASE d \in D
      <4>1. fd'[d] \in Keys!Fds /\ files'[fd'[d]].queue = <<>>
        BY <1>12, <3>1, <3>2, OpenedNow
      <4>2. fd[d] = -1
        BY <1>10, <3>1, <3>2, KeyTypes, KeysConstants
      <4>3. written[d] = <<>> /\ HandOf(d) = 0
        BY <3>1, <4>2 DEF Unbroken
      <4>4. ~\E u \in MuxThreads : mux'[u].hand # <<>> /\ mux'[u].hand[1][1] = d
        BY <1>23, <4>3 DEF HandOf
      <4> QED BY <1>5, <4>1, <4>3, <4>4, KeysConstants DEF Unbroken
    <3>3. CASE d \notin D /\ fd[d] = -1
      BY <1>5, <1>11, <3>1, <3>3 DEF Unbroken
    <3>4. CASE d \notin D /\ HasFile(d)
      <4>1. fd'[d] = fd[d] /\ files'[fd[d]] = files[fd[d]] /\ fd[d] # -1
        BY <2>3, <3>1, <3>4 DEF HasFile
      <4> QED BY <1>5, <1>23, <3>1, <4>1 DEF Unbroken
    <3> QED BY <2>4, <3>2, <3>3, <3>4
  <2> QED BY <2>5, <2>6
<1> QED BY <1>24, <1>25, <1>26, <1>27 DEF KeysInv

\* The thread goes on to the next entry, or back to its loop.
LEMMA Advances ==
  ASSUME KeysInv, Keys!Assumptions, NEW t \in MuxThreads, mux[t].at \in {"handle", "let go"}
  PROVE  /\ MuxShape(Keys!Advance(t)) /\ InPlace(Keys!Advance(t))
         /\ Keys!Advance(t).at \in {"loop", "handle"} /\ Keys!Advance(t).hand = <<>> /\ mux[t].hand = <<>>
         /\ Keys!Advance(t).fds \subseteq mux[t].fds
<1>1. MuxShape(mux[t]) /\ InPlace(mux[t])
  BY KeyTypes
<1> QED BY <1>1, NoKeys DEF Keys!Advance, MuxShape, InPlace

\* The last step of the handling of an entry, whether it had anything to read or was closed.
LEMMA AdvanceKeys ==
  ASSUME KeysInv, Keys!Assumptions, NEW t \in MuxThreads, mux[t].at = "handle",
         mux' = [mux EXCEPT ![t] = Keys!Advance(t)],
         UNCHANGED <<fd, app, files, pressed, written, two, again, broken>>
  PROVE  KeysInv'
<1> DEFINE m == Keys!Advance(t)
<1>1. /\ MuxShape(m) /\ InPlace(m) /\ m.at \in {"loop", "handle"} /\ m.hand = mux[t].hand
      /\ m.fds \subseteq mux[t].fds
  BY Advances
<1>2. ~two /\ ~again /\ ~broken => \A e \in m.fds : StandsFor(e)
  BY <1>1 DEF KeysInv, NoneMissing, Stands
<1> HIDE DEF m
<1>3. mux' = [mux EXCEPT ![t] = m]
  BY DEF m
<1> QED BY <1>1, <1>2, <1>3, ThreadOnly

\* With one thread, nobody else has a key in hand.
LEMMA OneHand ==
  ASSUME KeysInv, Keys!Assumptions, ~two, NEW t \in MuxThreads, mux[t].at # "ended",
         NEW u \in MuxThreads, u # t
  PROVE  mux[u].at = "ended" /\ mux[u].hand = <<>> /\ mux[u].fds = {}
<1>1. mux[u].at = "ended"
  BY DEF KeysInv, ThreadsInPlace, Keys!Alive
<1>2. InPlace(mux[u])
  BY KeyTypes
<1> QED BY <1>1, <1>2 DEF InPlace

\* A key is read: it goes from the head of the queue into the thread's hand.
LEMMA TakeKeys ==
  ASSUME KeysInv, Keys!Assumptions, NEW t \in MuxThreads, mux[t].at = "handle",
         NEW e \in mux[t].fds, files[e.no].live, files[e.no].queue # <<>>,
         mux' = [mux EXCEPT ![t].at = "write", ![t].hand = <<Head(files[e.no].queue)>>],
         files' = [files EXCEPT ![e.no].queue = Tail(@)],
         UNCHANGED <<fd, app, pressed, written, two, again, broken>>
  PROVE  KeysInv'
<1> DEFINE n == e.no
           q == files[n].queue
           h == Head(q)
           m == [mux[t] EXCEPT !.at = "write", !.hand = <<h>>]
           f == [files[n] EXCEPT !.queue = Tail(@)]
<1>1. MuxShape(mux[t]) /\ InPlace(mux[t]) /\ n \in Keys!Fds
  BY KeyTypes DEF MuxShape, EntryShape
<1>2. FileShape(files[n]) /\ q \in Seq(KeyPairs) /\ q # <<>> /\ files[n].live
  BY <1>1, KeyTypes DEF FileShape
<1>3. /\ Len(q) \in Nat /\ Len(q) > 0 /\ DOMAIN q = 1 .. Len(q) /\ h = q[1] /\ h \in KeyPairs
      /\ Tail(q) \in Seq(KeyPairs) /\ Len(Tail(q)) = Len(q) - 1 /\ DOMAIN Tail(q) = 1 .. Len(q) - 1
      /\ \A i \in 1 .. Len(q) - 1 : Tail(q)[i] = q[i + 1] /\ q[i + 1] \in KeyPairs
  BY <1>2
<1>A. PICK d \in Keys!Devices \cup {-1} : d = files[n].dev
  BY <1>2 DEF FileShape
<1>4. mux' = [mux EXCEPT ![t] = m]
  OBVIOUS
<1>5. files' = [files EXCEPT ![n] = f]
  OBVIOUS
<1>6. /\ FileShape(f) /\ f.queue = Tail(q) /\ f.dev = d /\ f.live
  BY <1>2, <1>3, <1>A DEF FileShape
<1>7. /\ MuxShape(m) /\ m.at = "write" /\ m.hand = <<h>> /\ m.hand # <<>> /\ m.hand[1] = h /\ m.fds = mux[t].fds /\ m.fds # {}
  <2>1. <<h>> \in Seq(KeyPairs)
    BY <1>3
  <2> QED BY <1>1, <2>1 DEF MuxShape
<1>8. InPlace(m)
  BY <1>7 DEF InPlace
<1> HIDE DEF m, f, h
<1>9. /\ mux' = [u \in MuxThreads |-> mux'[u]] /\ mux'[t] = m /\ \A u \in MuxThreads : u # t => mux'[u] = mux[u]
      /\ files' = [k \in Keys!Fds |-> files'[k]] /\ files'[n] = f
      /\ \A k \in Keys!Fds : k # n => files'[k] = files[k]
  BY <1>1, <1>4, <1>5, KeyTypes
<1>10. \A k \in Keys!Fds : files'[k].dev = files[k].dev /\ files'[k].live = files[k].live
  BY <1>1, <1>2, <1>6, <1>9, <1>A
<1> HIDE DEF q, n
<1>11. KeysTyped'
  BY <1>6, <1>7, <1>9, KeyTypes DEF KeysTyped
<1>12. ThreadsInPlace'
  <2>1. \A u \in MuxThreads : InPlace(mux'[u])
    BY <1>8, <1>9, KeyTypes
  <2> QED BY <1>9, <2>1 DEF KeysInv, ThreadsInPlace, Keys!Alive
<1>13. mux[t].hand = <<>>
  BY <1>1 DEF InPlace
<1>14. InOrder'
  <2> SUFFICES ASSUME ~two, ~again PROVE InOrder'
    BY DEF InOrder
  <2>1. InOrder
    BY DEF KeysInv
  <2>2. \A c, no : Later(c, no)' <=> Later(c, no)
    BY DEF Later
  <2>3. \A u \in MuxThreads : u # t => mux'[u].hand = <<>>
    BY <1>9, OneHand
  <2>4. QueueLater(files[n])
    BY <1>1, <2>1 DEF InOrder
  <2>5. \A i \in DOMAIN q : KeyLater(files[n], i)
    BY <1>2, <2>4 DEF QueueLater, q
  <2>6. h[1] = d /\ Later(d, h[2])
    BY <1>3, <1>A, <2>5 DEF KeyLater, q
  <2>7. \A u \in MuxThreads : HandLater(mux[u])'
    BY <1>7, <1>9, <2>2, <2>3, <2>6 DEF HandLater
  <2>8. ASSUME NEW i \in DOMAIN Tail(q) PROVE KeyLater(files[n], i)'
    <3>1. files'[n].dev = d /\ files'[n].queue = Tail(q)
      BY <1>6, <1>9
    <3>A. i \in 1 .. Len(q) - 1 /\ i + 1 \in DOMAIN q /\ files'[n].queue[i] = q[i + 1]
      BY <1>3, <2>8, <3>1
    <3>2. KeyLater(files[n], i + 1)
      BY <2>5, <3>1, <3>A
    <3>3. q[i + 1][1] = d /\ Later(d, q[i + 1][2]) /\ \A j \in DOMAIN q : j < i + 1 => q[j][2] < q[i + 1][2]
      BY <1>A, <3>2 DEF KeyLater, q
    <3>4. files'[n].queue[i][1] = files'[n].dev /\ Later(files[n].dev, files[n].queue[i][2])'
      BY <2>2, <3>1, <3>A, <3>3
    <3>5. \A j \in DOMAIN files'[n].queue : j < i => files'[n].queue[j][2] < files'[n].queue[i][2]
      <4> SUFFICES ASSUME NEW j \in DOMAIN Tail(q), j < i PROVE Tail(q)[j][2] < q[i + 1][2]
        BY <3>1, <3>A
      <4>1. j + 1 \in DOMAIN q /\ j + 1 < i + 1 /\ Tail(q)[j] = q[j + 1]
        BY <1>3, <3>1, <3>A
      <4> QED BY <3>3, <4>1
    <3>6. \A u \in MuxThreads : mux'[u].hand # <<>> /\ mux'[u].hand[1][1] = files'[n].dev
            => mux'[u].hand[1][2] < files'[n].queue[i][2]
      <4>1. 1 \in DOMAIN q /\ 1 < i + 1
        BY <1>3, <3>1, <3>A
      <4>2. h[2] < q[i + 1][2]
        BY <1>3, <3>3, <4>1
      <4> QED BY <1>7, <1>9, <2>3, <3>1, <3>A, <4>2
    <3> QED BY <3>4, <3>5, <3>6 DEF KeyLater
  <2>9. ASSUME NEW k \in Keys!Fds, k # n, files[k].live, NEW i \in DOMAIN files[k].queue
        PROVE  KeyLater(files[k], i)'
    <3>1. KeyLater(files[k], i) /\ files'[k] = files[k]
      BY <1>9, <2>1, <2>9 DEF InOrder, QueueLater
    <3>2. files[k].dev # d
      <4>1. files[k].queue # <<>>
        BY <2>9
      <4> QED BY <1>1, <1>2, <1>A, <2>1, <2>9, <4>1 DEF InOrder, OneQueue, q
    <3>3. \A u \in MuxThreads : mux'[u].hand # <<>> => mux'[u].hand[1][1] = d
      BY <1>7, <1>9, <2>3, <2>6
    <3> QED BY <2>2, <3>1, <3>2, <3>3 DEF KeyLater
  <2>10. \A k \in Keys!Fds : QueueLater(files[k])'
    <3> SUFFICES ASSUME NEW k \in Keys!Fds, files'[k].live, NEW i \in DOMAIN files'[k].queue
                 PROVE  KeyLater(files[k], i)'
      BY DEF QueueLater
    <3>1. CASE k = n
      BY <1>6, <1>9, <2>8, <3>1
    <3>2. CASE k # n
      BY <1>9, <2>9, <3>2
    <3> QED BY <3>1, <3>2
  <2>11. OneQueue'
    <3>1. \A k \in Keys!Fds : files[k].queue = <<>> => files'[k].queue = <<>>
      BY <1>2, <1>9 DEF q
    <3>2. OneQueue
      BY <2>1 DEF InOrder
    <3> QED BY <1>10, <3>1, <3>2 DEF OneQueue
  <2> QED BY <2>1, <2>7, <2>10, <2>11 DEF InOrder
<1>15. NoneMissing'
  <2> SUFFICES ASSUME ~two, ~again, ~broken PROVE Stands' /\ \A c \in Keys!Panel : Unbroken(c)'
    BY DEF NoneMissing
  <2>1. Stands /\ \A c \in Keys!Panel : Unbroken(c)
    BY DEF KeysInv, NoneMissing
  <2>2. \A u \in MuxThreads : u # t => mux[u].hand = <<>> /\ mux'[u] = mux[u]
    BY <1>9, OneHand
  <2>3. e.dev \in Keys!Panel /\ fd[e.dev] = n /\ fd[e.dev] # -1
    BY <1>1, <2>1, KeysConstants DEF Stands, StandsFor, MuxShape, EntryShape, n
  <2>4. e.dev = d
    BY <1>A, <2>1, <2>3 DEF Stands, HasFile
  <2>5. \A c \in Keys!Devices : HasFile(c) => HasFile(c)'
    BY <1>10, KeyTypes DEF HasFile
  <2>6. \A k \in Keys!Fds : k # n => files'[k] = files[k]
    BY <1>9
  <2>7. Stands'
    <3>1. \A g : StandsFor(g)' <=> StandsFor(g)
      BY DEF StandsFor
    <3>2. HasFile(0)'
      BY <2>1, <2>5, KeyTypes DEF Stands, Keys!Alive
    <3>3. \A c \in Keys!Panel : fd[c] # -1 => HasFile(c)' /\ files'[fd[c]].live
      <4> SUFFICES ASSUME NEW c \in Keys!Panel, fd[c] # -1 PROVE HasFile(c)' /\ files'[fd[c]].live
        OBVIOUS
      <4>1. c \in Keys!Devices /\ fd[c] \in Keys!Fds
        BY KeyTypes
      <4> QED BY <1>10, <2>1, <2>5, <4>1 DEF Stands
    <3>4. \A u \in MuxThreads : mux'[u].at # "let go" /\ \A g \in mux'[u].fds : StandsFor(g)
      BY <1>7, <1>9, <2>1 DEF Stands
    <3> QED BY <2>1, <3>1, <3>2, <3>3, <3>4 DEF Stands
  <2>8. mux'[t].hand # <<>> /\ mux'[t].hand[1] = h /\ h = q[1]
    BY <1>3, <1>7, <1>9
  <2>9. Unbroken(d)'
    <3>1. Unbroken(d) /\ fd[d] = n /\ fd[d] # -1 /\ files'[n].queue = Tail(q)
      BY <1>6, <1>9, <2>1, <2>3, <2>4
    <3>2. HandOf(d) = 0
      BY <1>13, <2>2 DEF HandOf
    <3>3. /\ \A i \in DOMAIN q : q[i] = <<d, pressed[d] - Len(q) + i>>
          /\ \A i \in DOMAIN written[d] : written[d][i] = <<d, pressed[d] - Len(q) - Len(written[d]) + i>>
      <4>1. /\ \A i \in DOMAIN q : q[i] = <<d, pressed[d] - Len(q) + i>>
            /\ \A i \in DOMAIN written[d] :
                 written[d][i] = <<d, pressed[d] - Len(q) - HandOf(d) - Len(written[d]) + i>>
        BY <3>1 DEF Unbroken, q
      <4>2. pressed[d] \in Nat /\ Len(written[d]) \in Nat /\ DOMAIN written[d] \subseteq Nat
        BY <2>3, <2>4, KeyTypes
      <4> QED BY <1>3, <3>2, <4>1, <4>2
    <3>4. pressed[d] \in Nat /\ Len(written[d]) \in Nat /\ DOMAIN written[d] \subseteq Nat
      BY <2>3, <2>4, KeyTypes
    <3>5. h = <<d, pressed[d] - Len(Tail(q))>>
      BY <1>3, <2>8, <3>3, <3>4
    <3>6. HandOf(d)' = 1
      <4>1. mux'[t].hand # <<>> /\ mux'[t].hand[1][1] = d
        <5>1. h[1] = d
          BY <3>5
        <5> QED BY <2>8, <5>1
      <4> QED BY <4>1 DEF HandOf
    <3>7. \A i \in DOMAIN Tail(q) : Tail(q)[i] = <<d, pressed[d] - Len(Tail(q)) + i>>
      <4> SUFFICES ASSUME NEW i \in 1 .. Len(q) - 1 PROVE q[i + 1] = <<d, pressed[d] - Len(Tail(q)) + i>>
        BY <1>3
      <4>1. i + 1 \in DOMAIN q /\ pressed[d] - Len(q) + (i + 1) = pressed[d] - Len(Tail(q)) + i
        BY <1>3, <3>4
      <4>2. q[i + 1] = <<d, pressed[d] - Len(q) + (i + 1)>>
        BY <3>3, <4>1
      <4> QED BY <4>1, <4>2
    <3>8. \A u \in MuxThreads : mux'[u].hand # <<>> /\ mux'[u].hand[1][1] = d
            => mux'[u].hand[1] = <<d, pressed[d] - Len(Tail(q))>>
      BY <2>2, <2>8, <3>5
    <3>9. \A i \in DOMAIN written[d] :
            written[d][i] = <<d, pressed[d] - Len(Tail(q)) - 1 - Len(written[d]) + i>>
      BY <1>3, <3>3, <3>4
    <3> DEFINE r == Tail(q)
    <3>10. fd'[d] # -1 /\ files'[fd'[d]].queue = r /\ written' = written /\ pressed' = pressed
      BY <3>1
    <3> HIDE DEF r
    <3>11. \A i \in DOMAIN r : r[i] = <<d, pressed[d] - Len(r) + i>>
      BY <3>7 DEF r
    <3>12. \A u \in MuxThreads : mux'[u].hand # <<>> /\ mux'[u].hand[1][1] = d
             => mux'[u].hand[1] = <<d, pressed[d] - Len(r)>>
      BY <3>8 DEF r
    <3>13. \A i \in DOMAIN written[d] : written[d][i] = <<d, pressed[d] - Len(r) - 1 - Len(written[d]) + i>>
      BY <3>9 DEF r
    <3> QED BY <3>6, <3>10, <3>11, <3>12, <3>13 DEF Unbroken
  <2>10. ASSUME NEW c \in Keys!Panel, c # d PROVE Unbroken(c)'
    <3>1. h[1] = d
      <4>1. Unbroken(d) /\ fd[d] = n /\ fd[d] # -1
        BY <2>1, <2>3, <2>4
      <4>2. \A i \in DOMAIN q : q[i] = <<d, pressed[d] - Len(q) + i>>
        BY <4>1 DEF Unbroken, q
      <4> QED BY <1>3, <4>2
    <3>3. ~(\E u \in MuxThreads : mux'[u].hand # <<>> /\ mux'[u].hand[1][1] = c)
      BY <2>2, <2>8, <2>10, <3>1
    <3>2. HandOf(c) = 0 /\ HandOf(c)' = 0
      BY <1>13, <2>2, <3>3 DEF HandOf
    <3>4. Unbroken(c)
      BY <2>1
    <3>5. CASE fd[c] = -1
      BY <3>2, <3>4, <3>5 DEF Unbroken
    <3>6. CASE fd[c] # -1
      <4>1. fd[c] \in Keys!Fds /\ files[fd[c]].dev = c
        BY <2>1, <3>6, KeyTypes DEF Stands, HasFile
      <4>2. files'[fd[c]] = files[fd[c]]
        BY <1>A, <2>6, <2>10, <4>1
      <4>3. /\ \A i \in DOMAIN files[fd[c]].queue :
                   files[fd[c]].queue[i] = <<c, pressed[c] - Len(files[fd[c]].queue) + i>>
            /\ \A i \in DOMAIN written[c] :
                 written[c][i] = <<c, pressed[c] - Len(files[fd[c]].queue) - 0 - Len(written[c]) + i>>
        BY <3>2, <3>4, <3>6 DEF Unbroken
      <4> QED BY <3>2, <3>3, <3>6, <4>2, <4>3 DEF Unbroken
    <3> QED BY <3>5, <3>6
  <2> QED BY <2>7, <2>9, <2>10
<1> QED BY <1>11, <1>12, <1>14, <1>15 DEF KeysInv

LEMMA ReadKeys ==
  ASSUME KeysInv, Keys!Assumptions, NEW t \in MuxThreads, Keys!Read(t)
  PROVE  KeysInv'
<1> DEFINE e == Keys!Entry(t)
<1>1. mux[t].at = "handle" /\ MuxShape(mux[t]) /\ InPlace(mux[t])
  BY KeyTypes DEF Keys!Read, Keys!At
<1>2. e \in mux[t].fds
  BY <1>1, NextEntry DEF InPlace
<1>3. UNCHANGED <<fd, app, pressed, written, two, again, broken>>
  BY DEF Keys!Read, Keys!FilesOnly, Keys!history
<1>4. CASE /\ files[e.no].live /\ files[e.no].queue # <<>>
           /\ mux' = [mux EXCEPT ![t].at = "write", ![t].hand = <<Head(files[e.no].queue)>>]
           /\ files' = [files EXCEPT ![e.no].queue = Tail(@)]
  BY <1>1, <1>2, <1>3, <1>4, TakeKeys
<1>5. CASE mux' = [mux EXCEPT ![t] = Keys!Advance(t)] /\ files' = files
  BY <1>1, <1>3, <1>5, AdvanceKeys
<1> QED BY <1>4, <1>5 DEF Keys!Read

\* The key in hand comes to nevis_ir, or is lost when nevis_ir is not there.
LEMMA WriteKeys ==
  ASSUME KeysInv, Keys!Assumptions, NEW t \in MuxThreads, Keys!Write(t)
  PROVE  KeysInv'
<1> DEFINE m == [mux[t] EXCEPT !.at = "handle", !.hand = <<>>]
<1>1. MuxShape(mux[t]) /\ InPlace(mux[t]) /\ mux[t].at = "write"
  BY KeyTypes DEF Keys!Write, Keys!At
<1>2. /\ mux[t].hand \in Seq(KeyPairs) /\ Len(mux[t].hand) = 1 /\ mux[t].hand # <<>>
      /\ mux[t].hand[1] \in KeyPairs /\ mux[t].fds # {}
  BY <1>1 DEF MuxShape, InPlace
<1>3. PICK d \in Keys!Panel, no \in Nat : mux[t].hand[1] = <<d, no>>
  BY <1>2 DEF KeyPairs
<1>4. mux[t].hand = <<<<d, no>>>> /\ mux[t].hand[1][1] = d /\ mux[t].hand[1][2] = no
  BY <1>2, <1>3
<1> DEFINE Comes == fd[0] > -1 /\ files[fd[0]].dev = 0
           w == written[d]
<1>5. /\ UNCHANGED <<fd, app, files, pressed, two, again, broken>> /\ mux' = [mux EXCEPT ![t] = m]
      /\ written' = IF Comes THEN [written EXCEPT ![d] = @ \o mux[t].hand] ELSE written
  <2>1. UNCHANGED <<fd, app, files, pressed, two, again, broken>>
    BY DEF Keys!Write, Keys!history
  <2>2. written' = IF Comes THEN [written EXCEPT ![mux[t].hand[1][1]] = @ \o mux[t].hand] ELSE written
    BY DEF Keys!Write
  <2>3. mux' = [mux EXCEPT ![t] = m]
    BY DEF Keys!Write
  <2> QED BY <1>4, <2>1, <2>2, <2>3
<1>6. w \in Seq(KeyPairs) /\ Len(w) \in Nat /\ DOMAIN w = 1 .. Len(w) /\ \A i \in DOMAIN w : w[i] \in KeyPairs
  <2>1. w \in Seq(KeyPairs)
    BY KeyTypes
  <2> QED BY <2>1
<1>7. \A c \in Keys!Panel : c # d => written'[c] = written[c]
  BY <1>5, KeyTypes
<1>9. /\ Comes => /\ written'[d] \in Seq(KeyPairs) /\ Len(written'[d]) = Len(w) + 1
                  /\ DOMAIN written'[d] = 1 .. Len(w) + 1
                  /\ written'[d][Len(w) + 1] = <<d, no>> /\ \A i \in 1 .. Len(w) : written'[d][i] = w[i]
      /\ ~Comes => written'[d] = w
  <2>1. CASE Comes
    <3>1. written'[d] = w \o <<<<d, no>>>>
      BY <1>4, <1>5, <2>1, KeyTypes
    <3>2. <<d, no>> \in KeyPairs
      BY <1>2, <1>3
    <3> QED BY <1>6, <2>1, <3>1, <3>2
  <2>2. CASE ~Comes
    BY <1>5, <2>2
  <2> QED BY <2>1, <2>2
<1>10. written' \in [Keys!Panel -> Seq(KeyPairs)]
  <2>1. CASE Comes
    <3>1. w \o mux[t].hand \in Seq(KeyPairs)
      BY <1>2, <1>6
    <3> QED BY <1>5, <2>1, <3>1, KeyTypes
  <2>2. CASE ~Comes
    BY <1>5, <2>2, KeyTypes
  <2> QED BY <2>1, <2>2
<1>11. MuxShape(m) /\ m.at = "handle" /\ m.hand = <<>> /\ m.fds = mux[t].fds
  BY <1>1, NoKeys DEF MuxShape
<1>12. InPlace(m)
  BY <1>2, <1>11 DEF InPlace
<1> HIDE DEF m, Comes
<1>13. mux' = [u \in MuxThreads |-> mux'[u]] /\ mux'[t] = m /\ \A u \in MuxThreads : u # t => mux'[u] = mux[u]
  BY <1>5, KeyTypes
<1>14. KeysTyped'
  BY <1>5, <1>10, <1>11, <1>13, KeyTypes DEF KeysTyped
<1>15. ThreadsInPlace'
  <2>1. \A u \in MuxThreads : InPlace(mux'[u])
    BY <1>12, <1>13, KeyTypes
  <2>2. \A u \in MuxThreads : mux'[u].at # "ended" => mux[u].at # "ended"
    BY <1>1, <1>13
  <2> QED BY <1>5, <2>1, <2>2 DEF KeysInv, ThreadsInPlace, Keys!Alive
<1> HIDE DEF w
<1>16. InOrder'
  <2> SUFFICES ASSUME ~two, ~again PROVE InOrder'
    BY <1>5 DEF InOrder
  <2>1. InOrder
    BY DEF KeysInv
  <2>2. \A u \in MuxThreads : mux'[u].hand = <<>>
    BY <1>1, <1>11, <1>13, OneHand
  <2>3. no <= pressed[d] /\ \A i \in 1 .. Len(w) : w[i][2] < no
    BY <1>2, <1>4, <1>6, <2>1 DEF InOrder, HandLater, Later, w
  <2>4. ASSUME NEW c \in Keys!Panel
        PROVE  /\ \A i, j \in DOMAIN written'[c] : i < j => written'[c][i][2] < written'[c][j][2]
               /\ \A i \in DOMAIN written'[c] : written'[c][i][2] <= pressed'[c]
    <3>1. /\ \A i, j \in DOMAIN written[c] : i < j => written[c][i][2] < written[c][j][2]
          /\ \A i \in DOMAIN written[c] : written[c][i][2] <= pressed[c]
      BY <2>1 DEF InOrder
    <3>2. CASE c # d \/ ~Comes
      BY <1>5, <1>7, <1>9, <3>1, <3>2 DEF w
    <3>3. CASE c = d /\ Comes
      <4>1. \A i \in 1 .. Len(w) + 1 : i \in 1 .. Len(w) \/ i = Len(w) + 1
        BY <1>6
      <4>2. \A i, j \in 1 .. Len(w) : i < j => w[i][2] < w[j][2]
        BY <1>6, <3>1, <3>3 DEF w
      <4>3. \A i \in 1 .. Len(w) : w[i][2] <= pressed[d]
        BY <1>6, <3>1, <3>3 DEF w
      <4>4. \A i, j \in DOMAIN written'[d] : i < j => written'[d][i][2] < written'[d][j][2]
        <5> SUFFICES ASSUME NEW i \in 1 .. Len(w) + 1, NEW j \in 1 .. Len(w) + 1, i < j
                     PROVE  written'[d][i][2] < written'[d][j][2]
          BY <1>9, <3>3
        <5>1. i \in 1 .. Len(w)
          BY <1>6
        <5>2. CASE j \in 1 .. Len(w)
          BY <1>9, <3>3, <4>2, <5>1, <5>2
        <5>3. CASE j = Len(w) + 1
          BY <1>9, <2>3, <3>3, <5>1, <5>3
        <5> QED BY <4>1, <5>2, <5>3
      <4>5. \A i \in DOMAIN written'[d] : written'[d][i][2] <= pressed[d]
        BY <1>9, <2>3, <3>3, <4>1, <4>3
      <4> QED BY <1>5, <3>3, <4>4, <4>5
    <3> QED BY <3>2, <3>3
  <2>5. ASSUME NEW n \in Keys!Fds, files[n].live, NEW i \in DOMAIN files[n].queue
        PROVE  KeyLater(files[n], i)'
    <3>1. KeyLater(files[n], i) /\ files[n].queue[i] \in KeyPairs
      BY <2>1, <2>5, KeyTypes DEF InOrder, QueueLater, FileShape
    <3>2. files[n].dev \in Keys!Panel /\ files[n].queue[i][2] \in Nat /\ Later(files[n].dev, files[n].queue[i][2])
      BY <3>1 DEF KeyLater, KeyPairs
    <3>3. Later(files[n].dev, files[n].queue[i][2])'
      <4>1. CASE files[n].dev # d \/ ~Comes
        BY <1>5, <1>7, <1>9, <3>2, <4>1 DEF Later, w
      <4>2. CASE files[n].dev = d /\ Comes
        <5>1. no < files[n].queue[i][2]
          BY <1>2, <1>4, <3>1, <4>2 DEF KeyLater
        <5>2. \A k \in 1 .. Len(w) : w[k][2] < files[n].queue[i][2]
          BY <1>6, <3>2, <4>2 DEF Later, w
        <5>3. \A k \in DOMAIN written'[d] : written'[d][k][2] < files[n].queue[i][2]
          <6>1. \A k \in DOMAIN written'[d] : k \in 1 .. Len(w) \/ k = Len(w) + 1
            BY <1>6, <1>9, <4>2
          <6> QED BY <1>9, <4>2, <5>1, <5>2, <6>1
        <5> QED BY <1>5, <3>2, <4>2, <5>3 DEF Later
      <4> QED BY <4>1, <4>2
    <3> QED BY <1>5, <2>2, <3>1, <3>3 DEF KeyLater
  <2>6. \A n \in Keys!Fds : QueueLater(files[n])'
    BY <1>5, <2>5 DEF QueueLater
  <2>7. OneQueue'
    BY <1>5, <2>1 DEF InOrder, OneQueue
  <2>8. \A u \in MuxThreads : HandLater(mux[u])'
    BY <2>2 DEF HandLater
  <2> QED BY <2>4, <2>6, <2>7, <2>8 DEF InOrder
<1>17. NoneMissing'
  <2> SUFFICES ASSUME ~two, ~again, ~broken PROVE Stands' /\ \A c \in Keys!Panel : Unbroken(c)'
    BY <1>5 DEF NoneMissing
  <2>1. Stands /\ \A c \in Keys!Panel : Unbroken(c)
    BY DEF KeysInv, NoneMissing
  <2>2. \A u \in MuxThreads : mux'[u].hand = <<>> /\ (u # t => mux[u].hand = <<>>)
    BY <1>1, <1>11, <1>13, OneHand
  <2>3. Comes
    <3>1. HasFile(0)
      BY <1>1, <2>1 DEF Stands, Keys!Alive
    <3>2. fd[0] > -1
      <4>1. fd[0] \in Keys!Fds
        BY <3>1, KeyTypes DEF HasFile
      <4> QED BY <4>1, KeysConstants
    <3> QED BY <3>1, <3>2 DEF HasFile, Comes
  <2>4. Stands'
    <3>1. \A g : StandsFor(g)' <=> StandsFor(g)
      BY <1>5 DEF StandsFor
    <3>2. \A c : HasFile(c)' <=> HasFile(c)
      BY <1>5 DEF HasFile
    <3>3. HasFile(0)
      BY <1>1, <2>1 DEF Stands, Keys!Alive
    <3>4. \A u \in MuxThreads : mux'[u].at # "let go" /\ \A g \in mux'[u].fds : StandsFor(g)
      BY <1>11, <1>13, <2>1 DEF Stands
    <3> QED BY <1>5, <2>1, <3>1, <3>2, <3>3, <3>4 DEF Stands
  <2>5. \A c : HandOf(c)' = 0
    BY <2>2 DEF HandOf
  <2>6. HandOf(d) = 1 /\ \A c \in Keys!Panel : c # d => HandOf(c) = 0
    BY <1>2, <1>4, <2>2 DEF HandOf
  <2>7. \A c : ~(\E u \in MuxThreads : mux'[u].hand # <<>> /\ mux'[u].hand[1][1] = c)
    BY <2>2
  <2>8. ASSUME NEW c \in Keys!Panel, c # d PROVE Unbroken(c)'
    <3>1. Unbroken(c) /\ HandOf(c) = 0 /\ written'[c] = written[c]
      BY <1>7, <2>1, <2>6, <2>8
    <3>2. CASE fd[c] = -1
      BY <1>5, <2>5, <3>1, <3>2 DEF Unbroken
    <3>3. CASE fd[c] # -1
      <4>1. /\ \A i \in DOMAIN files[fd[c]].queue :
                 files[fd[c]].queue[i] = <<c, pressed[c] - Len(files[fd[c]].queue) + i>>
            /\ \A i \in DOMAIN written[c] :
                 written[c][i] = <<c, pressed[c] - Len(files[fd[c]].queue) - 0 - Len(written[c]) + i>>
        BY <3>1, <3>3 DEF Unbroken
      <4>2. HandOf(c)' = 0 /\ fd'[c] # -1 /\ files'[fd'[c]].queue = files[fd[c]].queue /\ pressed' = pressed
        BY <1>5, <2>5, <3>3
      <4> QED BY <2>7, <3>1, <4>1, <4>2 DEF Unbroken
    <3> QED BY <3>2, <3>3
  <2>9. Unbroken(d)'
    <3> DEFINE q == files[fd[d]].queue
               v == written'[d]
    <3>1. Unbroken(d) /\ fd[d] # -1
      BY <2>1, <2>6 DEF Unbroken
    <3>2. /\ \A i \in DOMAIN q : q[i] = <<d, pressed[d] - Len(q) + i>>
          /\ <<d, no>> = <<d, pressed[d] - Len(q)>>
          /\ \A i \in DOMAIN w : w[i] = <<d, pressed[d] - Len(q) - HandOf(d) - Len(w) + i>>
      BY <1>2, <1>3, <1>4, <3>1 DEF Unbroken, w
    <3>3. pressed[d] \in Nat /\ Len(q) \in Nat
      <4>1. fd[d] \in Keys!Fds
        BY <3>1, KeyTypes
      <4>2. q \in Seq(KeyPairs)
        BY <4>1, KeyTypes DEF FileShape
      <4> QED BY <4>2, KeyTypes
    <3>4. /\ Len(v) = Len(w) + 1 /\ DOMAIN v = 1 .. Len(w) + 1
          /\ v[Len(w) + 1] = <<d, no>> /\ \A i \in 1 .. Len(w) : v[i] = w[i]
      BY <1>9, <2>3
    <3>5. /\ fd'[d] # -1 /\ files'[fd'[d]].queue = q /\ pressed' = pressed
      BY <1>5, <3>1
    <3> HIDE DEF q, v
    <3>6. ASSUME NEW i \in DOMAIN v PROVE v[i] = <<d, pressed[d] - Len(q) - 0 - Len(v) + i>>
      <4>1. i \in Nat /\ (i \in 1 .. Len(w) \/ i = Len(w) + 1)
        BY <1>6, <3>4, <3>6
      <4>2. CASE i \in 1 .. Len(w)
        <5>1. v[i] = <<d, pressed[d] - Len(q) - 1 - Len(w) + i>>
          BY <1>6, <2>6, <3>2, <3>4, <4>2
        <5>2. pressed[d] - Len(q) - 1 - Len(w) + i = pressed[d] - Len(q) - 0 - Len(v) + i
          <6>1. Len(w) \in Nat /\ Len(v) = Len(w) + 1 /\ i \in Nat
            BY <1>6, <3>4, <4>1
          <6> HIDE DEF w
          <6> QED BY <3>3, <6>1
        <5> QED BY <5>1, <5>2
      <4>3. CASE i = Len(w) + 1
        <5>1. v[i] = <<d, pressed[d] - Len(q)>>
          BY <3>2, <3>4, <4>3
        <5>2. pressed[d] - Len(q) = pressed[d] - Len(q) - 0 - Len(v) + i
          BY <1>6, <3>3, <3>4, <4>3
        <5> QED BY <5>1, <5>2
      <4> QED BY <4>1, <4>2, <4>3
    <3>7. HandOf(d)' = 0 /\ written'[d] = v
      BY <2>5 DEF v
    <3> QED BY <2>7, <3>2, <3>5, <3>6, <3>7 DEF Unbroken
  <2> QED BY <2>4, <2>8, <2>9
<1> QED BY <1>14, <1>15, <1>16, <1>17 DEF KeysInv

\* A device is closed by the thread only when it was pulled out.
LEMMA CloseByThread ==
  ASSUME KeysInv, Keys!Assumptions, NEW t \in MuxThreads, Keys!HangUp(t) \/ Keys!LetGo(t)
  PROVE  KeysInv'
<1> DEFINE e == Keys!Entry(t)
<1>1. MuxShape(mux[t]) /\ InPlace(mux[t]) /\ mux[t].at \in {"handle", "let go"}
  BY KeyTypes DEF Keys!HangUp, Keys!LetGo, Keys!At
<1>2. e \in mux[t].fds /\ EntryShape(e) /\ mux[t].hand = <<>> /\ mux[t].fds # {}
  BY <1>1, NextEntry DEF InPlace, MuxShape
<1>3. /\ UNCHANGED <<app, pressed, written, two, again, broken>>
  BY DEF Keys!HangUp, Keys!LetGo, Keys!FilesOnly, Keys!history
<1>4. two' \/ again' \/ broken'
  <2> SUFFICES ASSUME ~two, ~again, ~broken PROVE FALSE
    BY <1>3
  <2>1. mux[t].at # "let go" /\ e.rev # "hup"
    BY <1>2 DEF KeysInv, NoneMissing, Stands, StandsFor
  <2> QED BY <2>1 DEF Keys!HangUp, Keys!LetGo, Keys!At
<1>5. AppShape(app')
  BY <1>3, KeyTypes
<1>6. CASE Keys!HangUp(t)
  <2> DEFINE n == e.no
             g == Keys!Forget(n, mux)
             m == [g[t] EXCEPT !.at = "let go"]
  <2>1. /\ n \in Keys!Fds /\ files' = [files EXCEPT ![n] = Keys!NoFile] /\ fd' = fd
        /\ mux' = [g EXCEPT ![t] = m]
    BY <1>2, <1>6 DEF Keys!HangUp, EntryShape
  <2>2. mux[t].at = "handle"
    BY <1>6 DEF Keys!HangUp, Keys!At
  <2>3. /\ g = [u \in MuxThreads |-> g[u]]
        /\ \A u \in MuxThreads : MuxShape(g[u]) /\ InPlace(g[u]) /\ g[u].at = mux[u].at /\ g[u].hand = mux[u].hand
    BY KeyTypes, Forgotten
  <2> HIDE DEF g, n
  <2>4. MuxShape(m) /\ m.at = "let go" /\ m.hand = g[t].hand /\ m.fds = g[t].fds
    BY <2>3 DEF MuxShape
  <2>5. InPlace(m) /\ m.hand = mux[t].hand
    BY <1>2, <2>2, <2>3, <2>4 DEF InPlace
  <2> HIDE DEF m
  <2>6. mux' = [u \in MuxThreads |-> mux'[u]] /\ mux'[t] = m /\ \A u \in MuxThreads : u # t => mux'[u] = g[u]
    BY <2>1, <2>3
  <2>7. Stays
    BY <2>2, <2>3, <2>4, <2>5, <2>6 DEF Stays
  <2>8. /\ files' = [k \in Keys!Fds |-> files'[k]]
        /\ \A k \in Keys!Fds : files'[k] = files[k] \/ files'[k] = Keys!NoFile
    BY <2>1, KeyTypes
  <2>9. \A k \in Keys!Fds : FileShape(files'[k]) /\ (files'[k] = files[k] \/ files'[k].queue = <<>>)
    BY <2>8, KeyTypes, Emptied
  <2>10. fd' \in [Keys!Devices -> Keys!Fds \cup {-1}]
    BY <2>1, KeyTypes
  <2> QED BY <1>3, <1>4, <1>5, <2>7, <2>8, <2>9, <2>10, FilesChanged
<1>7. CASE Keys!LetGo(t)
  <2> DEFINE m == Keys!Advance(t)
  <2>1. files' = files /\ fd' = [fd EXCEPT ![e.dev] = -1] /\ mux' = [mux EXCEPT ![t] = m]
    BY <1>7 DEF Keys!LetGo
  <2>2. mux[t].at = "let go"
    BY <1>7 DEF Keys!LetGo, Keys!At
  <2>3. MuxShape(m) /\ InPlace(m) /\ m.hand = mux[t].hand
    BY <2>2, Advances
  <2> HIDE DEF m
  <2>4. mux' = [u \in MuxThreads |-> mux'[u]] /\ mux'[t] = m /\ \A u \in MuxThreads : u # t => mux'[u] = mux[u]
    BY <2>1, KeyTypes
  <2>5. Stays
    BY <2>2, <2>3, <2>4, KeyTypes DEF Stays
  <2>6. fd' \in [Keys!Devices -> Keys!Fds \cup {-1}]
    BY <2>1, KeyTypes
  <2>7. files' = [k \in Keys!Fds |-> files'[k]] /\ \A k \in Keys!Fds : FileShape(files'[k])
    BY <2>1, KeyTypes
  <2> QED BY <1>3, <1>4, <1>5, <2>1, <2>5, <2>6, <2>7, FilesChanged
<1> QED BY <1>6, <1>7

LEMMA NextKeys ==
  ASSUME KeysInv, Keys!Assumptions, Keys!Next
  PROVE  KeysInv'
<1>1. CASE Keys!hal_api_init \/ Keys!InitAgain \/ Keys!hal_api_exit
  BY <1>1, StartKeys, CallSteps
<1>2. CASE Keys!AppStep
  BY <1>2, ReopenKeys, AssignKeys, CloseKeys DEF Keys!AppStep
<1>3. ASSUME NEW t \in MuxThreads, Keys!Mux(t) \/ Keys!PollFails(t) PROVE KeysInv'
  BY <1>3, PollSteps, OpenKeys, ReadKeys, WriteKeys, CloseByThread DEF Keys!Mux
<1>4. ASSUME NEW d \in Keys!Panel, Keys!Press(d) \/ Keys!Unplug(d) \/ Keys!Plug(d) PROVE KeysInv'
  <2>1. CASE Keys!Plug(d)
    <3>1. UNCHANGED <<fd, app, files, pressed, written, two, again, broken, mux>>
      BY <2>1 DEF Keys!Plug, Keys!history
    <3> QED BY <3>1, OthersUnchanged
  <2> QED BY <1>4, <2>1, PressKeys, PlugSteps
<1> QED BY <1>1, <1>2, <1>3, <1>4 DEF Keys!Next

\* What is on its way is what was written, what is in hand, and what is in the queue.
LEMMA ArriveFromKeysInv ==
  ASSUME KeysInv, Keys!Assumptions
  PROVE  Keys!KeysArrive
<1> SUFFICES ASSUME ~two, ~again, NEW d \in Keys!Panel
             PROVE  LET ks == written[d] \o Keys!Held(d) \o (IF fd[d] > -1 THEN files[fd[d]].queue ELSE <<>>)
                    IN  /\ \A i, j \in DOMAIN written[d] : i < j => written[d][i][2] < written[d][j][2]
                        /\ ~broken /\ ks # <<>>
                             => ks = [i \in DOMAIN ks |-> <<d, pressed[d] - Len(ks) + i>>]
  BY DEF Keys!KeysArrive
<1>1. \A i, j \in DOMAIN written[d] : i < j => written[d][i][2] < written[d][j][2]
  BY DEF KeysInv, InOrder
<1> DEFINE w == written[d]
           h == Keys!Held(d)
           q == IF fd[d] > -1 THEN files[fd[d]].queue ELSE <<>>
           ks == w \o h \o q
<1>2. ASSUME ~broken PROVE ks = [i \in DOMAIN ks |-> <<d, pressed[d] - Len(ks) + i>>]
  <2>1. Unbroken(d)
    BY <1>2 DEF KeysInv, NoneMissing
  <2>2. fd[d] \in Keys!Fds \cup {-1} /\ (fd[d] > -1 <=> fd[d] # -1)
    BY KeyTypes, KeysConstants
  <2>3. w \in Seq(KeyPairs) /\ pressed[d] \in Nat
    BY KeyTypes
  <2>4. q \in Seq(KeyPairs)
    BY <2>2, KeyTypes, NoKeys DEF FileShape
  <2> DEFINE T == {t \in MuxThreads : mux[t].hand # <<>> /\ mux[t].hand[1][1] = d}
  <2>5. h = IF T = {} THEN <<>> ELSE mux[CHOOSE t \in T : TRUE].hand
    BY DEF Keys!Held
  <2>6. \A t \in T : Len(mux[t].hand) = 1 /\ mux[t].hand \in Seq(KeyPairs)
    BY KeyTypes DEF MuxShape, InPlace
  <2>7. T = {} => h = <<>> /\ HandOf(d) = 0
    BY <2>5 DEF HandOf
  <2>8. T # {} => h \in Seq(KeyPairs) /\ Len(h) = 1 /\ HandOf(d) = 1 /\ \E t \in T : h = mux[t].hand
    BY <2>5, <2>6 DEF HandOf
  <2> HIDE DEF h, q, w
  <2>9. CASE fd[d] = -1
    <3>1. w = <<>> /\ HandOf(d) = 0 /\ q = <<>>
      BY <2>1, <2>2, <2>9 DEF Unbroken, w, q
    <3>2. T = {}
      BY <2>8, <3>1
    <3>3. ks = <<>>
      BY <2>7, <3>1, <3>2
    <3> QED BY <3>3
  <2>10. CASE fd[d] # -1
    <3>1. /\ \A i \in DOMAIN q : q[i] = <<d, pressed[d] - Len(q) + i>>
          /\ \A t \in T : mux[t].hand[1] = <<d, pressed[d] - Len(q)>>
          /\ \A i \in DOMAIN w : w[i] = <<d, pressed[d] - Len(q) - HandOf(d) - Len(w) + i>>
      BY <2>1, <2>2, <2>10 DEF Unbroken, w, q
    <3>2. h \in Seq(KeyPairs) /\ Len(h) = HandOf(d) /\ HandOf(d) \in {0, 1}
      BY <2>7, <2>8, NoKeys
    <3>3. Len(h) = 1 => h[1] = <<d, pressed[d] - Len(q)>>
      BY <2>7, <2>8, <3>1, <3>2
    <3> HIDE DEF T
    <3>4. /\ ks \in Seq(KeyPairs) /\ Len(ks) = Len(w) + Len(h) + Len(q) /\ DOMAIN ks = 1 .. Len(ks)
          /\ Len(w) \in Nat /\ Len(h) \in {0, 1} /\ Len(q) \in Nat
          /\ \A i \in 1 .. Len(w) : ks[i] = w[i]
          /\ Len(h) = 1 => ks[Len(w) + 1] = h[1]
          /\ \A i \in 1 .. Len(q) : ks[Len(w) + Len(h) + i] = q[i]
      <4>1. (w \o h) \in Seq(KeyPairs) /\ Len(w \o h) = Len(w) + Len(h)
            /\ (\A i \in 1 .. Len(w) : (w \o h)[i] = w[i]) /\ (Len(h) = 1 => (w \o h)[Len(w) + 1] = h[1])
        BY <2>3, <3>2
      <4> DEFINE wh == w \o h
      <4> HIDE DEF wh
      <4>2. wh \in Seq(KeyPairs) /\ Len(wh) = Len(w) + Len(h)
            /\ (\A i \in 1 .. Len(w) : wh[i] = w[i]) /\ (Len(h) = 1 => wh[Len(w) + 1] = h[1])
        BY <4>1 DEF wh
      <4>3. Len(w) \in Nat /\ Len(h) \in {0, 1} /\ Len(q) \in Nat
        BY <2>3, <2>4, <3>2
      <4>4. /\ wh \o q \in Seq(KeyPairs) /\ Len(wh \o q) = Len(wh) + Len(q)
            /\ \A i \in 1 .. Len(wh) : (wh \o q)[i] = wh[i]
            /\ \A i \in 1 .. Len(q) : (wh \o q)[Len(wh) + i] = q[i]
        BY <2>4, <4>2, <4>3
      <4>5. ks = wh \o q
        BY DEF wh
      <4> HIDE DEF ks
      <4>6. ks \in Seq(KeyPairs) /\ Len(ks) = Len(w) + Len(h) + Len(q)
        BY <4>2, <4>4, <4>5
      <4>7. DOMAIN ks = 1 .. Len(ks)
        BY <4>6
      <4>8. \A i \in 1 .. Len(w) : ks[i] = w[i]
        <5>1. \A i \in 1 .. Len(w) : i \in 1 .. Len(wh)
          BY <4>2, <4>3
        <5> QED BY <4>2, <4>4, <4>5, <5>1
      <4>9. Len(h) = 1 => ks[Len(w) + 1] = h[1]
        <5>1. Len(h) = 1 => Len(w) + 1 \in 1 .. Len(wh)
          BY <4>2, <4>3
        <5> QED BY <4>2, <4>4, <4>5, <5>1
      <4>10. \A i \in 1 .. Len(q) : ks[Len(w) + Len(h) + i] = q[i]
        BY <4>2, <4>4, <4>5
      <4> QED BY <4>3, <4>6, <4>7, <4>8, <4>9, <4>10
    <3> HIDE DEF ks
    <3>5. ASSUME NEW i \in 1 .. Len(ks) PROVE ks[i] = <<d, pressed[d] - Len(ks) + i>>
      <4>1. /\ i \in Nat /\ i >= 1 /\ Len(ks) = Len(w) + Len(h) + Len(q)
            /\ Len(w) \in Nat /\ Len(h) \in {0, 1} /\ Len(q) \in Nat
        BY <3>4
      <4>2. CASE i \in 1 .. Len(w)
        <5>1. ks[i] = w[i] /\ i \in DOMAIN w
          BY <2>3, <3>4, <4>2
        <5>2. ks[i] = <<d, pressed[d] - Len(q) - Len(h) - Len(w) + i>>
          BY <3>1, <3>2, <5>1
        <5>3. pressed[d] - Len(q) - Len(h) - Len(w) + i = pressed[d] - Len(ks) + i
          BY <2>3, <4>1
        <5> QED BY <5>2, <5>3
      <4>3. CASE Len(h) = 1 /\ i = Len(w) + 1
        <5>1. ks[i] = <<d, pressed[d] - Len(q)>>
          BY <3>3, <3>4, <4>3
        <5>2. pressed[d] - Len(q) = pressed[d] - Len(ks) + i
          BY <2>3, <4>1, <4>3
        <5> QED BY <5>1, <5>2
      <4>4. CASE i > Len(w) + Len(h)
        <5> DEFINE j == i - Len(w) - Len(h)
        <5>1. j \in 1 .. Len(q) /\ i = Len(w) + Len(h) + j /\ j \in DOMAIN q
          BY <2>4, <3>5, <4>1, <4>4
        <5> HIDE DEF j
        <5>2. ks[i] = q[j]
          BY <3>4, <5>1
        <5>3. ks[i] = <<d, pressed[d] - Len(q) + j>>
          BY <3>1, <5>1, <5>2
        <5>4. pressed[d] - Len(q) + j = pressed[d] - Len(ks) + i
          BY <2>3, <4>1, <5>1
        <5> QED BY <5>3, <5>4
      <4>5. i \in 1 .. Len(w) \/ (Len(h) = 1 /\ i = Len(w) + 1) \/ i > Len(w) + Len(h)
        <5>1. Len(h) = 0 \/ Len(h) = 1
          BY <4>1
        <5> DEFINE a == Len(w)
                   b == Len(h)
        <5>2. i \in Nat /\ i >= 1 /\ a \in Nat /\ (b = 0 \/ b = 1)
          BY <4>1, <5>1
        <5> HIDE DEF a, b
        <5>3. i \in 1 .. a \/ (b = 1 /\ i = a + 1) \/ i > a + b
          BY <5>2
        <5> QED BY <5>3 DEF a, b
      <4> QED BY <4>2, <4>3, <4>4, <4>5
    <3>6. ks = [i \in 1 .. Len(ks) |-> ks[i]] /\ DOMAIN ks = 1 .. Len(ks)
      BY <3>4
    <3> QED BY <3>5, <3>6
  <2> QED BY <2>9, <2>10
<1> QED BY <1>1, <1>2

\* A behaviour that is watched for its keys keeps the invariant of InputMux.
KeysPart == part = "keys" => KeysInv

\* The keys of every device come to nevis_ir in order, each once, and while nothing is closed,
\* reopened or pulled out with none missing (open_input_devices, poll_input_devices,
\* reopen_input_devices): for any devices, files, keys and calls.
THEOREM KeysAlwaysArrive == MCSpec => []KeysArrive
PROOF
<1>1. Keys!Assumptions
  BY PartsAssumption
<1>2. MCInit => KeysPart
  BY <1>1, InitKeys DEF MCInit, KeysPart
<1>3. KeysPart /\ [MCNext]_all => KeysPart'
  <2> SUFFICES ASSUME KeysPart, [MCNext]_all, part' = "keys" PROVE KeysInv'
    BY DEF KeysPart
  <2>1. CASE UNCHANGED all
    <3>1. part = "keys" /\ UNCHANGED <<fd, app, files, pressed, written, two, again, broken, mux>>
      BY <2>1 DEF all, choice, low, high
    <3> QED BY <3>1, OthersUnchanged DEF KeysPart
  <2>2. CASE MCNext
    <3>1. part = "keys" /\ Keys!Next
      BY <2>2 DEF MCNext, InRecord, InSessions, InPlayback, InSh4, InPc, InKeys, choice
    <3> QED BY <1>1, <3>1, NextKeys DEF KeysPart
  <2> QED BY <2>1, <2>2
<1>4. KeysPart => KeysArrive
  BY <1>1, ArriveFromKeysInv DEF KeysPart, KeysArrive
<1> QED BY <1>2, <1>3, <1>4, PTL DEF MCSpec

=============================================================================
