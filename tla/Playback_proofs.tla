--------------------------- MODULE Playback_proofs ---------------------------
(***************************************************************************)
(* What is proved of the players, for every value of the constants: the    *)
(* threads of the playbacks of libeplayer3 (PlaybackThreads) and the       *)
(* player of the sh4 boxes (PlayerSH4).  The last section carries the      *)
(* results over to MCPlayback, where the two stand among the other parts.  *)
(*                                                                         *)
(* The threads of a playback of PlaybackThreads are created after its      *)
(* context was put into the table and never again, so the number of a      *)
(* thread says which contexts it can meet: its own, or a later one.  IInv  *)
(* says so, and QInv what holds besides while nobody calls RequestAbort.   *)
(* Sh4Inv is the invariant of PlayerSH4.                                   *)
(***************************************************************************)
EXTENDS MCPlayback, WellFoundedInduction, TLAPS

\* A reader between its creation and the end that clears hasPlayThreadStarted.
Working   == {"start", "loop", "lock", "reading", "writing", "end"}
Active(g) == pc[FF(g)] \in Working

\* How far Start has come: what is not there yet of the playback that is opened.
Opening  == {"opening", "play", "play.output"}
Starting == Opening \cup {"play.super"}
BeforeOpen == At(Api, "open.check") \/ (caller = "open" /\ pc[Api] \in StopLabels)
BeforeSupervisor == BeforeOpen \/ pc[Api] \in Starting
BeforeReader == BeforeSupervisor \/ pc[Api] \in {"play.command", "play.create"}

\* One reader is active at most, and hasPlayThreadStarted tells of it, but for
\* the moment between its creation and the assignment.
ActiveIsMarked ==
  /\ \A g \in Sessions : Active(g) => hasPlayThreadStarted \/ At(Api, "play.mark")
  /\ \A g, h \in Sessions : Active(g) /\ Active(h) => g = h
  /\ At(Api, "play.mark") => \A g \in Sessions : Active(g) => g = session
  /\ At(Api, "cs.lock") => \A g \in Sessions : ~Active(g)

\* A thread has the number of a playback that has come as far as its creation.
NumbersInOrder ==
  /\ session = 0 => At(Api, "idle") /\ ~playing
  /\ \A g \in Sessions : /\ pc[Sup(g)] # "none" => g <= session /\ (g = session => ~BeforeSupervisor)
                         /\ pc[FF(g)] # "none"  => g <= session /\ (g = session => ~BeforeReader)
  /\ \A g, h \in Sessions : Active(h) /\ ~Active(g) /\ pc[FF(g)] # "none" => g < h

\* What is in the table, what was closed, and who can meet it.
ContextsInOrder ==
  /\ ctx <= session /\ (BeforeOpen => ctx < session)
  /\ \A f \in freed : f.ctx # ctx /\ f.ctx <= session /\ (BeforeOpen => f.ctx < session)
  /\ pc[Api] \in Starting \cup {"play.command", "play.create"} => ctx \in {0, session}
  /\ \A g \in Sessions : pc[FF(g)] # "none" => ctx = 0 \/ g <= ctx
  /\ pc[Api] \in Opening => ~isPlaying

UsesInOrder ==
  /\ uses[Api] # 0 => At(Api, "opening") /\ uses[Api] = session
  /\ uses[Abort] = 0
  /\ \A g \in Sessions :
       /\ uses[Sup(g)] = 0
       /\ uses[FF(g)] # 0 => pc[FF(g)] \in {"reading", "writing"} /\ g <= uses[FF(g)]

OrderInv == ActiveIsMarked /\ NumbersInOrder /\ ContextsInOrder /\ UsesInOrder
IInv == TypeOK /\ OrderInv

\* Nobody has called RequestAbort: a supervisor leaves its loop when nothing plays,
\* so what it finds playing after that is a later playback.
Later(g) == g < session /\ (ctx = 0 \/ g < ctx)

SupervisorsComeLate ==
  \A g \in Sessions :
    /\ pc[Sup(g)] \in {"ending", "term", "term.check"} /\ isPlaying => Later(g)
    /\ pc[Sup(g)] \in {"term.container"} \cup ContainerStopLabels => Later(g)
    /\ At(Sup(g), "cs.lock") => \A h \in Sessions : Active(h) => g < h

\* A context from playback n on was closed by a thread of a playback before n.
ClosedEarly(n) == \E f \in freed : f.by < n /\ n <= f.ctx

EmptyIsExplained ==
  /\ ctx = 0 /\ (isPlaying \/ pc[Api] \in Opening) => \A g \in Sessions : Active(g) => ClosedEarly(g)
  /\ ctx = 0 /\ At(Api, "play.create") => ClosedEarly(session)

QInv == /\ At(Abort, "idle") /\ ~abortRequested
        /\ SupervisorsComeLate /\ EmptyIsExplained
        /\ OnlyLeftoversCloseUsedContexts /\ ReaderHasContext

-----------------------------------------------------------------------------

LEMMA ThreadProps ==
  /\ Api \in Threads /\ Abort \in Threads /\ Api # Abort
  /\ \A g \in Sessions : /\ Sup(g) \in Threads /\ FF(g) \in Threads
                         /\ Sup(g) \notin {Api, Abort} /\ FF(g) \notin {Api, Abort}
                         /\ Sup(g).no = g /\ FF(g).no = g
                         /\ Sup(g).kind = "super" /\ FF(g).kind = "ffmpeg"
  /\ \A g, h \in Sessions : Sup(g) # FF(h) /\ (Sup(g) = Sup(h) => g = h) /\ (FF(g) = FF(h) => g = h)
  /\ Api.kind = "api" /\ Abort.kind = "abort"
  /\ Supervisors \subseteq Threads /\ Readers \subseteq Threads
  /\ \A t \in Threads : t \in {Api, Abort} \/ t \in Supervisors \/ t \in Readers
  /\ \A t \in Supervisors : \E g \in Sessions : t = Sup(g)
  /\ \A t \in Readers : \E g \in Sessions : t = FF(g)
PROOF BY DEF Threads, Api, Abort, Supervisors, Readers, Sup, FF

LEMMA SessionsProps == \A n : n \in Sessions <=> n \in Nat /\ 1 <= n /\ n <= MaxSessions
PROOF BY SessionsAssumption DEF Sessions

\* Where the caller of container_ffmpeg_stop goes on.
LEMMA AfterStopProps ==
  /\ AfterStop(Api) = (IF caller = "play" THEN "idle" ELSE "stop.wait")
  /\ AfterStop(Abort) = "stop.wait"
  /\ \A g \in Sessions : AfterStop(Sup(g)) = "term.flags" /\ AfterStop(FF(g)) = "done"
PROOF BY ThreadProps DEF AfterStop

\* The lemmas below take a step of every action.  Boolean variables keep their type:
LEMMA FlagsStep == FlagsTyped /\ [Next]_vars => FlagsTyped'
PROOF
<1> SUFFICES ASSUME FlagsTyped, [Next]_vars PROVE FlagsTyped'
  OBVIOUS
<1> USE DEF flags, container, api, life, FlagsTyped
<1>1. CASE Start \/ CloseCall
  BY <1>1, Zenon DEF Start, CloseCall
<1>2. CASE RequestAbort \/ Open
  BY <1>2, Zenon DEF RequestAbort, Open
<1>3. CASE OpenFails \/ OpenDone
  BY <1>3, Zenon DEF OpenFails, OpenDone
<1>4. CASE Play \/ OutputPlayFails
  BY <1>4, Zenon DEF Play, OutputPlayFails
<1>5. CASE OutputPlayDone \/ StartSupervisor
  BY <1>5, Zenon DEF OutputPlayDone, StartSupervisor
<1>6. CASE PlayCommand \/ CreateReader
  BY <1>6, Zenon DEF PlayCommand, CreateReader
<1>7. CASE MarkReader \/ PauseFile
  BY <1>7, Zenon DEF MarkReader, PauseFile
<1>8. ASSUME NEW t \in Threads, StopCommand(t) \/ StopCall(t) PROVE FlagsTyped'
  BY <1>8, Zenon DEF StopCommand, StopCall
<1>9. ASSUME NEW t \in Threads, StopWait(t) \/ StopTimeout(t) PROVE FlagsTyped'
  BY <1>9, Zenon DEF StopWait, StopTimeout
<1>10. ASSUME NEW t \in Threads, StopClose(t) PROVE FlagsTyped'
  BY <1>10, Zenon DEF StopClose
<1>11. ASSUME NEW t \in Threads, Stop(t) \/ StopCheck(t) PROVE FlagsTyped'
  BY <1>11, Zenon DEF Stop, StopCheck, DieNow
<1>12. ASSUME NEW t \in Threads, StopReturn(t) \/ StopGivesUp(t) PROVE FlagsTyped'
  BY <1>12, Zenon DEF StopReturn, StopGivesUp
<1>13. ASSUME NEW t \in Threads, Close(t) \/ CloseDie(t) PROVE FlagsTyped'
  BY <1>13, Zenon DEF Close, CloseDie
<1>14. ASSUME NEW t \in Threads, SuperStart(t) \/ SuperPoll(t) PROVE FlagsTyped'
  BY <1>14, Zenon DEF SuperStart, SuperPoll
<1>15. ASSUME NEW t \in Threads, SuperEnding(t) \/ Terminate(t) PROVE FlagsTyped'
  BY <1>15, Zenon DEF SuperEnding, Terminate, DieNow
<1>16. ASSUME NEW t \in Threads, TerminateCheck(t) \/ TerminateContainer(t) PROVE FlagsTyped'
  BY <1>16, Zenon DEF TerminateCheck, TerminateContainer
<1>17. ASSUME NEW t \in Threads, TerminateFlags(t) \/ TerminateReturn(t) PROVE FlagsTyped'
  BY <1>17, Zenon DEF TerminateFlags, TerminateReturn
<1>18. ASSUME NEW t \in Threads, SuperEnds(t) PROVE FlagsTyped'
  BY <1>18, Zenon DEF SuperEnds
<1>19. ASSUME NEW t \in Threads, ReaderStart(t) \/ ReaderLoop(t) PROVE FlagsTyped'
  BY <1>19, Zenon DEF ReaderStart, ReaderLoop
<1>20. ASSUME NEW t \in Threads, ReaderLock(t) \/ ReaderRead(t) PROVE FlagsTyped'
  BY <1>20, Zenon DEF ReaderLock, ReaderRead
<1>21. ASSUME NEW t \in Threads, ReaderWrote(t) \/ ReaderEnds(t) PROVE FlagsTyped'
  BY <1>21, Zenon DEF ReaderWrote, ReaderEnds
<1>22. ASSUME NEW t \in Threads, ReaderEndsPlaying(t) \/ ReaderDies(t) PROVE FlagsTyped'
  BY <1>22, Zenon DEF ReaderEndsPlaying, ReaderDies, DieNow
<1>23. CASE UNCHANGED vars
  BY <1>23, Zenon DEF vars
<1> QED BY <1>1, <1>2, <1>3, <1>4, <1>5, <1>6, <1>7, <1>8, <1>9, <1>10, <1>11, <1>12, <1>13,
       <1>14, <1>15, <1>16, <1>17, <1>18, <1>19, <1>20, <1>21, <1>22, <1>23, ThreadProps DEF
       Next, ApiStep, PlaybackStop, ContainerStop, SuperStep, ReaderStep

\* Every thread stays at a place of its own code, and a thread that closes a context
\* belongs to a playback.
LEMMA TypeStep == TypeOK /\ NumbersInOrder /\ [Next]_vars => TypeOK'
PROOF
<1> SUFFICES ASSUME TypeOK /\ NumbersInOrder, [Next]_vars PROVE TypeOK'
  OBVIOUS
<1>0. FlagsTyped'
  BY FlagsStep DEF TypeOK
<1> USE ThreadProps, SessionsProps, AbortsAssumption, SessionsAssumption
    DEF Goto, At, flags, container, api, life, TypeOK,
        ApiLabels, CallLabels, StopLabels, ContainerStopLabels, SuperLabels, ReaderLabels
<1>1. CASE Start
  BY <1>0, <1>1 DEF Start
<1>2. CASE CloseCall
  BY <1>0, <1>2 DEF CloseCall
<1>3. CASE RequestAbort
  BY <1>0, <1>3 DEF RequestAbort
<1>4. CASE Open
  BY <1>0, <1>4 DEF Open
<1>5. CASE OpenFails
  BY <1>0, <1>5 DEF OpenFails
<1>6. CASE OpenDone
  BY <1>0, <1>6 DEF OpenDone
<1>7. CASE Play
  BY <1>0, <1>7 DEF Play
<1>8. CASE OutputPlayFails
  BY <1>0, <1>8 DEF OutputPlayFails
<1>9. CASE OutputPlayDone
  BY <1>0, <1>9 DEF OutputPlayDone
<1>10. CASE StartSupervisor
  <2>1. session \in Sessions
    BY <1>10 DEF StartSupervisor, NumbersInOrder
  <2> QED BY <1>0, <1>10, <2>1 DEF StartSupervisor
<1>11. CASE PlayCommand
  BY <1>0, <1>11 DEF PlayCommand
<1>12. CASE CreateReader
  <2>1. session \in Sessions
    BY <1>12 DEF CreateReader, NumbersInOrder
  <2>2. CASE hasPlayThreadStarted
    BY <1>0, <1>12, <2>2 DEF CreateReader
  <2>3. CASE ~hasPlayThreadStarted
    BY <1>0, <1>12, <2>1, <2>3 DEF CreateReader
  <2> QED BY <2>2, <2>3
<1>13. CASE MarkReader
  BY <1>0, <1>13 DEF MarkReader
<1>14. CASE PauseFile
  BY <1>0, <1>14 DEF PauseFile
<1>15. ASSUME NEW t \in Threads, StopCommand(t) PROVE TypeOK'
  BY AfterStopProps, <1>0, <1>15 DEF StopCommand
<1>16. ASSUME NEW t \in Threads, StopCall(t) PROVE TypeOK'
  BY AfterStopProps, <1>0, <1>16 DEF StopCall
<1>17. ASSUME NEW t \in Threads, StopWait(t) PROVE TypeOK'
  BY AfterStopProps, <1>0, <1>17 DEF StopWait
<1>18. ASSUME NEW t \in Threads, StopTimeout(t) PROVE TypeOK'
  BY AfterStopProps, <1>0, <1>18 DEF StopTimeout
<1>19. ASSUME NEW t \in Threads, StopClose(t) PROVE TypeOK'
  <2>1. SessionOf(t) \in 0 .. MaxSessions
    BY DEF SessionOf
  <2>2. freed' \subseteq [ctx : Sessions, by : 0 .. MaxSessions]
    BY <1>19, <2>1 DEF StopClose
  <2>3. pc' \in [Threads -> ApiLabels \cup SuperLabels \cup ReaderLabels]
    BY AfterStopProps, <1>19 DEF StopClose
  <2> QED BY AfterStopProps, <1>0, <1>19, <2>2, <2>3 DEF StopClose
<1>20. ASSUME NEW t \in {Api, Abort}, Stop(t) PROVE TypeOK'
  BY <1>0, <1>20 DEF Stop, DieNow
<1>21. ASSUME NEW t \in {Api, Abort}, StopCheck(t) PROVE TypeOK'
  BY <1>0, <1>21 DEF StopCheck
<1>22. ASSUME NEW t \in {Api, Abort}, StopReturn(t) PROVE TypeOK'
  BY <1>0, <1>22 DEF StopReturn
<1>23. ASSUME NEW t \in {Api, Abort}, StopGivesUp(t) PROVE TypeOK'
  BY <1>0, <1>23 DEF StopGivesUp
<1>24. ASSUME NEW t \in {Api, Abort}, Close(t) PROVE TypeOK'
  BY <1>0, <1>24 DEF Close
<1>25. ASSUME NEW t \in {Api, Abort}, CloseDie(t) PROVE TypeOK'
  BY <1>0, <1>25 DEF CloseDie
<1>26. ASSUME NEW t \in Supervisors, SuperStart(t) PROVE TypeOK'
  BY <1>0, <1>26 DEF SuperStart
<1>27. ASSUME NEW t \in Supervisors, SuperPoll(t) PROVE TypeOK'
  BY <1>0, <1>27 DEF SuperPoll
<1>28. ASSUME NEW t \in Supervisors, SuperEnding(t) PROVE TypeOK'
  BY <1>0, <1>28 DEF SuperEnding
<1>29. ASSUME NEW t \in Supervisors, Terminate(t) PROVE TypeOK'
  BY <1>0, <1>29 DEF Terminate, DieNow
<1>30. ASSUME NEW t \in Supervisors, TerminateCheck(t) PROVE TypeOK'
  BY <1>0, <1>30 DEF TerminateCheck
<1>31. ASSUME NEW t \in Supervisors, TerminateContainer(t) PROVE TypeOK'
  BY <1>0, <1>31 DEF TerminateContainer
<1>32. ASSUME NEW t \in Supervisors, TerminateFlags(t) PROVE TypeOK'
  BY <1>0, <1>32 DEF TerminateFlags
<1>33. ASSUME NEW t \in Supervisors, TerminateReturn(t) PROVE TypeOK'
  BY <1>0, <1>33 DEF TerminateReturn
<1>34. ASSUME NEW t \in Supervisors, SuperEnds(t) PROVE TypeOK'
  BY <1>0, <1>34 DEF SuperEnds
<1>35. ASSUME NEW t \in Readers, ReaderStart(t) PROVE TypeOK'
  BY <1>0, <1>35 DEF ReaderStart
<1>36. ASSUME NEW t \in Readers, ReaderLoop(t) PROVE TypeOK'
  BY <1>0, <1>36 DEF ReaderLoop
<1>37. ASSUME NEW t \in Readers, ReaderLock(t) PROVE TypeOK'
  BY <1>0, <1>37 DEF ReaderLock
<1>38. ASSUME NEW t \in Readers, ReaderRead(t) PROVE TypeOK'
  BY <1>0, <1>38 DEF ReaderRead
<1>39. ASSUME NEW t \in Readers, ReaderWrote(t) PROVE TypeOK'
  BY <1>0, <1>39 DEF ReaderWrote
<1>40. ASSUME NEW t \in Readers, ReaderEnds(t) PROVE TypeOK'
  BY <1>0, <1>40 DEF ReaderEnds
<1>41. ASSUME NEW t \in Readers, ReaderEndsPlaying(t) PROVE TypeOK'
  BY <1>0, <1>41 DEF ReaderEndsPlaying
<1>42. ASSUME NEW t \in Readers, ReaderDies(t) PROVE TypeOK'
  BY <1>0, <1>42 DEF ReaderDies, DieNow
<1>43. CASE UNCHANGED vars
  BY <1>0, <1>43 DEF vars
<1> QED BY <1>1, <1>2, <1>3, <1>4, <1>5, <1>6, <1>7, <1>8, <1>9, <1>10, <1>11, <1>12, <1>13,
       <1>14, <1>15, <1>16, <1>17, <1>18, <1>19, <1>20, <1>21, <1>22, <1>23, <1>24, <1>25,
       <1>26, <1>27, <1>28, <1>29, <1>30, <1>31, <1>32, <1>33, <1>34, <1>35, <1>36, <1>37,
       <1>38, <1>39, <1>40, <1>41, <1>42, <1>43 DEF Next, ApiStep, PlaybackStop,
       ContainerStop, SuperStep, ReaderStep

\* The order of readers, supervisors and contexts is kept whatever the threads do.
LEMMA InvStep == IInv /\ [Next]_vars => IInv'
PROOF
<1> SUFFICES ASSUME IInv, [Next]_vars PROVE IInv'
  OBVIOUS
<1>0. TypeOK /\ TypeOK'
  BY TypeStep DEF IInv, OrderInv
<1>a. OrderInv
  BY DEF IInv
<1> SUFFICES OrderInv'
  BY <1>0 DEF IInv
<1> USE ThreadProps, SessionsProps, AbortsAssumption, SessionsAssumption
        DEF Goto, At, flags, container, api, life, OrderInv, ActiveIsMarked, NumbersInOrder,
        ContextsInOrder, UsesInOrder, Active, Working, BeforeOpen, BeforeSupervisor,
        BeforeReader, Opening, Starting, TypeOK,
        ApiLabels, CallLabels, StopLabels, ContainerStopLabels, SuperLabels, ReaderLabels
<1>1. CASE Start
  BY <1>0, <1>a, <1>1 DEF Start
<1>2. CASE CloseCall
  BY <1>0, <1>a, <1>2 DEF CloseCall
<1>3. CASE RequestAbort
  BY <1>0, <1>a, <1>3 DEF RequestAbort
<1>4. CASE Open
  BY <1>0, <1>a, <1>4 DEF Open
<1>5. CASE OpenFails
  BY <1>0, <1>a, <1>5 DEF OpenFails
<1>6. CASE OpenDone
  BY <1>0, <1>a, <1>6 DEF OpenDone
<1>7. CASE Play
  BY <1>0, <1>a, <1>7 DEF Play
<1>8. CASE OutputPlayFails
  BY <1>0, <1>a, <1>8 DEF OutputPlayFails
<1>9. CASE OutputPlayDone
  BY <1>0, <1>a, <1>9 DEF OutputPlayDone
<1>10. CASE StartSupervisor
  BY <1>0, <1>a, <1>10 DEF StartSupervisor
<1>11. CASE PlayCommand
  BY <1>0, <1>a, <1>11 DEF PlayCommand
<1>12. CASE CreateReader
  <2>1. session \in Sessions
    BY <1>0, <1>a, <1>12 DEF CreateReader
  <2>2. CASE hasPlayThreadStarted
    BY <1>0, <1>a, <1>12, <2>2 DEF CreateReader
  <2>3. CASE ~hasPlayThreadStarted
    BY <1>0, <1>a, <1>12, <2>1, <2>3 DEF CreateReader
  <2> QED BY <2>2, <2>3
<1>13. CASE MarkReader
  BY <1>0, <1>a, <1>13 DEF MarkReader
<1>14. CASE PauseFile
  BY <1>0, <1>a, <1>14 DEF PauseFile
<1>15. ASSUME NEW t \in Threads, StopCommand(t) PROVE OrderInv'
  BY AfterStopProps, <1>0, <1>a, <1>15 DEF StopCommand
<1>16. ASSUME NEW t \in Threads, StopCall(t) PROVE OrderInv'
  BY AfterStopProps, <1>0, <1>a, <1>16 DEF StopCall
<1>17. ASSUME NEW t \in Threads, StopWait(t) PROVE OrderInv'
  BY AfterStopProps, <1>0, <1>a, <1>17 DEF StopWait
<1>18. ASSUME NEW t \in Threads, StopTimeout(t) PROVE OrderInv'
  BY AfterStopProps, <1>0, <1>a, <1>18 DEF StopTimeout
<1>19. ASSUME NEW t \in Threads, StopClose(t) PROVE OrderInv'
  BY AfterStopProps, <1>0, <1>a, <1>19 DEF StopClose
<1>20. ASSUME NEW t \in {Api, Abort}, Stop(t) PROVE OrderInv'
  BY <1>0, <1>a, <1>20 DEF Stop, DieNow
<1>21. ASSUME NEW t \in {Api, Abort}, StopCheck(t) PROVE OrderInv'
  BY <1>0, <1>a, <1>21 DEF StopCheck
<1>22. ASSUME NEW t \in {Api, Abort}, StopReturn(t) PROVE OrderInv'
  BY <1>0, <1>a, <1>22 DEF StopReturn
<1>23. ASSUME NEW t \in {Api, Abort}, StopGivesUp(t) PROVE OrderInv'
  BY <1>0, <1>a, <1>23 DEF StopGivesUp
<1>24. ASSUME NEW t \in {Api, Abort}, Close(t) PROVE OrderInv'
  BY <1>0, <1>a, <1>24 DEF Close
<1>25. ASSUME NEW t \in {Api, Abort}, CloseDie(t) PROVE OrderInv'
  BY <1>0, <1>a, <1>25 DEF CloseDie
<1>26. ASSUME NEW t \in Supervisors, SuperStart(t) PROVE OrderInv'
  BY <1>0, <1>a, <1>26 DEF SuperStart
<1>27. ASSUME NEW t \in Supervisors, SuperPoll(t) PROVE OrderInv'
  BY <1>0, <1>a, <1>27 DEF SuperPoll
<1>28. ASSUME NEW t \in Supervisors, SuperEnding(t) PROVE OrderInv'
  BY <1>0, <1>a, <1>28 DEF SuperEnding
<1>29. ASSUME NEW t \in Supervisors, Terminate(t) PROVE OrderInv'
  BY <1>0, <1>a, <1>29 DEF Terminate, DieNow
<1>30. ASSUME NEW t \in Supervisors, TerminateCheck(t) PROVE OrderInv'
  BY <1>0, <1>a, <1>30 DEF TerminateCheck
<1>31. ASSUME NEW t \in Supervisors, TerminateContainer(t) PROVE OrderInv'
  BY <1>0, <1>a, <1>31 DEF TerminateContainer
<1>32. ASSUME NEW t \in Supervisors, TerminateFlags(t) PROVE OrderInv'
  BY <1>0, <1>a, <1>32 DEF TerminateFlags
<1>33. ASSUME NEW t \in Supervisors, TerminateReturn(t) PROVE OrderInv'
  BY <1>0, <1>a, <1>33 DEF TerminateReturn
<1>34. ASSUME NEW t \in Supervisors, SuperEnds(t) PROVE OrderInv'
  BY <1>0, <1>a, <1>34 DEF SuperEnds
<1>35. ASSUME NEW t \in Readers, ReaderStart(t) PROVE OrderInv'
  BY <1>0, <1>a, <1>35 DEF ReaderStart
<1>36. ASSUME NEW t \in Readers, ReaderLoop(t) PROVE OrderInv'
  BY <1>0, <1>a, <1>36 DEF ReaderLoop
<1>37. ASSUME NEW t \in Readers, ReaderLock(t) PROVE OrderInv'
  BY <1>0, <1>a, <1>37 DEF ReaderLock
<1>38. ASSUME NEW t \in Readers, ReaderRead(t) PROVE OrderInv'
  BY <1>0, <1>a, <1>38 DEF ReaderRead
<1>39. ASSUME NEW t \in Readers, ReaderWrote(t) PROVE OrderInv'
  BY <1>0, <1>a, <1>39 DEF ReaderWrote
<1>40. ASSUME NEW t \in Readers, ReaderEnds(t) PROVE OrderInv'
  BY <1>0, <1>a, <1>40 DEF ReaderEnds
<1>41. ASSUME NEW t \in Readers, ReaderEndsPlaying(t) PROVE OrderInv'
  BY <1>0, <1>a, <1>41 DEF ReaderEndsPlaying
<1>42. ASSUME NEW t \in Readers, ReaderDies(t) PROVE OrderInv'
  BY <1>0, <1>a, <1>42 DEF ReaderDies, DieNow
<1>43. CASE UNCHANGED vars
  BY <1>0, <1>a, <1>43 DEF vars
<1> QED BY <1>1, <1>2, <1>3, <1>4, <1>5, <1>6, <1>7, <1>8, <1>9, <1>10, <1>11, <1>12, <1>13,
       <1>14, <1>15, <1>16, <1>17, <1>18, <1>19, <1>20, <1>21, <1>22, <1>23, <1>24, <1>25,
       <1>26, <1>27, <1>28, <1>29, <1>30, <1>31, <1>32, <1>33, <1>34, <1>35, <1>36, <1>37,
       <1>38, <1>39, <1>40, <1>41, <1>42, <1>43 DEF Next, ApiStep, PlaybackStop,
       ContainerStop, SuperStep, ReaderStep

\* Without RequestAbort a context is closed by its own playback when no reader of it
\* is active, or else by a thread that was left behind.
LEMMA QuietStep == IInv /\ IInv' /\ QInv /\ aborts' = aborts /\ [Next]_vars => QInv'
PROOF
<1> SUFFICES ASSUME IInv /\ IInv' /\ QInv /\ aborts' = aborts, [Next]_vars PROVE QInv'
  OBVIOUS
<1> USE ThreadProps, SessionsProps, AbortsAssumption, SessionsAssumption
        DEF Goto, At, flags, container, api, life, IInv, OrderInv, TypeOK, ActiveIsMarked,
        NumbersInOrder, ContextsInOrder, UsesInOrder, Active, Working, BeforeOpen, BeforeSupervisor,
        BeforeReader, Opening, Starting, QInv, SupervisorsComeLate, Later, ClosedEarly,
        EmptyIsExplained, OnlyLeftoversCloseUsedContexts, ReaderHasContext,
        ApiLabels, CallLabels, StopLabels, ContainerStopLabels, SuperLabels, ReaderLabels
<1>1. CASE Start
  BY <1>1 DEF Start
<1>2. CASE CloseCall
  BY <1>2 DEF CloseCall
<1>3. CASE RequestAbort
  BY <1>3 DEF RequestAbort
<1>4. CASE Open
  BY <1>4 DEF Open
<1>5. CASE OpenFails
  BY <1>5 DEF OpenFails
<1>6. CASE OpenDone
  BY <1>6 DEF OpenDone
<1>7. CASE Play
  BY <1>7 DEF Play
<1>8. CASE OutputPlayFails
  BY <1>8 DEF OutputPlayFails
<1>9. CASE OutputPlayDone
  BY <1>9 DEF OutputPlayDone
<1>10. CASE StartSupervisor
  BY <1>10 DEF StartSupervisor
<1>11. CASE PlayCommand
  BY <1>11 DEF PlayCommand
<1>12. CASE CreateReader
  BY <1>12 DEF CreateReader
<1>13. CASE MarkReader
  BY <1>13 DEF MarkReader
<1>14. CASE PauseFile
  BY <1>14 DEF PauseFile
<1>15. ASSUME NEW t \in Threads, StopCommand(t) PROVE QInv'
  BY AfterStopProps, <1>15 DEF StopCommand
<1>16. ASSUME NEW t \in Threads, StopCall(t) PROVE QInv'
  BY AfterStopProps, <1>16 DEF StopCall
<1>17. ASSUME NEW t \in Threads, StopWait(t) PROVE QInv'
  BY AfterStopProps, <1>17 DEF StopWait
<1>18. ASSUME NEW t \in Threads, StopTimeout(t) PROVE QInv'
  BY AfterStopProps, <1>18 DEF StopTimeout
<1>19. ASSUME NEW t \in Threads, StopClose(t) PROVE QInv'
  <2>1. /\ At(t, "cs.lock") /\ ctx' = 0 /\ uses' = uses /\ session' = session
        /\ \A u \in Threads : u # t => pc'[u] = pc[u]
        /\ pc'[t] \in {"pause", "idle", "stop.wait", "term.flags", "done"}
        /\ isPlaying' = isPlaying /\ abortRequested' = abortRequested
    BY AfterStopProps, <1>19 DEF StopClose
  <2>2. freed' = freed \cup {[ctx |-> c, by |-> SessionOf(t)] : c \in {ctx} \ {0}}
    BY <1>19 DEF StopClose
  <2>3. t # Abort
    BY <2>1
  \* The one who closes belongs to an earlier playback than a reader that is active.
  <2>4. \A h \in Sessions : Active(h) => t # Api /\ SessionOf(t) < h
    <3>1. CASE t = Api
      BY <2>1, <3>1
    <3>2. CASE t \in Supervisors
      BY <2>1, <3>2 DEF SessionOf
    <3>3. CASE t \in Readers
      BY <2>1, <3>3 DEF SessionOf
    <3> QED BY <2>3, <3>1, <3>2, <3>3
  <2>5. OnlyLeftoversCloseUsedContexts'
    <3> SUFFICES ASSUME NEW u \in Threads, NEW f \in freed', f \notin freed, f.ctx = uses[u]
                 PROVE  f.by < f.ctx
      BY <2>1
    <3>1. f.ctx = ctx /\ f.by = SessionOf(t) /\ ctx # 0
      BY <2>2
    <3>2. CASE u = Api
      <4>1. At(Api, "opening") /\ ctx = session /\ t # Api
        BY <2>1, <3>1, <3>2
      <4>2. CASE t \in Supervisors
        BY <2>1, <3>1, <4>1, <4>2 DEF SessionOf
      <4>3. CASE t \in Readers
        BY <2>1, <3>1, <4>1, <4>3 DEF SessionOf
      <4> QED BY <2>3, <4>1, <4>2, <4>3
    <3>3. CASE u \in Readers
      <4>1. PICK h \in Sessions : u = FF(h)
        BY <3>3
      <4>2. Active(h) /\ h <= uses[u]
        BY <3>1, <4>1
      <4> QED BY <2>1, <2>4, <3>1, <4>2 DEF SessionOf
    <3>4. CASE u \in Supervisors
      <4>1. PICK g \in Sessions : u = Sup(g)
        BY <3>4
      <4> QED BY <3>1, <4>1
    <3>5. CASE u = Abort
      BY <3>1, <3>5
    <3> QED BY <3>2, <3>3, <3>4, <3>5
  <2>6. \A g \in Sessions : Active(g) <=> Active(g)'
    BY <2>1
  <2>7. \A n : ClosedEarly(n) => ClosedEarly(n)'
    BY <2>2
  <2>8. ReaderHasContext'
    BY <2>1, <2>2
  \* The context it closes is not earlier than an active reader's.
  <2>9. EmptyIsExplained'
    <3>1. CASE ctx = 0
      BY <2>1, <2>2, <2>6, <2>7, <3>1
    <3>2. CASE ctx # 0
      <4>1. [ctx |-> ctx, by |-> SessionOf(t)] \in freed'
        BY <2>2, <3>2
      <4>2. \A g \in Sessions : Active(g) => ClosedEarly(g)'
        BY <2>1, <2>4, <3>2, <4>1
      <4>3. At(Api, "play.create") => SessionOf(t) < session /\ ctx = session
        <5>1. CASE t \in Supervisors
          BY <2>1, <3>2, <5>1 DEF SessionOf
        <5>2. CASE t \in Readers
          BY <2>1, <3>2, <5>2 DEF SessionOf
        <5> QED BY <2>1, <2>3, <5>1, <5>2
      <4>4. At(Api, "play.create") => ClosedEarly(session)'
        BY <2>1, <4>1, <4>3
      <4> QED BY <2>1, <2>6, <4>2, <4>4
    <3> QED BY <3>1, <3>2
  <2>10. SupervisorsComeLate'
    BY <2>1, <2>6
  <2> QED BY <2>1, <2>3, <2>5, <2>8, <2>9, <2>10
<1>20. ASSUME NEW t \in {Api, Abort}, Stop(t) PROVE QInv'
  BY <1>20 DEF Stop, DieNow
<1>21. ASSUME NEW t \in {Api, Abort}, StopCheck(t) PROVE QInv'
  BY <1>21 DEF StopCheck
<1>22. ASSUME NEW t \in {Api, Abort}, StopReturn(t) PROVE QInv'
  BY <1>22 DEF StopReturn
<1>23. ASSUME NEW t \in {Api, Abort}, StopGivesUp(t) PROVE QInv'
  BY <1>23 DEF StopGivesUp
<1>24. ASSUME NEW t \in {Api, Abort}, Close(t) PROVE QInv'
  BY <1>24 DEF Close
<1>25. ASSUME NEW t \in {Api, Abort}, CloseDie(t) PROVE QInv'
  <2>1. t = Api
    BY ThreadProps, <1>25 DEF CloseDie
  <2>2. ~abortRequested /\ Api # Abort
    BY ThreadProps
  <2>3. ~abortRequested'
    BY <1>25, <2>1, <2>2, Zenon DEF CloseDie
  <2> QED BY <1>25, <2>1, <2>3 DEF CloseDie
<1>26. ASSUME NEW t \in Supervisors, SuperStart(t) PROVE QInv'
  BY <1>26 DEF SuperStart
<1>27. ASSUME NEW t \in Supervisors, SuperPoll(t) PROVE QInv'
  BY <1>27 DEF SuperPoll
<1>28. ASSUME NEW t \in Supervisors, SuperEnding(t) PROVE QInv'
  BY <1>28 DEF SuperEnding
<1>29. ASSUME NEW t \in Supervisors, Terminate(t) PROVE QInv'
  BY <1>29 DEF Terminate, DieNow
<1>30. ASSUME NEW t \in Supervisors, TerminateCheck(t) PROVE QInv'
  BY <1>30 DEF TerminateCheck
<1>31. ASSUME NEW t \in Supervisors, TerminateContainer(t) PROVE QInv'
  BY <1>31 DEF TerminateContainer
<1>32. ASSUME NEW t \in Supervisors, TerminateFlags(t) PROVE QInv'
  BY <1>32 DEF TerminateFlags
<1>33. ASSUME NEW t \in Supervisors, TerminateReturn(t) PROVE QInv'
  BY <1>33 DEF TerminateReturn
<1>34. ASSUME NEW t \in Supervisors, SuperEnds(t) PROVE QInv'
  BY <1>34 DEF SuperEnds
<1>35. ASSUME NEW t \in Readers, ReaderStart(t) PROVE QInv'
  BY <1>35 DEF ReaderStart
<1>36. ASSUME NEW t \in Readers, ReaderLoop(t) PROVE QInv'
  BY <1>36 DEF ReaderLoop
<1>37. ASSUME NEW t \in Readers, ReaderLock(t) PROVE QInv'
  BY <1>37 DEF ReaderLock
<1>38. ASSUME NEW t \in Readers, ReaderRead(t) PROVE QInv'
  BY <1>38 DEF ReaderRead
<1>39. ASSUME NEW t \in Readers, ReaderWrote(t) PROVE QInv'
  BY <1>39 DEF ReaderWrote
<1>40. ASSUME NEW t \in Readers, ReaderEnds(t) PROVE QInv'
  BY <1>40 DEF ReaderEnds
<1>41. ASSUME NEW t \in Readers, ReaderEndsPlaying(t) PROVE QInv'
  BY <1>41 DEF ReaderEndsPlaying
<1>42. ASSUME NEW t \in Readers, ReaderDies(t) PROVE QInv'
  BY <1>42 DEF ReaderDies, DieNow
<1>43. CASE UNCHANGED vars
  BY <1>43 DEF vars
<1> HIDE DEF IInv, QInv
<1> QED BY <1>1, <1>2, <1>3, <1>4, <1>5, <1>6, <1>7, <1>8, <1>9, <1>10, <1>11, <1>12, <1>13,
       <1>14, <1>15, <1>16, <1>17, <1>18, <1>19, <1>20, <1>21, <1>22, <1>23, <1>24, <1>25,
       <1>26, <1>27, <1>28, <1>29, <1>30, <1>31, <1>32, <1>33, <1>34, <1>35, <1>36, <1>37,
       <1>38, <1>39, <1>40, <1>41, <1>42, <1>43 DEF Next, ApiStep, PlaybackStop,
       ContainerStop, SuperStep, ReaderStep

-----------------------------------------------------------------------------

LEMMA InvInit == Init => IInv /\ QInv
PROOF
<1> SUFFICES ASSUME Init PROVE IInv /\ QInv
  OBVIOUS
<1>1. FlagsTyped
  BY Zenon DEF Init, FlagsTyped
<1>2. TypeOK
  BY <1>1, ThreadProps, SessionsAssumption, AbortsAssumption
     DEF Init, TypeOK, ApiLabels, CallLabels, StopLabels, ContainerStopLabels, SuperLabels,
         ReaderLabels, Supervisors, Readers
<1>3. \A g \in Sessions : pc[Sup(g)] = "none" /\ pc[FF(g)] = "none" /\ ~Active(g)
  BY ThreadProps DEF Init, Active, Working
<1>4. ActiveIsMarked /\ NumbersInOrder /\ ContextsInOrder /\ UsesInOrder
  <2>1. At(Api, "idle") /\ caller = "close"
    BY ThreadProps DEF Init, At
  <2>2. ~playing
    BY Zenon DEF Init
  <2>3. ActiveIsMarked
    BY <1>3, <2>1 DEF At, ActiveIsMarked
  <2>4. NumbersInOrder
    BY <1>3, <2>1, <2>2 DEF NumbersInOrder
  <2>5. ContextsInOrder
    BY <1>3, <2>1
       DEF Init, At, ContextsInOrder, BeforeOpen, Opening, Starting, StopLabels,
           ContainerStopLabels
  <2>6. UsesInOrder
    BY ThreadProps DEF Init, UsesInOrder
  <2> QED BY <2>3, <2>4, <2>5, <2>6
<1>5. At(Abort, "idle")
  BY ThreadProps DEF Init, At
<1>6. ~abortRequested
  BY Zenon DEF Init
<1>7. SupervisorsComeLate /\ EmptyIsExplained
  BY <1>3, ThreadProps
     DEF Init, At, SupervisorsComeLate, EmptyIsExplained, Opening, ContainerStopLabels
<1>8. OnlyLeftoversCloseUsedContexts /\ ReaderHasContext
  BY <1>3, ThreadProps DEF Init, At, OnlyLeftoversCloseUsedContexts, ReaderHasContext
<1> QED BY <1>2, <1>4, <1>5, <1>6, <1>7, <1>8 DEF IInv, OrderInv, QInv

\* The steps that count a RequestAbort are the only ones that change `aborts'.
LEMMA AbortsGrow == TypeOK /\ [Next]_vars => aborts' = aborts \/ aborts' > 0
PROOF
<1> SUFFICES ASSUME TypeOK, [Next]_vars PROVE aborts' = aborts \/ aborts' > 0
  OBVIOUS
<1> USE DEF api
<1>1. CASE RequestAbort
  BY <1>1 DEF RequestAbort, TypeOK
<1>2. CASE Start \/ CloseCall \/ ApiStep
  BY <1>2 DEF Start, CloseCall, ApiStep, Open, OpenFails, OpenDone, Play, OutputPlayFails,
              OutputPlayDone, StartSupervisor, PlayCommand, CreateReader, MarkReader, PauseFile
<1>3. ASSUME NEW t \in Threads, ContainerStop(t) PROVE aborts' = aborts
  BY <1>3 DEF ContainerStop, StopCommand, StopCall, StopWait, StopTimeout, StopClose
<1>4. ASSUME NEW t \in Threads, PlaybackStop(t) PROVE aborts' = aborts
  BY <1>4 DEF PlaybackStop, Stop, StopCheck, StopReturn, StopGivesUp, Close, CloseDie
<1>5. ASSUME NEW t \in Threads, SuperStep(t) PROVE aborts' = aborts
  BY <1>5 DEF SuperStep, SuperStart, SuperPoll, SuperEnding, Terminate, TerminateCheck,
              TerminateContainer, TerminateFlags, TerminateReturn, SuperEnds
<1>6. ASSUME NEW t \in Threads, ReaderStep(t) PROVE aborts' = aborts
  BY <1>6 DEF ReaderStep, ReaderStart, ReaderLoop, ReaderLock, ReaderRead, ReaderWrote,
              ReaderEnds, ReaderEndsPlaying, ReaderDies
<1>7. CASE UNCHANGED vars
  BY <1>7 DEF vars
<1> QED BY <1>1, <1>2, <1>3, <1>4, <1>5, <1>6, <1>7, ThreadProps DEF Next

\* One reader is active at most; the stronger invariant is that hasPlayThreadStarted
\* tells of it and that the numbers of threads, contexts and uses are in order.
THEOREM OrderIsKept == Spec => []IInv
PROOF
<1>1. Init => IInv
  BY InvInit
<1>2. IInv /\ [Next]_vars => IInv'
  BY InvStep
<1> QED BY <1>1, <1>2, PTL DEF Spec

\* Threads stay at places of their own code and everything keeps its type, for any
\* number of playbacks and of calls of RequestAbort.
THEOREM ThreadsTyped == Spec => []TypeOK
PROOF
<1>1. IInv => TypeOK
  BY DEF IInv
<1> QED BY <1>1, OrderIsKept, PTL

\* The mutex and the flags of the player keep readers apart for any number of
\* playbacks, and without RequestAbort only a thread that an earlier playback left
\* behind takes a context from its user or the reader.
THEOREM ReaderIsAlwaysAlone == Spec => []ReaderIsAlone
PROOF
<1> DEFINE Quiet == aborts = 0 => QInv
<1>1. Init => IInv /\ Quiet
  BY InvInit
<1>2. IInv /\ Quiet /\ [Next]_vars => IInv' /\ Quiet'
  <2> SUFFICES ASSUME IInv, Quiet, [Next]_vars, aborts' = 0 PROVE IInv' /\ QInv'
    BY InvStep
  <2>1. IInv'
    BY InvStep
  <2>2. aborts' = aborts
    BY AbortsGrow DEF IInv
  <2> QED BY <2>1, <2>2, QuietStep
<1>3. IInv /\ Quiet => ReaderIsAlone
  <2>1. IInv => OneReaderReads
    BY ThreadProps DEF IInv, OrderInv, ActiveIsMarked, Active, Working, OneReaderReads, At
  <2> QED BY <2>1 DEF QInv, ReaderIsAlone
<1> HIDE DEF Quiet
<1> QED BY <1>1, <1>2, <1>3, PTL DEF Spec


-----------------------------------------------------------------------------
(* The player of the sh4 boxes *)

StoppingLabels == {"test", "flags", "silence", "wait", "free", "join"}
Ending == {"silence", "wait", "free"}
Reading == {"loop", "back", "leave"} \cup {"rel", "abs", "read", "forVideo", "forAudio"} \cup PlayerSh4!Kinds

\* The file that is open was not played yet.
Unplayed == place[PlayerSh4!App] \in {"opening", "play"} \/ (cp.up /\ ~cp.decoders_closed)
Ready    == PlayerSh4!At(PlayerSh4!App, "play") \/ (cp.up /\ cp.started /\ ~cp.decoders_closed)
OwnCodecs == codecs = avfc.no \/ history.kept
NoCodecs  == codecs = 0 \/ history.kept

OneReader ==
  /\ \A r \in Sh4Readers : place[r] # "none" => readerOf[r] = avfc.no /\ ~Unplayed
  /\ \A r, s \in Sh4Readers : place[r] # "none" /\ place[s] # "none" => r = s
  /\ \A r \in Sh4Readers : place[r] \in Reading => threads.hasPlayThreadStarted

CallsInOrder ==
  /\ place[PlayerSh4!App] \in StoppingLabels \cup {"close"} => ~cp.up
  /\ place[PlayerSh4!App] \in {"opening", "play", "speed", "pause", "paused", "jump"} => cp.up
  /\ PlayerSh4!At(PlayerSh4!App, "opening") => (cp.ts \/ cp.decoders_closed) /\ ~threads.abortPlayback /\ ~cp.started
  /\ PlayerSh4!At(PlayerSh4!App, "play") => cp.decoders_closed
  /\ PlayerSh4!At(PlayerSh4!App, "opening") <=> avfc.is = "opening"

PlaysOnce ==
  /\ Unplayed => ~mode.isPlaying
  /\ ~cp.up /\ PlayerSh4!At(PlayerSh4!App, "idle") => ~mode.isPlaying
  /\ place[PlayerSh4!App] \in {"join", "close"} => ~mode.isPlaying
  /\ \A p \in PlayerSh4!Procs : place[p] \in Ending => ~mode.isPlaying

OpenWhileUsed ==
  /\ \A p \in PlayerSh4!Procs, r \in Sh4Readers : PlayerSh4!At(p, "free") => ~PlayerSh4!Uses(r)
  /\ \A r \in Sh4Readers : PlayerSh4!Uses(r) => avfc.is = "open" /\ OwnCodecs
  /\ mode.isPlaying \/ Ready => avfc.is = "open" /\ OwnCodecs
  /\ avfc.is = "none" \/ PlayerSh4!At(PlayerSh4!App, "opening") => NoCodecs
  /\ ~cp.up /\ ~NoCodecs => mode.isPlaying \/ \E p \in PlayerSh4!Procs : place[p] \in Ending

PlayerOrder == ~history.overtaken => OneReader /\ CallsInOrder /\ PlaysOnce /\ OpenWhileUsed

LentInv ==
  /\ ui.ctx <= avfc.no /\ (avfc.is = "opening" => ui.ctx < avfc.no)
  /\ ui.pc = "looking" => ui.lock = "held"
  /\ PlayerSh4!LentContextStays

SeekInv ==
  /\ PlayerSh4!SeekIsTaken
  /\ ~history.lostSeek /\ ~history.leftover /\ ~history.overtaken => \A r \in Sh4Readers :
       /\ place[r] \in {"rel", "back"} => history.newest # "rel"
       /\ PlayerSh4!At(r, "abs") => history.newest # "abs"

Heard(f, d, off) ==
  f.isPlaying /\ ~f.isBackWard /\ d.open /\ tracks.a # 0 /\ ~off => d.audio = "play"

SoundInv == ~history.overtaken =>
  /\ cp.started /\ tracks.a = 0 => cp.file.audio = {}
  /\ Heard(mode, device, history.heldSound)

Labels == {"none", "idle", "opening", "play", "speed", "pause", "paused", "jump", "close", "born",
           "marked", "left"} \cup StoppingLabels \cup Reading

DeviceShape(d) == DOMAIN d = {"open", "video", "audio", "frozen", "fast", "full"}
FlagsShape(f) ==
  f \in [isPlaying : BOOLEAN, isPaused : BOOLEAN, isForwarding : BOOLEAN, isBackWard : BOOLEAN]
TracksShape(t) == DOMAIN t = {"a", "v", "s", "known", "hidden", "discard"}

PcTyped == place \in [PlayerSh4!Procs -> Labels]
MarksTyped ==
  threads \in [hasThreadStarted : BOOLEAN, hasPlayThreadStarted : BOOLEAN,
              abortPlayback : BOOLEAN, abortRequested : BOOLEAN]
FileTyped ==
  /\ avfc \in [no : Nat, is : {"none", "opening", "open"}] /\ codecs \in Nat
  /\ readerOf = [r \in Sh4Readers |-> readerOf[r]]
SeekTyped ==
  /\ seek \in [rel : {"none", "app", "back"}, abs : BOOLEAN, bof : {"no", "failed", "waits"}]
  /\ DOMAIN history = {"overtaken", "kept", "heldSound", "lostSeek", "leftover", "newest", "lentClosed"}
  /\ history.newest \in {"none", "rel", "abs"}
CpTyped ==
  /\ DOMAIN cp = {"up", "ts", "file", "init_jump", "decoders_closed", "playing", "speed", "started"}
  /\ cp.file \in Files
UiTyped == DOMAIN ui = {"pc", "lock", "ctx", "times"} /\ ui.ctx \in Nat

Typed == /\ PcTyped /\ FlagsShape(mode) /\ MarksTyped /\ FileTyped /\ SeekTyped
         /\ TracksShape(tracks) /\ DeviceShape(device) /\ CpTyped /\ UiTyped

\* The steps, one for each operation
LEMMA NextCases ==
  ASSUME PlayerSh4!Next
  PROVE  /\ ~history.overtaken
         /\ \/ \E f \in Files, ts \in BOOLEAN : PlayerSh4!At(PlayerSh4!App, "idle") /\ PlayerSh4!Start(f, ts)
            \/ PlayerSh4!At(PlayerSh4!App, "idle") /\ cp.up /\ PlayerSh4!Close
            \/ \E s \in {-2, 0, 1, 2} : PlayerSh4!At(PlayerSh4!App, "idle") /\ cp.up /\ cp.started /\ PlayerSh4!SetSpeed(s)
            \/ \E absolute \in BOOLEAN : PlayerSh4!At(PlayerSh4!App, "idle") /\ PlayerSh4!SetPosition(absolute)
            \/ \E pid \in PlayerSh4!Pids(cp.file) : PlayerSh4!At(PlayerSh4!App, "idle") /\ cp.up /\ cp.started /\ PlayerSh4!SetAPid(pid)
            \/ \E pid \in PlayerSh4!Pids(cp.file) : PlayerSh4!At(PlayerSh4!App, "idle") /\ PlayerSh4!SetVPid(pid)
            \/ \E pid \in {0} \cup cp.file.subs \cup cp.file.static : PlayerSh4!At(PlayerSh4!App, "idle") /\ PlayerSh4!SetSubtitlePid(pid)
            \/ PlayerSh4!At(PlayerSh4!App, "idle") /\ cp.up /\ cp.started /\ PlayerSh4!FindAllPids
            \/ \E p \in DOMAIN cp.file.programs : PlayerSh4!At(PlayerSh4!App, "idle") /\ cp.up /\ cp.started /\ PlayerSh4!SelectProgram(p)
            \/ PlayerSh4!Opened
            \/ PlayerSh4!Play
            \/ PlayerSh4!Pause
            \/ PlayerSh4!Speed
            \/ PlayerSh4!InitJump
            \/ PlayerSh4!Closed
            \/ \E p \in PlayerSh4!Procs : PlayerSh4!StopTest(p)
            \/ \E p \in PlayerSh4!Procs : PlayerSh4!StopFlags(p)
            \/ \E p \in PlayerSh4!Procs : PlayerSh4!StopOutput(p)
            \/ \E p \in PlayerSh4!Procs : PlayerSh4!StopWait(p)
            \/ \E p \in PlayerSh4!Procs : PlayerSh4!StopFree(p)
            \/ \E p \in PlayerSh4!Procs : PlayerSh4!StopJoin(p)
            \/ \E r \in Sh4Readers : PlayerSh4!Enter(r)
            \/ \E r \in Sh4Readers : PlayerSh4!Loop(r)
            \/ \E r \in Sh4Readers : PlayerSh4!JumpBack(r)
            \/ \E r \in Sh4Readers : PlayerSh4!SeekFile(r)
            \/ \E r \in Sh4Readers : PlayerSh4!ReadFrame(r)
            \/ \E r \in Sh4Readers : PlayerSh4!Lock(r)
            \/ \E r \in Sh4Readers : PlayerSh4!Write(r)
            \/ \E r \in Sh4Readers : PlayerSh4!Leave(r)
            \/ PlayerSh4!RequestAbort
            \/ PlayerSh4!AbortEnds
            \/ PlayerSh4!GetAVFormatContext
            \/ PlayerSh4!ReleaseAVFormatContext
BY DEF PlayerSh4!Next, PlayerSh4!Calls, PlayerSh4!AppStep, PlayerSh4!StopStep, PlayerSh4!ReaderStep, PlayerSh4!Read, PlayerSh4!UiStep, PlayerSh4!Procs, PlayerSh4!App

LEMMA PcStaysTyped ==
  ASSUME PcTyped, PlayerSh4!Next
  PROVE  PcTyped'
<1>1. CASE \E f \in Files, ts \in BOOLEAN : PlayerSh4!At(PlayerSh4!App, "idle") /\ PlayerSh4!Start(f, ts)
  BY <1>1 DEF PlayerSh4!Start, PlayerSh4!At, PcTyped, PlayerSh4!Goes, PlayerSh4!Procs, PlayerSh4!App, Labels, StoppingLabels, Reading, PlayerSh4!Kinds
<1>2. CASE PlayerSh4!At(PlayerSh4!App, "idle") /\ cp.up /\ PlayerSh4!Close
  BY <1>2 DEF PlayerSh4!Close, PlayerSh4!At, PcTyped, PlayerSh4!Goes, PlayerSh4!Procs, PlayerSh4!App, Labels, StoppingLabels, Reading, PlayerSh4!Kinds
<1>3. CASE \E s \in {-2, 0, 1, 2} : PlayerSh4!At(PlayerSh4!App, "idle") /\ cp.up /\ cp.started /\ PlayerSh4!SetSpeed(s)
  BY <1>3 DEF PlayerSh4!SetSpeed, PlayerSh4!At, PcTyped, PlayerSh4!Goes, PlayerSh4!Procs, PlayerSh4!App, Labels, StoppingLabels, Reading, PlayerSh4!Kinds
<1>4. CASE PlayerSh4!Opened
  BY <1>4 DEF PlayerSh4!Opened, PlayerSh4!At, PlayerSh4!GivesUp, PlayerSh4!InputInit, PcTyped, PlayerSh4!Goes, PlayerSh4!Procs, PlayerSh4!App, Labels, StoppingLabels, Reading, PlayerSh4!Kinds
<1>5. CASE PlayerSh4!Play
  BY <1>5 DEF PlayerSh4!Play, PlayerSh4!At, PcTyped, PlayerSh4!Goes, PlayerSh4!Procs, PlayerSh4!App, Labels, StoppingLabels, Reading, PlayerSh4!Kinds
<1>6. CASE PlayerSh4!Pause
  BY <1>6 DEF PlayerSh4!Pause, PlayerSh4!At, PcTyped, PlayerSh4!Goes, PlayerSh4!Procs, PlayerSh4!App, Labels, StoppingLabels, Reading, PlayerSh4!Kinds
<1>7. CASE PlayerSh4!Speed
  BY <1>7 DEF PlayerSh4!Speed, PlayerSh4!At, PcTyped, PlayerSh4!Goes, PlayerSh4!Procs, PlayerSh4!App, Labels, StoppingLabels, Reading, PlayerSh4!Kinds
<1>8. CASE PlayerSh4!InitJump
  BY <1>8 DEF PlayerSh4!InitJump, PlayerSh4!At, PcTyped, PlayerSh4!Goes, PlayerSh4!Procs, PlayerSh4!App, Labels, StoppingLabels, Reading, PlayerSh4!Kinds
<1>9. CASE PlayerSh4!Closed
  BY <1>9 DEF PlayerSh4!Closed, PlayerSh4!At, PcTyped, PlayerSh4!Goes, PlayerSh4!Procs, PlayerSh4!App, Labels, StoppingLabels, Reading, PlayerSh4!Kinds
<1>10. CASE \E p \in PlayerSh4!Procs : PlayerSh4!StopTest(p)
  BY <1>10 DEF PlayerSh4!StopTest, PlayerSh4!At, PcTyped, PlayerSh4!Goes, PlayerSh4!Procs, PlayerSh4!App, Labels, StoppingLabels, Reading, PlayerSh4!Kinds
<1>11. CASE \E p \in PlayerSh4!Procs : PlayerSh4!StopFlags(p)
  BY <1>11 DEF PlayerSh4!StopFlags, PlayerSh4!At, PcTyped, PlayerSh4!Goes, PlayerSh4!Procs, PlayerSh4!App, Labels, StoppingLabels, Reading, PlayerSh4!Kinds
<1>12. CASE \E p \in PlayerSh4!Procs : PlayerSh4!StopOutput(p)
  BY <1>12 DEF PlayerSh4!StopOutput, PlayerSh4!At, PcTyped, PlayerSh4!Goes, PlayerSh4!Procs, PlayerSh4!App, Labels, StoppingLabels, Reading, PlayerSh4!Kinds
<1>13. CASE \E p \in PlayerSh4!Procs : PlayerSh4!StopWait(p)
  BY <1>13 DEF PlayerSh4!StopWait, PlayerSh4!At, PcTyped, PlayerSh4!Goes, PlayerSh4!Procs, PlayerSh4!App, Labels, StoppingLabels, Reading, PlayerSh4!Kinds
<1>14. CASE \E p \in PlayerSh4!Procs : PlayerSh4!StopFree(p)
  BY <1>14 DEF PlayerSh4!StopFree, PlayerSh4!At, PcTyped, PlayerSh4!Goes, PlayerSh4!Procs, PlayerSh4!App, Labels, StoppingLabels, Reading, PlayerSh4!Kinds
<1>15. CASE \E p \in PlayerSh4!Procs : PlayerSh4!StopJoin(p)
  BY <1>15 DEF PlayerSh4!StopJoin, PlayerSh4!At, PcTyped, PlayerSh4!Goes, PlayerSh4!Procs, PlayerSh4!App, Labels, StoppingLabels, Reading, PlayerSh4!Kinds
<1>16. CASE \E r \in Sh4Readers : PlayerSh4!Enter(r)
  BY <1>16 DEF PlayerSh4!Enter, PlayerSh4!At, PcTyped, PlayerSh4!Goes, PlayerSh4!Procs, PlayerSh4!App, Labels, StoppingLabels, Reading, PlayerSh4!Kinds
<1>17. CASE \E r \in Sh4Readers : PlayerSh4!Loop(r)
  BY <1>17 DEF PlayerSh4!Loop, PlayerSh4!At, PcTyped, PlayerSh4!Goes, PlayerSh4!Procs, PlayerSh4!App, Labels, StoppingLabels, Reading, PlayerSh4!Kinds
<1>18. CASE \E r \in Sh4Readers : PlayerSh4!JumpBack(r)
  BY <1>18 DEF PlayerSh4!JumpBack, PlayerSh4!At, PcTyped, PlayerSh4!Goes, PlayerSh4!Procs, PlayerSh4!App, Labels, StoppingLabels, Reading, PlayerSh4!Kinds
<1>19. CASE \E r \in Sh4Readers : PlayerSh4!SeekFile(r)
  BY <1>19 DEF PlayerSh4!SeekFile, PlayerSh4!At, PcTyped, PlayerSh4!Goes, PlayerSh4!Procs, PlayerSh4!App, Labels, StoppingLabels, Reading, PlayerSh4!Kinds
<1>20. CASE \E r \in Sh4Readers : PlayerSh4!ReadFrame(r)
  BY <1>20 DEF PlayerSh4!ReadFrame, PlayerSh4!At, PcTyped, PlayerSh4!Goes, PlayerSh4!Procs, PlayerSh4!App, Labels, StoppingLabels, Reading, PlayerSh4!Kinds
<1>21. CASE \E r \in Sh4Readers : PlayerSh4!Lock(r)
  BY <1>21 DEF PlayerSh4!Lock, PlayerSh4!At, PcTyped, PlayerSh4!Goes, PlayerSh4!Procs, PlayerSh4!App, Labels, StoppingLabels, Reading, PlayerSh4!Kinds
<1>22. CASE \E r \in Sh4Readers : PlayerSh4!Write(r)
  BY <1>22 DEF PlayerSh4!Write, PlayerSh4!At, PcTyped, PlayerSh4!Goes, PlayerSh4!Procs, PlayerSh4!App, Labels, StoppingLabels, Reading, PlayerSh4!Kinds
<1>23. CASE \E r \in Sh4Readers : PlayerSh4!Leave(r)
  BY <1>23 DEF PlayerSh4!Leave, PlayerSh4!At, PcTyped, PlayerSh4!Goes, PlayerSh4!Procs, PlayerSh4!App, Labels, StoppingLabels, Reading, PlayerSh4!Kinds
<1>24. CASE UNCHANGED place
  BY <1>24 DEF PcTyped, PlayerSh4!Goes, PlayerSh4!Procs, PlayerSh4!App, Labels, StoppingLabels, Reading, PlayerSh4!Kinds
<1> QED BY NextCases, <1>1, <1>2, <1>3, <1>4, <1>5, <1>6, <1>7, <1>8, <1>9, <1>10, <1>11, <1>12, <1>13, <1>14, <1>15, <1>16, <1>17, <1>18, <1>19, <1>20, <1>21, <1>22, <1>23, <1>24 DEF PlayerSh4!SetPosition, PlayerSh4!SetAPid, PlayerSh4!SetVPid, PlayerSh4!SetSubtitlePid, PlayerSh4!FindAllPids, PlayerSh4!SelectProgram, PlayerSh4!RequestAbort, PlayerSh4!AbortEnds, PlayerSh4!GetAVFormatContext, PlayerSh4!ReleaseAVFormatContext

LEMMA FlagsStayTyped ==
  ASSUME FlagsShape(mode), PlayerSh4!Next
  PROVE  FlagsShape(mode')
<1>1. CASE PlayerSh4!Play
  BY <1>1 DEF PlayerSh4!Play, FlagsShape, PlayerSh4!Still
<1>2. CASE PlayerSh4!Pause
  BY <1>2 DEF PlayerSh4!Pause, FlagsShape, PlayerSh4!Still
<1>3. CASE PlayerSh4!Speed
  BY <1>3 DEF PlayerSh4!Speed, PlayerSh4!Now, PlayerSh4!Continue, PlayerSh4!FastForward, PlayerSh4!FastBackward, PlayerSh4!Steers, FlagsShape, PlayerSh4!Still
<1>4. CASE PlayerSh4!Closed
  BY <1>4 DEF PlayerSh4!Closed, FlagsShape, PlayerSh4!Still
<1>5. CASE \E p \in PlayerSh4!Procs : PlayerSh4!StopFlags(p)
  BY <1>5 DEF PlayerSh4!StopFlags, FlagsShape, PlayerSh4!Still
<1>6. CASE UNCHANGED mode
  BY <1>6 DEF FlagsShape, PlayerSh4!Still
<1> QED BY NextCases, <1>1, <1>2, <1>3, <1>4, <1>5, <1>6 DEF PlayerSh4!Start, PlayerSh4!Close, PlayerSh4!SetSpeed, PlayerSh4!SetPosition, PlayerSh4!SetAPid, PlayerSh4!SetVPid, PlayerSh4!SetSubtitlePid, PlayerSh4!FindAllPids, PlayerSh4!SelectProgram, PlayerSh4!Opened, PlayerSh4!InitJump, PlayerSh4!StopTest, PlayerSh4!StopOutput, PlayerSh4!StopWait, PlayerSh4!StopFree, PlayerSh4!StopJoin, PlayerSh4!Enter, PlayerSh4!Loop, PlayerSh4!JumpBack, PlayerSh4!SeekFile, PlayerSh4!ReadFrame, PlayerSh4!Lock, PlayerSh4!Write, PlayerSh4!Leave, PlayerSh4!RequestAbort, PlayerSh4!AbortEnds, PlayerSh4!GetAVFormatContext, PlayerSh4!ReleaseAVFormatContext

LEMMA ThreadsStayTyped ==
  ASSUME MarksTyped, PlayerSh4!Next
  PROVE  MarksTyped'
<1>1. CASE \E f \in Files, ts \in BOOLEAN : PlayerSh4!At(PlayerSh4!App, "idle") /\ PlayerSh4!Start(f, ts)
  BY <1>1 DEF PlayerSh4!Start, MarksTyped
<1>2. CASE \E p \in PlayerSh4!Procs : PlayerSh4!StopOutput(p)
  BY <1>2 DEF PlayerSh4!StopOutput, MarksTyped
<1>3. CASE \E r \in Sh4Readers : PlayerSh4!Enter(r)
  BY <1>3 DEF PlayerSh4!Enter, MarksTyped
<1>4. CASE \E r \in Sh4Readers : PlayerSh4!Leave(r)
  BY <1>4 DEF PlayerSh4!Leave, MarksTyped
<1>5. CASE PlayerSh4!RequestAbort
  BY <1>5 DEF PlayerSh4!RequestAbort, MarksTyped
<1>6. CASE UNCHANGED threads
  BY <1>6 DEF MarksTyped
<1> QED BY NextCases, <1>1, <1>2, <1>3, <1>4, <1>5, <1>6 DEF PlayerSh4!Close, PlayerSh4!SetSpeed, PlayerSh4!SetPosition, PlayerSh4!SetAPid, PlayerSh4!SetVPid, PlayerSh4!SetSubtitlePid, PlayerSh4!FindAllPids, PlayerSh4!SelectProgram, PlayerSh4!Opened, PlayerSh4!Play, PlayerSh4!Pause, PlayerSh4!Speed, PlayerSh4!InitJump, PlayerSh4!Closed, PlayerSh4!StopTest, PlayerSh4!StopFlags, PlayerSh4!StopWait, PlayerSh4!StopFree, PlayerSh4!StopJoin, PlayerSh4!Loop, PlayerSh4!JumpBack, PlayerSh4!SeekFile, PlayerSh4!ReadFrame, PlayerSh4!Lock, PlayerSh4!Write, PlayerSh4!AbortEnds, PlayerSh4!GetAVFormatContext, PlayerSh4!ReleaseAVFormatContext

LEMMA FileStaysTyped ==
  ASSUME FileTyped, PlayerSh4!Next
  PROVE  FileTyped'
<1>1. CASE \E f \in Files, ts \in BOOLEAN : PlayerSh4!At(PlayerSh4!App, "idle") /\ PlayerSh4!Start(f, ts)
  BY <1>1 DEF PlayerSh4!Start, FileTyped
<1>2. CASE PlayerSh4!Opened
  BY <1>2 DEF PlayerSh4!Opened, PlayerSh4!GivesUp, PlayerSh4!InputInit, PlayerSh4!GetCodecContext, FileTyped
<1>3. CASE PlayerSh4!Play
  BY <1>3 DEF PlayerSh4!Play, FileTyped
<1>4. CASE \E p \in PlayerSh4!Procs : PlayerSh4!StopFree(p)
  BY <1>4 DEF PlayerSh4!StopFree, FileTyped
<1>5. CASE UNCHANGED <<avfc, codecs, readerOf>>
  BY <1>5 DEF FileTyped
<1> QED BY NextCases, <1>1, <1>2, <1>3, <1>4, <1>5 DEF PlayerSh4!Close, PlayerSh4!SetSpeed, PlayerSh4!SetPosition, PlayerSh4!SetAPid, PlayerSh4!SetVPid, PlayerSh4!SetSubtitlePid, PlayerSh4!FindAllPids, PlayerSh4!SelectProgram, PlayerSh4!Pause, PlayerSh4!Speed, PlayerSh4!InitJump, PlayerSh4!Closed, PlayerSh4!StopTest, PlayerSh4!StopFlags, PlayerSh4!StopOutput, PlayerSh4!StopWait, PlayerSh4!StopJoin, PlayerSh4!Enter, PlayerSh4!Loop, PlayerSh4!JumpBack, PlayerSh4!SeekFile, PlayerSh4!ReadFrame, PlayerSh4!Lock, PlayerSh4!Write, PlayerSh4!Leave, PlayerSh4!RequestAbort, PlayerSh4!AbortEnds, PlayerSh4!GetAVFormatContext, PlayerSh4!ReleaseAVFormatContext

LEMMA SeekStaysTyped ==
  ASSUME SeekTyped, PlayerSh4!Next
  PROVE  SeekTyped'
<1>1. CASE \E f \in Files, ts \in BOOLEAN : PlayerSh4!At(PlayerSh4!App, "idle") /\ PlayerSh4!Start(f, ts)
  BY <1>1 DEF PlayerSh4!Start, SeekTyped
<1>2. CASE PlayerSh4!At(PlayerSh4!App, "idle") /\ cp.up /\ PlayerSh4!Close
  BY <1>2 DEF PlayerSh4!Close, SeekTyped
<1>3. CASE \E absolute \in BOOLEAN : PlayerSh4!At(PlayerSh4!App, "idle") /\ PlayerSh4!SetPosition(absolute)
  BY <1>3 DEF PlayerSh4!SetPosition, PlayerSh4!Seek, PlayerSh4!InputSeek, SeekTyped
<1>4. CASE \E pid \in PlayerSh4!Pids(cp.file) : PlayerSh4!At(PlayerSh4!App, "idle") /\ cp.up /\ cp.started /\ PlayerSh4!SetAPid(pid)
  BY <1>4 DEF PlayerSh4!SetAPid, SeekTyped
<1>5. CASE \E p \in DOMAIN cp.file.programs : PlayerSh4!At(PlayerSh4!App, "idle") /\ cp.up /\ cp.started /\ PlayerSh4!SelectProgram(p)
  BY <1>5 DEF PlayerSh4!SelectProgram, SeekTyped
<1>6. CASE PlayerSh4!Opened
  BY <1>6 DEF PlayerSh4!Opened, PlayerSh4!GivesUp, PlayerSh4!InputInit, PlayerSh4!InputSeek, SeekTyped
<1>7. CASE PlayerSh4!Play
  BY <1>7 DEF PlayerSh4!Play, SeekTyped
<1>8. CASE PlayerSh4!Speed
  BY <1>8 DEF PlayerSh4!Speed, SeekTyped
<1>9. CASE PlayerSh4!InitJump
  BY <1>9 DEF PlayerSh4!InitJump, PlayerSh4!Seek, PlayerSh4!InputSeek, SeekTyped
<1>10. CASE \E p \in PlayerSh4!Procs : PlayerSh4!StopFree(p)
  BY <1>10 DEF PlayerSh4!StopFree, SeekTyped
<1>11. CASE \E r \in Sh4Readers : PlayerSh4!Loop(r)
  BY <1>11 DEF PlayerSh4!Loop, SeekTyped
<1>12. CASE \E r \in Sh4Readers : PlayerSh4!JumpBack(r)
  BY <1>12 DEF PlayerSh4!JumpBack, SeekTyped
<1>13. CASE \E r \in Sh4Readers : PlayerSh4!SeekFile(r)
  BY <1>13 DEF PlayerSh4!SeekFile, PlayerSh4!Reset, SeekTyped
<1>14. CASE \E r \in Sh4Readers : PlayerSh4!Leave(r)
  BY <1>14 DEF PlayerSh4!Leave, SeekTyped
<1>15. CASE UNCHANGED <<seek, history>>
  BY <1>15 DEF SeekTyped
<1> QED BY NextCases, <1>1, <1>2, <1>3, <1>4, <1>5, <1>6, <1>7, <1>8, <1>9, <1>10, <1>11, <1>12, <1>13, <1>14, <1>15 DEF PlayerSh4!SetSpeed, PlayerSh4!SetVPid, PlayerSh4!SetSubtitlePid, PlayerSh4!FindAllPids, PlayerSh4!Pause, PlayerSh4!Closed, PlayerSh4!StopTest, PlayerSh4!StopFlags, PlayerSh4!StopOutput, PlayerSh4!StopWait, PlayerSh4!StopJoin, PlayerSh4!Enter, PlayerSh4!ReadFrame, PlayerSh4!Lock, PlayerSh4!Write, PlayerSh4!RequestAbort, PlayerSh4!AbortEnds, PlayerSh4!GetAVFormatContext, PlayerSh4!ReleaseAVFormatContext

LEMMA CpStaysTyped ==
  ASSUME Files # {}, CpTyped, PlayerSh4!Next
  PROVE  CpTyped'
<1>1. CASE \E f \in Files, ts \in BOOLEAN : PlayerSh4!At(PlayerSh4!App, "idle") /\ PlayerSh4!Start(f, ts)
  BY <1>1 DEF PlayerSh4!Start, CpTyped
<1>2. CASE PlayerSh4!At(PlayerSh4!App, "idle") /\ cp.up /\ PlayerSh4!Close
  BY <1>2 DEF PlayerSh4!Close, CpTyped
<1>3. CASE \E s \in {-2, 0, 1, 2} : PlayerSh4!At(PlayerSh4!App, "idle") /\ cp.up /\ cp.started /\ PlayerSh4!SetSpeed(s)
  BY <1>3 DEF PlayerSh4!SetSpeed, CpTyped
<1>4. CASE \E absolute \in BOOLEAN : PlayerSh4!At(PlayerSh4!App, "idle") /\ PlayerSh4!SetPosition(absolute)
  BY <1>4 DEF PlayerSh4!SetPosition, CpTyped
<1>5. CASE PlayerSh4!Opened
  BY <1>5 DEF PlayerSh4!Opened, PlayerSh4!GivesUp, PlayerSh4!InputInit, CpTyped
<1>6. CASE PlayerSh4!Play
  BY <1>6 DEF PlayerSh4!Play, CpTyped
<1>7. CASE PlayerSh4!Speed
  BY <1>7 DEF PlayerSh4!Speed, CpTyped
<1>8. CASE PlayerSh4!InitJump
  BY <1>8 DEF PlayerSh4!InitJump, CpTyped
<1>9. CASE PlayerSh4!Closed
  BY <1>9 DEF PlayerSh4!Closed, CpTyped
<1>10. CASE UNCHANGED cp
  BY <1>10 DEF CpTyped
<1> QED BY NextCases, <1>1, <1>2, <1>3, <1>4, <1>5, <1>6, <1>7, <1>8, <1>9, <1>10 DEF PlayerSh4!SetAPid, PlayerSh4!SetVPid, PlayerSh4!SetSubtitlePid, PlayerSh4!FindAllPids, PlayerSh4!SelectProgram, PlayerSh4!Pause, PlayerSh4!StopTest, PlayerSh4!StopFlags, PlayerSh4!StopOutput, PlayerSh4!StopWait, PlayerSh4!StopFree, PlayerSh4!StopJoin, PlayerSh4!Enter, PlayerSh4!Loop, PlayerSh4!JumpBack, PlayerSh4!SeekFile, PlayerSh4!ReadFrame, PlayerSh4!Lock, PlayerSh4!Write, PlayerSh4!Leave, PlayerSh4!RequestAbort, PlayerSh4!AbortEnds, PlayerSh4!GetAVFormatContext, PlayerSh4!ReleaseAVFormatContext

LEMMA UiStaysTyped ==
  ASSUME FileTyped, UiTyped, PlayerSh4!Next
  PROVE  UiTyped'
<1>1. CASE PlayerSh4!RequestAbort
  BY <1>1 DEF PlayerSh4!RequestAbort, UiTyped, FileTyped
<1>2. CASE PlayerSh4!AbortEnds
  BY <1>2 DEF PlayerSh4!AbortEnds, UiTyped, FileTyped
<1>3. CASE PlayerSh4!GetAVFormatContext
  BY <1>3 DEF PlayerSh4!GetAVFormatContext, UiTyped, FileTyped
<1>4. CASE PlayerSh4!ReleaseAVFormatContext
  BY <1>4 DEF PlayerSh4!ReleaseAVFormatContext, UiTyped, FileTyped
<1>5. CASE UNCHANGED ui
  BY <1>5 DEF UiTyped, FileTyped
<1> QED BY NextCases, <1>1, <1>2, <1>3, <1>4, <1>5 DEF PlayerSh4!Start, PlayerSh4!Close, PlayerSh4!SetSpeed, PlayerSh4!SetPosition, PlayerSh4!SetAPid, PlayerSh4!SetVPid, PlayerSh4!SetSubtitlePid, PlayerSh4!FindAllPids, PlayerSh4!SelectProgram, PlayerSh4!Opened, PlayerSh4!Play, PlayerSh4!Pause, PlayerSh4!Speed, PlayerSh4!InitJump, PlayerSh4!Closed, PlayerSh4!StopTest, PlayerSh4!StopFlags, PlayerSh4!StopOutput, PlayerSh4!StopWait, PlayerSh4!StopFree, PlayerSh4!StopJoin, PlayerSh4!Enter, PlayerSh4!Loop, PlayerSh4!JumpBack, PlayerSh4!SeekFile, PlayerSh4!ReadFrame, PlayerSh4!Lock, PlayerSh4!Write, PlayerSh4!Leave

LEMMA TracksStayTyped ==
  ASSUME TracksShape(tracks), PlayerSh4!Next
  PROVE  TracksShape(tracks')
<1>1. CASE \E f \in Files, ts \in BOOLEAN : PlayerSh4!At(PlayerSh4!App, "idle") /\ PlayerSh4!Start(f, ts)
  BY <1>1 DEF PlayerSh4!Start, PlayerSh4!NoTracks, TracksShape
<1>2. CASE \E pid \in PlayerSh4!Pids(cp.file) : PlayerSh4!At(PlayerSh4!App, "idle") /\ cp.up /\ cp.started /\ PlayerSh4!SetAPid(pid)
  BY <1>2 DEF PlayerSh4!SetAPid, TracksShape
<1>3. CASE \E pid \in PlayerSh4!Pids(cp.file) : PlayerSh4!At(PlayerSh4!App, "idle") /\ PlayerSh4!SetVPid(pid)
  BY <1>3 DEF PlayerSh4!SetVPid, TracksShape
<1>4. CASE \E pid \in {0} \cup cp.file.subs \cup cp.file.static : PlayerSh4!At(PlayerSh4!App, "idle") /\ PlayerSh4!SetSubtitlePid(pid)
  BY <1>4 DEF PlayerSh4!SetSubtitlePid, TracksShape
<1>5. CASE PlayerSh4!At(PlayerSh4!App, "idle") /\ cp.up /\ cp.started /\ PlayerSh4!FindAllPids
  BY <1>5 DEF PlayerSh4!FindAllPids, PlayerSh4!UpdateTracks, PlayerSh4!addTrack, PlayerSh4!initTrackUpdate, TracksShape
<1>6. CASE \E p \in DOMAIN cp.file.programs : PlayerSh4!At(PlayerSh4!App, "idle") /\ cp.up /\ cp.started /\ PlayerSh4!SelectProgram(p)
  BY <1>6 DEF PlayerSh4!SelectProgram, PlayerSh4!selectProgram, TracksShape
<1>7. CASE PlayerSh4!Opened
  BY <1>7 DEF PlayerSh4!Opened, PlayerSh4!GivesUp, PlayerSh4!InputInit, PlayerSh4!selectProgram, PlayerSh4!ReadSubtitles, PlayerSh4!UpdateTracks, PlayerSh4!addTrack, PlayerSh4!initTrackUpdate, TracksShape
<1>8. CASE UNCHANGED tracks
  BY <1>8 DEF TracksShape
<1> QED BY NextCases, <1>1, <1>2, <1>3, <1>4, <1>5, <1>6, <1>7, <1>8 DEF PlayerSh4!Close, PlayerSh4!SetSpeed, PlayerSh4!SetPosition, PlayerSh4!Play, PlayerSh4!Pause, PlayerSh4!Speed, PlayerSh4!InitJump, PlayerSh4!Closed, PlayerSh4!StopTest, PlayerSh4!StopFlags, PlayerSh4!StopOutput, PlayerSh4!StopWait, PlayerSh4!StopFree, PlayerSh4!StopJoin, PlayerSh4!Enter, PlayerSh4!Loop, PlayerSh4!JumpBack, PlayerSh4!SeekFile, PlayerSh4!ReadFrame, PlayerSh4!Lock, PlayerSh4!Write, PlayerSh4!Leave, PlayerSh4!RequestAbort, PlayerSh4!AbortEnds, PlayerSh4!GetAVFormatContext, PlayerSh4!ReleaseAVFormatContext


\* What the calls of Output leave of the decoders
SameSound(d, e) == DeviceShape(e) /\ e.open = d.open /\ e.audio = d.audio

LEMMA OutputProps ==
  ASSUME NEW d, DeviceShape(d)
  PROVE  /\ DeviceShape(PlayerSh4!OutputOpen(d)) /\ SameSound(d, PlayerSh4!OutputPause(d)) /\ SameSound(d, PlayerSh4!OutputContinue(d))
         /\ SameSound(d, PlayerSh4!OutputFast(d)) /\ SameSound(d, PlayerSh4!Clear(d))
         /\ DeviceShape(PlayerSh4!OutputStop(d)) /\ DeviceShape(PlayerSh4!Off)
         /\ \A b \in BOOLEAN : DeviceShape(PlayerSh4!Mute(d, b)) /\ PlayerSh4!Mute(d, b).open = d.open
         /\ d.open => PlayerSh4!Mute(d, FALSE).audio = "play"
         /\ ~d.open => PlayerSh4!Mute(d, FALSE) = d
BY DEF DeviceShape, SameSound, PlayerSh4!OutputOpen, PlayerSh4!OutputPause, PlayerSh4!OutputContinue, PlayerSh4!OutputFast, PlayerSh4!Clear, PlayerSh4!OutputStop, PlayerSh4!Off, PlayerSh4!Mute, PlayerSh4!Drained

LEMMA OutputPlayProps ==
  ASSUME NEW d, DeviceShape(d), NEW u
  PROVE  /\ DeviceShape(PlayerSh4!OutputPlay(d, u)) /\ PlayerSh4!OutputPlay(d, u).open = d.open
         /\ d.open /\ u.a # 0 => PlayerSh4!OutputPlay(d, u).audio = "play"
BY DEF DeviceShape, PlayerSh4!OutputPlay, PlayerSh4!Drained

LEMMA SwitchProps ==
  ASSUME NEW d, DeviceShape(d), NEW old, NEW new
  PROVE  /\ SameSound(d, PlayerSh4!OutputSwitchVideo(d, old, new))
         /\ DeviceShape(PlayerSh4!OutputSwitchAudio(d, old, new)) /\ PlayerSh4!OutputSwitchAudio(d, old, new).open = d.open
         /\ d.open /\ old # new => PlayerSh4!OutputSwitchAudio(d, old, new).audio = "play"
         /\ old = new => PlayerSh4!OutputSwitchAudio(d, old, new) = d
BY DEF DeviceShape, SameSound, PlayerSh4!OutputSwitchVideo, PlayerSh4!OutputSwitchAudio, PlayerSh4!Drained


\* A set of pids that is not empty has a least and a greatest one.
Pid == 1 .. PlayerSh4!MaxPid

LEMMA PidsAreNumbers == PlayerSh4!MaxPid \in Nat
BY SMT DEF PlayerSh4!MaxPid

LEMMA LowestOf ==
  ASSUME NEW S \in SUBSET Nat, S # {}
  PROVE  \E n \in S : \A k \in S : n <= k
<1> DEFINE R == {ss \in Nat \X Nat : ss[1] < ss[2]}
<1>2. IsWellFoundedOn(R, Nat)
  BY NatLessThanWellFounded DEF OpToRel
<1>3. PICK n \in S : \A k \in S : <<k, n>> \notin R
  <2> HIDE DEF R
  <2> QED BY <1>2, WFMin
<1>4. \A k \in S : ~(k < n)
  BY <1>3, Zenon
<1> QED BY <1>4

LEMMA LeastProps ==
  ASSUME NEW S \in SUBSET Pid, S # {}
  PROVE  PlayerSh4!Least(S) \in S
<1>1. \E n \in S : \A k \in S : n <= k
  BY LowestOf, PidsAreNumbers DEF Pid
<1> QED BY <1>1 DEF PlayerSh4!Least

LEMMA MostProps ==
  ASSUME NEW S \in SUBSET Pid, S # {}
  PROVE  PlayerSh4!Most(S) \in S
<1> DEFINE T == {PlayerSh4!MaxPid - x : x \in S}
<1>0. \A x \in S : PlayerSh4!MaxPid - x \in Nat /\ x \in Nat
  BY PidsAreNumbers DEF Pid
<1>1. T \in SUBSET Nat /\ T # {}
  BY <1>0
<1>2. PICK n \in T : \A k \in T : n <= k
  <2> HIDE DEF T
  <2> QED BY <1>1, LowestOf
<1>3. PICK x \in S : n = PlayerSh4!MaxPid - x
  BY <1>2
<1>4. ASSUME NEW y \in S PROVE x >= y
  <2>1. PlayerSh4!MaxPid - y \in T /\ n <= PlayerSh4!MaxPid - y
    BY <1>2
  <2> HIDE DEF T
  <2> QED BY <2>1, <1>0, <1>3, PidsAreNumbers
<1> QED BY <1>3, <1>4 DEF PlayerSh4!Most

\* What Continue, FastForward and FastBackward give: the sound of a playback that does not
\* rewind is on, or is known to stay off.
Steered(s) ==
  /\ DOMAIN s = {"flags", "device", "held"} /\ FlagsShape(s.flags) /\ DeviceShape(s.device)
  /\ Heard(s.flags, s.device, s.held)
  /\ s.flags.isPlaying = mode.isPlaying

LEMMA SteerProps ==
  ASSUME NEW s, Steered(s), FlagsShape(mode)
  PROVE  /\ Steered(PlayerSh4!Continue(s)) /\ Steered(PlayerSh4!FastForward(s))
         /\ \A zero \in BOOLEAN : Steered(PlayerSh4!FastBackward(s, zero))
<1> DEFINE d == s.device
           e == PlayerSh4!OutputContinue(d)
           m == PlayerSh4!Mute(e, FALSE)
           c == PlayerSh4!Clear(d)
           q == PlayerSh4!Mute(c, TRUE)
<1>1. /\ DeviceShape(d) /\ FlagsShape(s.flags) /\ Heard(s.flags, d, s.held)
      /\ s.flags.isPlaying = mode.isPlaying /\ mode.isPlaying \in BOOLEAN
  BY DEF Steered, FlagsShape
<1>2. SameSound(d, e) /\ SameSound(d, PlayerSh4!OutputFast(d)) /\ SameSound(d, c)
  BY <1>1, OutputProps
<1>3. DeviceShape(m) /\ m.open = e.open /\ (e.open => m.audio = "play")
  BY <1>2, OutputProps DEF SameSound
<1>4. DeviceShape(q)
  BY <1>2, OutputProps DEF SameSound
<1>5. Steered(PlayerSh4!Continue(s))
  <2> HIDE DEF d, e, m
  <2>1. CASE s.flags.isPlaying /\ (s.flags.isPaused \/ s.flags.isForwarding \/ s.flags.isBackWard)
    <3> DEFINE f == [PlayerSh4!Still EXCEPT !.isPlaying = TRUE]
               h == IF s.flags.isBackWard THEN m ELSE e
    <3>1. FlagsShape(f) /\ f.isPlaying = TRUE /\ ~f.isBackWard /\ mode.isPlaying = TRUE
      BY <1>1, <2>1 DEF FlagsShape, PlayerSh4!Still
    <3>2. DeviceShape(h)
      BY <1>2, <1>3 DEF SameSound
    <3>3. Heard(f, h, s.held)
      BY <1>1, <1>2, <1>3, <2>1, <3>1 DEF Heard, SameSound
    <3>4. PlayerSh4!Continue(s) = [flags |-> f, device |-> h, held |-> s.held]
      BY <2>1 DEF PlayerSh4!Continue, d, e, m
    <3>5. f.isPlaying = mode.isPlaying
      BY <3>1
    <3> HIDE DEF f, h
    <3>6. PlayerSh4!Continue(s).flags = f /\ PlayerSh4!Continue(s).device = h /\ PlayerSh4!Continue(s).held = s.held
      BY <3>4
    <3>7. DOMAIN PlayerSh4!Continue(s) = {"flags", "device", "held"}
      BY <3>4
    <3> QED BY <3>1, <3>2, <3>3, <3>5, <3>6, <3>7 DEF Steered
  <2>2. CASE ~(s.flags.isPlaying /\ (s.flags.isPaused \/ s.flags.isForwarding \/ s.flags.isBackWard))
    BY <2>2 DEF PlayerSh4!Continue
  <2> QED BY <2>1, <2>2
<1>6. Steered(PlayerSh4!FastForward(s))
  <2> DEFINE t == [s EXCEPT !.flags = [s.flags EXCEPT !.isForwarding = TRUE], !.device = PlayerSh4!OutputFast(s.device)]
  <2>0. [s EXCEPT !.flags.isForwarding = TRUE, !.device = PlayerSh4!OutputFast(s.device)] = t
    BY SMT DEF Steered
  <2>1. DOMAIN t = DOMAIN s /\ t.device = PlayerSh4!OutputFast(d) /\ t.held = s.held
    BY SMT DEF Steered
  <2>5. t.flags = [s.flags EXCEPT !.isForwarding = TRUE]
    BY SMT DEF Steered
  <2>2. FlagsShape(t.flags) /\ t.flags.isPlaying = s.flags.isPlaying /\ t.flags.isBackWard = s.flags.isBackWard
    <3> HIDE DEF t, d
    <3> QED BY <1>1, <2>5 DEF FlagsShape
  <2> HIDE DEF t, d
  <2>3. Heard(t.flags, t.device, t.held)
    BY <1>1, <1>2, <2>1, <2>2 DEF Heard, SameSound
  <2>4. Steered(t)
    BY <1>1, <1>2, <2>1, <2>2, <2>3 DEF Steered, SameSound
  <2> QED BY <2>0, <2>4, SMT DEF PlayerSh4!FastForward
<1>7. ASSUME NEW zero \in BOOLEAN PROVE Steered(PlayerSh4!FastBackward(s, zero))
  <2> DEFINE f == [s.flags EXCEPT !.isBackWard = ~zero]
             h == IF zero THEN c ELSE q
             off == s.held \/ (zero /\ s.flags.isBackWard)
             t == [flags |-> f, device |-> h, held |-> off]
  <2>1. FlagsShape(f) /\ f.isPlaying = s.flags.isPlaying /\ f.isBackWard = ~zero
    BY <1>1 DEF FlagsShape
  <2>2. DeviceShape(h)
    BY <1>2, <1>4 DEF SameSound
  <2>3. Heard(f, h, off)
    <3> HIDE DEF f, c, d, q
    <3> QED BY <1>1, <1>2, <2>1 DEF Heard, SameSound
  <2> HIDE DEF f, h, off
  <2>4. Steered(t)
    BY <1>1, <2>1, <2>2, <2>3 DEF Steered
  <2> QED BY <2>4 DEF PlayerSh4!FastBackward, t, f, h, off
<1> QED BY <1>5, <1>6, <1>7

\* What SetSpeed does with the player.
LEMMA SpeedSteers ==
  ASSUME FlagsShape(mode), DeviceShape(device), Heard(mode, device, history.heldSound), PlayerSh4!Speed
  PROVE  \E s : /\ Steered(s) /\ mode' = s.flags /\ device' = s.device
                /\ history' = [history EXCEPT !.heldSound = s.held]
<1> DEFINE back == IF mode.isBackWard THEN PlayerSh4!FastBackward(PlayerSh4!Now, TRUE) ELSE PlayerSh4!Now
           on   == IF mode.isForwarding THEN PlayerSh4!Continue(PlayerSh4!Now) ELSE PlayerSh4!Now
<1>1. Steered(PlayerSh4!Now)
  BY DEF Steered, PlayerSh4!Now
<1>2. Steered(PlayerSh4!Continue(PlayerSh4!Now)) /\ Steered(PlayerSh4!FastBackward(PlayerSh4!Now, TRUE))
  BY <1>1, SteerProps
<1>3. Steered(back) /\ Steered(on)
  BY <1>1, <1>2
<1>4. Steered(PlayerSh4!FastForward(back)) /\ Steered(PlayerSh4!FastBackward(on, FALSE))
  <2> HIDE DEF back, on
  <2> QED BY <1>3, SteerProps
<1>5. \E s \in {PlayerSh4!Now, PlayerSh4!Continue(PlayerSh4!Now), PlayerSh4!FastForward(back), PlayerSh4!FastBackward(on, FALSE)} :
        /\ mode' = s.flags /\ device' = s.device
        /\ history' = [history EXCEPT !.heldSound = s.held]
  <2> DEFINE t == CASE ~cp.playing    -> PlayerSh4!Now
                    [] cp.speed = 1   -> PlayerSh4!Continue(PlayerSh4!Now)
                    [] cp.speed = 2   -> PlayerSh4!FastForward(back)
                    [] cp.speed = -2  -> PlayerSh4!FastBackward(on, FALSE)
                    [] OTHER          -> PlayerSh4!Now
  <2>1. mode' = t.flags /\ device' = t.device /\ history' = [history EXCEPT !.heldSound = t.held]
    BY DEF PlayerSh4!Speed
  <2> HIDE DEF back, on
  <2>2. t \in {PlayerSh4!Now, PlayerSh4!Continue(PlayerSh4!Now), PlayerSh4!FastForward(back), PlayerSh4!FastBackward(on, FALSE)}
    OBVIOUS
  <2> QED BY <2>1, <2>2
<1> HIDE DEF back, on
<1> QED BY <1>1, <1>2, <1>4, <1>5

\* Where the sound comes from and is kept
Untouched ==
  /\ cp'.started = cp.started /\ cp'.file = cp.file
  /\ history'.heldSound = history.heldSound /\ history'.overtaken = history.overtaken

LEMMA SoundStep ==
  ASSUME Typed, PlayerSh4!Assumptions, PlayerOrder, SoundInv, PlayerSh4!Next
  PROVE  SoundInv' /\ DeviceShape(device')
<1> DEFINE Shaped == DeviceShape(device')
<1>a. ~history.overtaken /\ OneReader /\ CallsInOrder /\ PlaysOnce
  BY NextCases DEF PlayerOrder
<1>b. DeviceShape(device) /\ FlagsShape(mode) /\ TracksShape(tracks) /\ CpTyped /\ SeekTyped
  BY DEF Typed
<1>c. (cp.started /\ tracks.a = 0 => cp.file.audio = {}) /\ Heard(mode, device, history.heldSound)
  BY <1>a DEF SoundInv
<1>d. ASSUME Untouched, UNCHANGED <<mode, tracks>>, SameSound(device, device') PROVE SoundInv' /\ DeviceShape(device')
  BY <1>c, <1>d DEF SoundInv, Heard, SameSound, Untouched
<1>e. SameSound(device, device) /\ SameSound(device, PlayerSh4!Clear(device)) /\ SameSound(device, PlayerSh4!OutputPause(device))
  BY <1>b, OutputProps DEF SameSound
<1>f. \A S : cp.file.audio \cap S \in SUBSET Pid /\ S \cap cp.file.audio \in SUBSET Pid /\ cp.file.audio \in SUBSET Pid
  BY <1>b DEF CpTyped, PlayerSh4!Assumptions, Pid
<1>1. CASE \E f \in Files, ts \in BOOLEAN : PlayerSh4!At(PlayerSh4!App, "idle") /\ PlayerSh4!Start(f, ts)
  <2>1. ~cp.up /\ PlayerSh4!At(PlayerSh4!App, "idle") /\ UNCHANGED <<mode, device>> /\ ~cp'.started
    BY <1>1, <1>b DEF PlayerSh4!Start, CpTyped
  <2>2. ~mode.isPlaying
    BY <1>a, <2>1 DEF PlaysOnce
  <2> QED BY <1>b, <2>1, <2>2 DEF SoundInv, Heard
<1>2. CASE PlayerSh4!At(PlayerSh4!App, "idle") /\ cp.up /\ PlayerSh4!Close
  <2>1. Untouched /\ UNCHANGED <<mode, tracks, device>>
    BY <1>2, <1>b DEF PlayerSh4!Close, Untouched, SeekTyped, CpTyped
  <2> QED BY <2>1, <1>d, <1>e
<1>3. CASE \E s \in {-2, 0, 1, 2} : PlayerSh4!At(PlayerSh4!App, "idle") /\ cp.up /\ cp.started /\ PlayerSh4!SetSpeed(s)
  <2>1. Untouched /\ UNCHANGED <<mode, tracks, device>>
    BY <1>3, <1>b DEF PlayerSh4!SetSpeed, Untouched, SeekTyped, CpTyped
  <2> QED BY <2>1, <1>d, <1>e
<1>4. CASE \E absolute \in BOOLEAN : PlayerSh4!At(PlayerSh4!App, "idle") /\ PlayerSh4!SetPosition(absolute)
  <2>1. Untouched /\ UNCHANGED <<mode, tracks>> /\ (device' = device \/ device' = PlayerSh4!Clear(device))
    BY <1>4, <1>b DEF PlayerSh4!SetPosition, PlayerSh4!Seek, PlayerSh4!InputSeek, Untouched, CpTyped, SeekTyped
  <2> QED BY <2>1, <1>d, <1>e
<1>5. CASE \E pid \in PlayerSh4!Pids(cp.file) : PlayerSh4!At(PlayerSh4!App, "idle") /\ cp.up /\ cp.started /\ PlayerSh4!SetAPid(pid)
  <2>1. PICK pid \in PlayerSh4!getTrack(tracks, cp.file.audio) : PlayerSh4!SetAPid(pid)
    BY <1>5 DEF PlayerSh4!SetAPid
  <2> DEFINE d == PlayerSh4!OutputSwitchAudio(device, tracks.a, pid)
  <2>2. /\ DeviceShape(d) /\ d.open = device.open
        /\ device.open /\ tracks.a # pid => d.audio = "play"
        /\ tracks.a = pid => d = device
    BY <1>b, SwitchProps
  <2>3. /\ DeviceShape(device') /\ device'.open = d.open /\ device'.audio = d.audio
    <3>1. SameSound(d, PlayerSh4!Clear(d)) /\ (device' = d \/ device' = PlayerSh4!Clear(d))
      BY <2>1, <2>2, OutputProps DEF PlayerSh4!SetAPid
    <3> HIDE DEF d
    <3> QED BY <2>2, <3>1 DEF SameSound
  <2>4. /\ tracks'.a = pid /\ UNCHANGED <<mode, cp>> /\ cp.file.audio # {} /\ history'.overtaken = history.overtaken
        /\ history'.heldSound = (history.heldSound /\ (tracks.a = pid \/ ~device.open))
    BY <2>1, <1>b DEF PlayerSh4!SetAPid, PlayerSh4!getTrack, TracksShape, SeekTyped
  <2>5. pid # 0
    BY <1>f DEF PlayerSh4!getTrack, Pid
  <2> HIDE DEF d
  <2>6. /\ mode'.isPlaying /\ ~mode'.isBackWard /\ device'.open /\ ~history'.heldSound
          => device'.audio = "play"
    BY <1>c, <2>2, <2>3, <2>4, <2>5 DEF Heard
  <2> QED BY <2>3, <2>4, <2>5, <2>6 DEF SoundInv, Heard
<1>6. CASE \E pid \in PlayerSh4!Pids(cp.file) : PlayerSh4!At(PlayerSh4!App, "idle") /\ PlayerSh4!SetVPid(pid)
  <2>1. PICK pid : PlayerSh4!SetVPid(pid)
    BY <1>6
  <2>2. SameSound(device, PlayerSh4!OutputSwitchVideo(device, tracks.v, pid))
    BY <1>b, SwitchProps
  <2>3. tracks'.a = tracks.a /\ UNCHANGED <<mode, cp, history>> /\ SameSound(device, device')
    BY <2>1, <2>2, <1>b DEF PlayerSh4!SetVPid, TracksShape
  <2> QED BY <1>c, <2>3 DEF SoundInv, Heard, SameSound
<1>7. CASE \E pid \in {0} \cup cp.file.subs \cup cp.file.static : PlayerSh4!At(PlayerSh4!App, "idle") /\ PlayerSh4!SetSubtitlePid(pid)
  <2>1. tracks'.a = tracks.a /\ UNCHANGED <<mode, cp, history, device>>
    BY <1>7, <1>b DEF PlayerSh4!SetSubtitlePid, TracksShape
  <2> QED BY <1>b, <1>c, <2>1 DEF SoundInv, Heard
<1>8. CASE PlayerSh4!At(PlayerSh4!App, "idle") /\ cp.up /\ cp.started /\ PlayerSh4!FindAllPids
  <2>1. tracks' = PlayerSh4!UpdateTracks(tracks, cp.file) /\ UNCHANGED <<mode, cp, history, device>> /\ cp.started
    BY <1>8 DEF PlayerSh4!FindAllPids
  <2>2. tracks'.a = IF threads.abortPlayback THEN tracks.a
                    ELSE IF tracks.a = 0 THEN PlayerSh4!Least(cp.file.audio) ELSE tracks.a
    BY <2>1, <1>b DEF PlayerSh4!UpdateTracks, PlayerSh4!addTrack, PlayerSh4!initTrackUpdate, TracksShape
  <2>3. tracks'.a = tracks.a
    BY <2>1, <2>2, <1>c DEF PlayerSh4!Least
  <2> QED BY <1>b, <1>c, <2>1, <2>3 DEF SoundInv, Heard
<1>9. CASE \E p \in DOMAIN cp.file.programs : PlayerSh4!At(PlayerSh4!App, "idle") /\ cp.up /\ cp.started /\ PlayerSh4!SelectProgram(p)
  <2>1. PICK p \in DOMAIN cp.file.programs : PlayerSh4!SelectProgram(p)
    BY <1>9
  <2> DEFINE u == PlayerSh4!selectProgram(tracks, cp.file, p)
             in == cp.file.programs[p]
             d == PlayerSh4!OutputSwitchAudio(device, tracks.a, u.a)
             e == PlayerSh4!OutputSwitchVideo(d, tracks.v, u.v)
  <2>2. /\ TracksShape(u)
        /\ u.a = IF in \cap cp.file.audio = {} THEN tracks.a ELSE PlayerSh4!Most(in \cap cp.file.audio)
    BY <1>b DEF PlayerSh4!selectProgram, TracksShape
  <2>3. in \cap cp.file.audio # {} => u.a # 0
    <3>1. in \cap cp.file.audio \in SUBSET Pid
      BY <1>f
    <3>2. in \cap cp.file.audio # {} => PlayerSh4!Most(in \cap cp.file.audio) \in Pid
      BY <3>1, MostProps
    <3> QED BY <2>2, <3>2 DEF Pid
  <2> HIDE DEF u, in
  <2>4. /\ DeviceShape(d) /\ d.open = device.open
        /\ device.open /\ tracks.a # u.a => d.audio = "play"
        /\ tracks.a = u.a => d = device
    BY <1>b, SwitchProps
  <2> HIDE DEF d
  <2>5. SameSound(d, e)
    BY <2>4, SwitchProps
  <2> HIDE DEF e
  <2>6. SameSound(e, PlayerSh4!Clear(e))
    BY <2>5, OutputProps DEF SameSound
  <2>7. tracks' = u /\ device' = PlayerSh4!Clear(e) /\ UNCHANGED <<mode, cp>>
    BY <2>1 DEF PlayerSh4!SelectProgram, u, d, e
  <2>8. DeviceShape(device') /\ device'.open = device.open /\ device'.audio = d.audio
    BY <2>4, <2>5, <2>6, <2>7 DEF SameSound
  <2>9. /\ history'.overtaken = history.overtaken
        /\ in \cap cp.file.audio = {} => history' = history
        /\ in \cap cp.file.audio # {} => history'.heldSound = (history.heldSound /\ (tracks.a = u.a \/ ~device.open))
    BY <2>1, <1>b DEF PlayerSh4!SelectProgram, SeekTyped, in, u
  <2>10. CASE in \cap cp.file.audio = {}
    BY <1>c, <2>2, <2>4, <2>7, <2>8, <2>9, <2>10 DEF SoundInv, Heard
  <2>11. CASE in \cap cp.file.audio # {}
    <3>1. tracks'.a # 0
      BY <2>3, <2>7, <2>11
    <3>2. /\ mode'.isPlaying /\ ~mode'.isBackWard /\ device'.open /\ ~history'.heldSound
            => device'.audio = "play"
      BY <1>c, <2>4, <2>7, <2>8, <2>9, <2>11, <3>1 DEF Heard
    <3> QED BY <2>7, <2>8, <3>1, <3>2 DEF SoundInv, Heard
  <2> QED BY <2>10, <2>11
<1>10. CASE PlayerSh4!Opened
  <2>1. ~mode.isPlaying /\ ~threads.abortPlayback /\ UNCHANGED mode
    BY <1>10, <1>a DEF PlayerSh4!Opened, PlaysOnce, CallsInOrder, Unplayed, PlayerSh4!At
  <2>2. UNCHANGED device
    BY <1>10 DEF PlayerSh4!Opened, PlayerSh4!GivesUp, PlayerSh4!InputInit
  <2>3. cp'.started /\ tracks'.a = 0 => cp'.file.audio = {}
    <3>1. CASE UNCHANGED <<tracks, cp>>
      BY <3>1, <1>c
    <3>2. CASE PlayerSh4!InputInit
      <4> DEFINE g == cp.file
                 u == PlayerSh4!ReadSubtitles(PlayerSh4!UpdateTracks(tracks, g), g)
      <4>1. TracksShape(u) /\ (u.a = 0 => PlayerSh4!Least(g.audio) = 0)
        BY <1>b, <2>1 DEF PlayerSh4!ReadSubtitles, PlayerSh4!UpdateTracks, PlayerSh4!addTrack, PlayerSh4!initTrackUpdate, TracksShape
      <4>2. g.audio \in SUBSET Pid
        BY <1>f
      <4>3. u.a = 0 => g.audio = {}
        BY <4>1, <4>2, LeastProps DEF Pid
      <4>4. \A p \in DOMAIN g.programs : PlayerSh4!selectProgram(u, g, p).a = 0 => g.audio = {}
        <5> SUFFICES ASSUME NEW p \in DOMAIN g.programs, PlayerSh4!selectProgram(u, g, p).a = 0 PROVE g.audio = {}
          OBVIOUS
        <5> DEFINE in == g.programs[p]
        <5>1. PlayerSh4!selectProgram(u, g, p).a = IF in \cap g.audio = {} THEN u.a ELSE PlayerSh4!Most(in \cap g.audio)
          <6> HIDE DEF u, g
          <6> QED BY <4>1 DEF PlayerSh4!selectProgram, TracksShape
        <5>2. in \cap g.audio # {} => PlayerSh4!Most(in \cap g.audio) \in in \cap g.audio
          BY <4>2, MostProps
        <5> HIDE DEF g, u, in
        <5> QED BY <5>1, <5>2, <4>2, <4>3 DEF Pid
      <4>5. cp'.file = g
        BY <3>2, <1>b DEF PlayerSh4!InputInit, CpTyped
      <4>6. \/ tracks' = u
            \/ \E p \in DOMAIN g.programs : tracks' = PlayerSh4!selectProgram(u, g, p)
        BY <3>2 DEF PlayerSh4!InputInit
      <4> HIDE DEF g, u
      <4> QED BY <4>3, <4>4, <4>5, <4>6
    <3> QED BY <1>10, <3>1, <3>2 DEF PlayerSh4!Opened, PlayerSh4!GivesUp
  <2> QED BY <1>b, <2>1, <2>2, <2>3 DEF SoundInv, Heard
<1>11. CASE PlayerSh4!Play
  <2> DEFINE d == PlayerSh4!OutputOpen(device)
             e == PlayerSh4!OutputPlay(d, tracks)
  <2>1. ~mode.isPlaying
    BY <1>11, <1>a DEF PlayerSh4!Play, PlaysOnce, Unplayed, PlayerSh4!At
  <2>2. device' = e /\ UNCHANGED tracks /\ cp'.started = cp.started /\ cp'.file = cp.file
    BY <1>11, <2>1, <1>b DEF PlayerSh4!Play, CpTyped
  <2>3. DeviceShape(d)
    BY <1>b, OutputProps
  <2>4. DeviceShape(e) /\ e.open = d.open /\ (d.open /\ tracks.a # 0 => e.audio = "play")
    <3> HIDE DEF d
    <3> QED BY <2>3, OutputPlayProps
  <2> HIDE DEF d, e
  <2> QED BY <1>c, <2>2, <2>4 DEF SoundInv, Heard
<1>12. CASE PlayerSh4!Pause
  <2>1. CASE PlayerSh4!At(PlayerSh4!App, "pause")
    BY <1>12, <2>1, <1>b, <1>d, <1>e DEF PlayerSh4!Pause, Untouched, PlayerSh4!At
  <2>2. CASE PlayerSh4!At(PlayerSh4!App, "paused")
    <3> DEFINE m == PlayerSh4!Mute(device, FALSE)
    <3>1. DeviceShape(m) /\ m.open = device.open /\ (device.open => m.audio = "play")
      BY <1>b, OutputProps
    <3>2. /\ UNCHANGED <<tracks, cp, history>> /\ device' = (IF mode.isBackWard THEN m ELSE device)
          /\ mode'.isPlaying = mode.isPlaying /\ ~mode'.isBackWard
      BY <1>12, <2>2, <1>b DEF PlayerSh4!Pause, PlayerSh4!At, FlagsShape
    <3> HIDE DEF m
    <3> QED BY <1>b, <1>c, <3>1, <3>2 DEF SoundInv, Heard
  <2> QED BY <1>12, <2>1, <2>2 DEF PlayerSh4!Pause
<1>13. CASE PlayerSh4!Speed
  <2>2. PICK s : /\ Steered(s) /\ mode' = s.flags /\ device' = s.device
                 /\ history' = [history EXCEPT !.heldSound = s.held]
    BY <1>13, <1>b, <1>c, SpeedSteers DEF Typed
  <2>3. UNCHANGED tracks /\ cp'.started = cp.started /\ cp'.file = cp.file
    BY <1>13, <1>b DEF PlayerSh4!Speed, CpTyped
  <2>4. history'.heldSound = s.held
    BY <2>2, <1>b DEF SeekTyped
  <2> QED BY <1>c, <2>2, <2>3, <2>4 DEF SoundInv, Heard, Steered
<1>14. CASE PlayerSh4!InitJump
  <2>1. Untouched /\ UNCHANGED <<mode, tracks>> /\ (device' = device \/ device' = PlayerSh4!Clear(device))
    BY <1>14, <1>b DEF PlayerSh4!InitJump, PlayerSh4!Seek, PlayerSh4!InputSeek, Untouched, CpTyped, SeekTyped
  <2> QED BY <2>1, <1>d, <1>e
<1>15. CASE PlayerSh4!Closed
  <2>1. mode' = PlayerSh4!Still /\ device' = PlayerSh4!Off /\ ~cp'.started
    BY <1>15, <1>b DEF PlayerSh4!Closed, CpTyped
  <2>2. DeviceShape(PlayerSh4!Off)
    BY <1>b, OutputProps
  <2> QED BY <2>1, <2>2 DEF SoundInv, Heard, PlayerSh4!Still
<1>16. CASE \E p \in PlayerSh4!Procs : PlayerSh4!StopFlags(p)
  <2> DEFINE m == PlayerSh4!Mute(device, FALSE)
  <2>1. mode' = PlayerSh4!Still /\ UNCHANGED <<tracks, cp>> /\ (device' = device \/ device' = m)
    BY <1>16 DEF PlayerSh4!StopFlags
  <2>2. DeviceShape(m)
    BY <1>b, OutputProps
  <2> HIDE DEF m
  <2> QED BY <1>b, <1>c, <2>1, <2>2 DEF SoundInv, Heard, PlayerSh4!Still
<1>17. CASE \E p \in PlayerSh4!Procs : PlayerSh4!StopOutput(p)
  <2>1. ~mode.isPlaying /\ UNCHANGED <<mode, tracks, cp, history>> /\ device' = PlayerSh4!OutputStop(device)
    BY <1>17, <1>a DEF PlayerSh4!StopOutput, PlaysOnce, Ending, PlayerSh4!At
  <2>2. DeviceShape(PlayerSh4!OutputStop(device))
    BY <1>b, OutputProps
  <2> QED BY <1>c, <2>1, <2>2 DEF SoundInv, Heard
<1>18. CASE \E p \in PlayerSh4!Procs : PlayerSh4!StopFree(p)
  <2>1. Untouched /\ UNCHANGED <<mode, tracks, device>>
    BY <1>18, <1>b DEF PlayerSh4!StopFree, Untouched, SeekTyped, CpTyped
  <2> QED BY <2>1, <1>d, <1>e
<1>19. CASE \E r \in Sh4Readers : PlayerSh4!Loop(r)
  <2>1. Untouched /\ UNCHANGED <<mode, tracks, device>>
    BY <1>19, <1>b DEF PlayerSh4!Loop, Untouched, SeekTyped
  <2> QED BY <2>1, <1>d, <1>e
<1>20. CASE \E r \in Sh4Readers : PlayerSh4!JumpBack(r)
  <2>1. Untouched /\ UNCHANGED <<mode, tracks>> /\ SameSound(device, device')
    BY <1>20, <1>b, <1>e DEF PlayerSh4!JumpBack, Untouched, SameSound, DeviceShape
  <2> QED BY <2>1, <1>d
<1>21. CASE \E r \in Sh4Readers : PlayerSh4!SeekFile(r)
  <2>1. Untouched /\ UNCHANGED <<mode, tracks>> /\ SameSound(device, device')
    BY <1>21, <1>b, <1>e DEF PlayerSh4!SeekFile, Untouched, SameSound, DeviceShape
  <2> QED BY <2>1, <1>d
<1>22. CASE \E r \in Sh4Readers : PlayerSh4!Write(r)
  <2>1. Untouched /\ UNCHANGED <<mode, tracks>> /\ SameSound(device, device')
    BY <1>22, <1>b, <1>e DEF PlayerSh4!Write, Untouched, SameSound, DeviceShape
  <2> QED BY <2>1, <1>d
<1>23. CASE \E r \in Sh4Readers : PlayerSh4!Leave(r)
  <2>1. Untouched /\ UNCHANGED <<mode, tracks>> /\ SameSound(device, device')
    BY <1>23, <1>b, <1>e DEF PlayerSh4!Leave, Untouched, SameSound, DeviceShape
  <2> QED BY <2>1, <1>d
<1>24. CASE UNCHANGED <<mode, device, tracks, cp, history>>
  BY <1>24, <1>d, <1>e DEF Untouched
<1> QED BY NextCases, <1>1, <1>2, <1>3, <1>4, <1>5, <1>6, <1>7, <1>8, <1>9, <1>10, <1>11, <1>12, <1>13, <1>14, <1>15, <1>16, <1>17, <1>18, <1>19, <1>20, <1>21, <1>22, <1>23, <1>24 DEF PlayerSh4!StopTest, PlayerSh4!StopWait, PlayerSh4!StopJoin, PlayerSh4!Enter, PlayerSh4!ReadFrame, PlayerSh4!Lock, PlayerSh4!RequestAbort, PlayerSh4!AbortEnds, PlayerSh4!GetAVFormatContext, PlayerSh4!ReleaseAVFormatContext

LEMMA LentStep ==
  ASSUME Typed, PlayerOrder, LentInv, PlayerSh4!Next
  PROVE  LentInv'
<1>a. ~history.overtaken /\ OneReader /\ CallsInOrder
  BY NextCases DEF PlayerOrder
<1>b. FileTyped /\ UiTyped /\ SeekTyped
  BY DEF Typed
<1>1. CASE \E f \in Files, ts \in BOOLEAN : PlayerSh4!At(PlayerSh4!App, "idle") /\ PlayerSh4!Start(f, ts)
  BY <1>1, <1>a, <1>b DEF PlayerSh4!Start, LentInv, PlayerSh4!LentContextStays, FileTyped, UiTyped, SeekTyped
<1>2. CASE PlayerSh4!At(PlayerSh4!App, "idle") /\ cp.up /\ PlayerSh4!Close
  BY <1>2, <1>a, <1>b DEF PlayerSh4!Close, LentInv, PlayerSh4!LentContextStays, FileTyped, UiTyped, SeekTyped
<1>3. CASE \E absolute \in BOOLEAN : PlayerSh4!At(PlayerSh4!App, "idle") /\ PlayerSh4!SetPosition(absolute)
  BY <1>3, <1>b DEF PlayerSh4!SetPosition, PlayerSh4!Seek, PlayerSh4!InputSeek, LentInv, PlayerSh4!LentContextStays, SeekTyped
<1>4. CASE \E pid \in PlayerSh4!Pids(cp.file) : PlayerSh4!At(PlayerSh4!App, "idle") /\ cp.up /\ cp.started /\ PlayerSh4!SetAPid(pid)
  BY <1>4, <1>a, <1>b DEF PlayerSh4!SetAPid, LentInv, PlayerSh4!LentContextStays, FileTyped, UiTyped, SeekTyped
<1>5. CASE \E p \in DOMAIN cp.file.programs : PlayerSh4!At(PlayerSh4!App, "idle") /\ cp.up /\ cp.started /\ PlayerSh4!SelectProgram(p)
  BY <1>5, <1>a, <1>b DEF PlayerSh4!SelectProgram, LentInv, PlayerSh4!LentContextStays, FileTyped, UiTyped, SeekTyped
<1>6. CASE PlayerSh4!Opened
  <2>1. ~PlayerSh4!Lent /\ ui.ctx < avfc.no
    BY <1>6, <1>a, <1>b DEF PlayerSh4!Opened, CallsInOrder, LentInv, PlayerSh4!Lent, UiTyped, FileTyped
  <2>2. avfc'.no = avfc.no /\ avfc'.is # "opening"
    BY <1>6, <1>b DEF PlayerSh4!Opened, PlayerSh4!GivesUp, PlayerSh4!InputInit, FileTyped
  <2>3. ~history.lentClosed
    BY DEF LentInv, PlayerSh4!LentContextStays
  <2>4. ASSUME NEW outcome, PlayerSh4!GivesUp(outcome) PROVE ~history'.lentClosed
    BY <1>b, <2>1, <2>3, <2>4 DEF PlayerSh4!GivesUp, SeekTyped
  <2>5. ASSUME PlayerSh4!InputInit PROVE ~history'.lentClosed
    BY <1>b, <2>3, <2>5 DEF PlayerSh4!InputInit, PlayerSh4!InputSeek, SeekTyped
  <2> QED BY <1>6, <1>b, <2>2, <2>4, <2>5 DEF PlayerSh4!Opened, LentInv, PlayerSh4!LentContextStays, UiTyped, FileTyped
<1>7. CASE PlayerSh4!Play
  BY <1>7, <1>a, <1>b DEF PlayerSh4!Play, LentInv, PlayerSh4!LentContextStays, FileTyped, UiTyped, SeekTyped
<1>8. CASE PlayerSh4!Speed
  BY <1>8, <1>a, <1>b DEF PlayerSh4!Speed, LentInv, PlayerSh4!LentContextStays, FileTyped, UiTyped, SeekTyped
<1>9. CASE PlayerSh4!InitJump
  BY <1>9, <1>b DEF PlayerSh4!InitJump, PlayerSh4!Seek, PlayerSh4!InputSeek, LentInv, PlayerSh4!LentContextStays, SeekTyped
<1>10. CASE \E p \in PlayerSh4!Procs : PlayerSh4!StopFree(p)
  <2>1. ~PlayerSh4!Lent
    BY <1>10 DEF PlayerSh4!StopFree, LentInv, PlayerSh4!Lent
  <2> QED BY <1>10, <1>b, <2>1 DEF PlayerSh4!StopFree, LentInv, PlayerSh4!LentContextStays, SeekTyped, FileTyped
<1>11. CASE \E r \in Sh4Readers : PlayerSh4!Loop(r)
  BY <1>11, <1>a, <1>b DEF PlayerSh4!Loop, LentInv, PlayerSh4!LentContextStays, FileTyped, UiTyped, SeekTyped
<1>12. CASE PlayerSh4!RequestAbort
  BY <1>12, <1>a, <1>b DEF PlayerSh4!RequestAbort, LentInv, PlayerSh4!LentContextStays, FileTyped, UiTyped, SeekTyped
<1>13. CASE PlayerSh4!AbortEnds
  BY <1>13, <1>a, <1>b DEF PlayerSh4!AbortEnds, LentInv, PlayerSh4!LentContextStays, FileTyped, UiTyped, SeekTyped
<1>14. CASE PlayerSh4!GetAVFormatContext
  BY <1>14, <1>a, <1>b DEF PlayerSh4!GetAVFormatContext, LentInv, PlayerSh4!LentContextStays, FileTyped, UiTyped, SeekTyped
<1>15. CASE PlayerSh4!ReleaseAVFormatContext
  BY <1>15, <1>a, <1>b DEF PlayerSh4!ReleaseAVFormatContext, LentInv, PlayerSh4!LentContextStays, FileTyped, UiTyped, SeekTyped
<1>16. CASE UNCHANGED <<avfc, ui, history>>
  BY <1>16 DEF LentInv, PlayerSh4!LentContextStays
<1> QED BY NextCases, <1>1, <1>2, <1>3, <1>4, <1>5, <1>6, <1>7, <1>8, <1>9, <1>10, <1>11, <1>12, <1>13, <1>14, <1>15, <1>16 DEF PlayerSh4!SetSpeed, PlayerSh4!SetVPid, PlayerSh4!SetSubtitlePid, PlayerSh4!FindAllPids, PlayerSh4!Pause, PlayerSh4!Closed, PlayerSh4!StopTest, PlayerSh4!StopFlags, PlayerSh4!StopOutput, PlayerSh4!StopWait, PlayerSh4!StopJoin, PlayerSh4!Enter, PlayerSh4!JumpBack, PlayerSh4!SeekFile, PlayerSh4!ReadFrame, PlayerSh4!Lock, PlayerSh4!Write, PlayerSh4!Leave

LEMMA SeekStep ==
  ASSUME Typed, PlayerSh4!Assumptions, PlayerOrder, SeekInv, PlayerSh4!Next
  PROVE  SeekInv'
<1>a. ~history.overtaken /\ OneReader /\ CallsInOrder
  BY NextCases DEF PlayerOrder
<1>b. SeekTyped /\ PcTyped
  BY DEF Typed
<1>c. "app" \notin Sh4Readers
  BY DEF PlayerSh4!Assumptions
<1>d. ~history.lostSeek /\ ~history.leftover =>
        /\ history.newest = "rel" => seek.rel = "app" /\ (seek.abs => \E r \in Sh4Readers : PlayerSh4!At(r, "abs"))
        /\ history.newest = "abs" => seek.abs /\ (seek.rel = "app" => \E r \in Sh4Readers : PlayerSh4!At(r, "rel"))
        /\ history.newest = "none" => /\ seek.rel = "app" => \E r \in Sh4Readers : PlayerSh4!At(r, "rel")
                                      /\ seek.abs => \E r \in Sh4Readers : PlayerSh4!At(r, "abs")
        /\ \A r \in Sh4Readers : /\ place[r] \in {"rel", "back"} => history.newest # "rel"
                                 /\ PlayerSh4!At(r, "abs") => history.newest # "abs"
  BY <1>a DEF SeekInv, PlayerSh4!SeekIsTaken
<1>e. ASSUME ~history'.lostSeek /\ ~history'.leftover =>
        /\ history'.newest = "rel" => seek'.rel = "app" /\ (seek'.abs => \E r \in Sh4Readers : place'[r] = "abs")
        /\ history'.newest = "abs" => seek'.abs /\ (seek'.rel = "app" => \E r \in Sh4Readers : place'[r] = "rel")
        /\ history'.newest = "none" => /\ seek'.rel = "app" => \E r \in Sh4Readers : place'[r] = "rel"
                                       /\ seek'.abs => \E r \in Sh4Readers : place'[r] = "abs"
        /\ \A r \in Sh4Readers : /\ place'[r] \in {"rel", "back"} => history'.newest # "rel"
                                 /\ place'[r] = "abs" => history'.newest # "abs",
             history'.newest \in {"none", "rel", "abs"}
      PROVE  SeekInv'
  <2>1. ~history'.lostSeek /\ ~history'.leftover /\ ~history'.overtaken => \A r \in Sh4Readers :
          /\ place'[r] \in {"rel", "back"} => history'.newest # "rel"
          /\ place'[r] = "abs" => history'.newest # "abs"
    BY <1>e
  <2>2. PlayerSh4!SeekIsTaken'
    <3> SUFFICES ASSUME ~history'.lostSeek, ~history'.leftover PROVE PlayerSh4!SeekIsTaken'
      BY DEF PlayerSh4!SeekIsTaken
    <3>1. CASE history'.newest = "rel"
      BY <1>e, <3>1 DEF PlayerSh4!SeekIsTaken, PlayerSh4!At
    <3>2. CASE history'.newest = "abs"
      BY <1>e, <3>2 DEF PlayerSh4!SeekIsTaken, PlayerSh4!At
    <3>3. CASE history'.newest = "none"
      BY <1>e, <3>3 DEF PlayerSh4!SeekIsTaken, PlayerSh4!At
    <3> QED BY <1>e, <3>1, <3>2, <3>3
  <2> QED BY <2>1, <2>2 DEF SeekInv, PlayerSh4!At
\* The other steps of the readers leave the requests alone.
<1>f. ASSUME UNCHANGED seek, history'.newest = history.newest, history'.lostSeek = history.lostSeek,
             history.leftover => history'.leftover,
             \A r \in Sh4Readers : /\ place'[r] = place[r] \/ (place[r] \notin {"rel", "abs"} /\ place'[r] \notin {"rel", "abs", "back"})
      PROVE  SeekInv'
  BY <1>b, <1>d, <1>e, <1>f DEF PlayerSh4!At, SeekTyped
<1>g. ASSUME NEW absolute \in BOOLEAN, PlayerSh4!InputSeek(absolute), \A r \in Sh4Readers : place'[r] = place[r]
      PROVE  SeekInv'
  <2>1. /\ absolute => seek'.abs /\ seek'.rel = "none" /\ history'.newest = "abs"
        /\ ~absolute => ~seek'.abs /\ seek'.rel = "app" /\ history'.newest = "rel"
        /\ history'.newest \in {"none", "rel", "abs"}
        /\ history'.lostSeek = (history.lostSeek \/ PlayerSh4!Overwrites(IF absolute THEN "abs" ELSE "rel"))
    BY <1>b, <1>g DEF PlayerSh4!InputSeek, SeekTyped
  <2>2. \A r \in Sh4Readers : /\ ~absolute /\ place[r] \in {"rel", "back"} => history'.lostSeek
                              /\ absolute /\ place[r] = "abs" => history'.lostSeek
    BY <2>1 DEF PlayerSh4!Overwrites
  <2> QED BY <1>e, <1>g, <2>1, <2>2
<1>1. CASE \E f \in Files, ts \in BOOLEAN : PlayerSh4!At(PlayerSh4!App, "idle") /\ PlayerSh4!Start(f, ts)
  <2>1. /\ UNCHANGED seek /\ history'.newest = history.newest /\ history'.lostSeek = history.lostSeek
        /\ history.leftover => history'.leftover
    BY <1>1, <1>b DEF PlayerSh4!Start, SeekTyped
  <2>2. \A r \in Sh4Readers : /\ place'[r] = place[r] \/ (place[r] \notin {"rel", "abs"} /\ place'[r] \notin {"rel", "abs", "back"})
    BY <1>1, <1>b, <1>c DEF PlayerSh4!Start, PlayerSh4!Goes, PlayerSh4!At, PcTyped, PlayerSh4!Procs, PlayerSh4!App
  <2> QED BY <2>1, <2>2, <1>f
<1>2. CASE PlayerSh4!At(PlayerSh4!App, "idle") /\ cp.up /\ PlayerSh4!Close
  <2>1. /\ UNCHANGED seek /\ history'.newest = history.newest /\ history'.lostSeek = history.lostSeek
        /\ history.leftover => history'.leftover
    BY <1>2, <1>b DEF PlayerSh4!Close, SeekTyped
  <2>2. \A r \in Sh4Readers : /\ place'[r] = place[r] \/ (place[r] \notin {"rel", "abs"} /\ place'[r] \notin {"rel", "abs", "back"})
    BY <1>2, <1>b, <1>c DEF PlayerSh4!Close, PlayerSh4!Goes, PlayerSh4!At, PcTyped, PlayerSh4!Procs, PlayerSh4!App
  <2> QED BY <2>1, <2>2, <1>f
<1>3. CASE \E s \in {-2, 0, 1, 2} : PlayerSh4!At(PlayerSh4!App, "idle") /\ cp.up /\ cp.started /\ PlayerSh4!SetSpeed(s)
  <2>1. /\ UNCHANGED seek /\ history'.newest = history.newest /\ history'.lostSeek = history.lostSeek
        /\ history.leftover => history'.leftover
    BY <1>3, <1>b DEF PlayerSh4!SetSpeed, SeekTyped
  <2>2. \A r \in Sh4Readers : /\ place'[r] = place[r] \/ (place[r] \notin {"rel", "abs"} /\ place'[r] \notin {"rel", "abs", "back"})
    BY <1>3, <1>b, <1>c DEF PlayerSh4!SetSpeed, PlayerSh4!Goes, PlayerSh4!At, PcTyped, PlayerSh4!Procs, PlayerSh4!App
  <2> QED BY <2>1, <2>2, <1>f
<1>4. CASE \E absolute \in BOOLEAN : PlayerSh4!At(PlayerSh4!App, "idle") /\ PlayerSh4!SetPosition(absolute)
  <2>1. \A r \in Sh4Readers : place'[r] = place[r] \/ (place[r] \notin {"rel", "abs"} /\ place'[r] \notin {"rel", "abs", "back"})
    BY <1>4, <1>b, <1>c DEF PlayerSh4!SetPosition, PlayerSh4!Goes, PlayerSh4!At, PcTyped, PlayerSh4!Procs, PlayerSh4!App
  <2>2. CASE UNCHANGED <<seek, history>>
    BY <2>1, <2>2, <1>f
  <2>3. CASE \E absolute \in BOOLEAN : PlayerSh4!InputSeek(absolute)
    <3>1. \A r \in Sh4Readers : place'[r] = place[r]
      BY <1>4, <1>b, <1>c DEF PlayerSh4!SetPosition, PlayerSh4!Goes, PlayerSh4!At, PcTyped, PlayerSh4!Procs, PlayerSh4!App
    <3> QED BY <2>3, <3>1, <1>g
  <2> QED BY <1>4, <2>2, <2>3 DEF PlayerSh4!SetPosition, PlayerSh4!Seek
<1>5. CASE \E pid \in PlayerSh4!Pids(cp.file) : PlayerSh4!At(PlayerSh4!App, "idle") /\ cp.up /\ cp.started /\ PlayerSh4!SetAPid(pid)
  <2>1. PICK pid \in PlayerSh4!Pids(cp.file) : PlayerSh4!SetAPid(pid)
    BY <1>5
  <2>2. \A r \in Sh4Readers : place'[r] = place[r]
    BY <2>1 DEF PlayerSh4!SetAPid
  <2>3. CASE UNCHANGED <<seek, history>>
    BY <2>2, <2>3, <1>f
  <2>4. CASE ~UNCHANGED <<seek, history>>
    <3>1. /\ ~seek'.abs /\ seek'.rel = "app" /\ history'.newest = "rel"
          /\ history'.newest \in {"none", "rel", "abs"}
          /\ history'.lostSeek = (history.lostSeek \/ PlayerSh4!Overwrites("rel"))
      BY <2>1, <2>4, <1>b DEF PlayerSh4!SetAPid, SeekTyped
    <3>2. \A r \in Sh4Readers : place[r] \in {"rel", "back"} => history'.lostSeek
      BY <3>1 DEF PlayerSh4!Overwrites
    <3> QED BY <1>e, <2>2, <3>1, <3>2
  <2> QED BY <2>3, <2>4
<1>6. CASE \E pid \in PlayerSh4!Pids(cp.file) : PlayerSh4!At(PlayerSh4!App, "idle") /\ PlayerSh4!SetVPid(pid)
  <2>1. /\ UNCHANGED seek /\ history'.newest = history.newest /\ history'.lostSeek = history.lostSeek
        /\ history.leftover => history'.leftover
    BY <1>6, <1>b DEF PlayerSh4!SetVPid, SeekTyped
  <2>2. \A r \in Sh4Readers : /\ place'[r] = place[r] \/ (place[r] \notin {"rel", "abs"} /\ place'[r] \notin {"rel", "abs", "back"})
    BY <1>6, <1>b, <1>c DEF PlayerSh4!SetVPid, PlayerSh4!Goes, PlayerSh4!At, PcTyped, PlayerSh4!Procs, PlayerSh4!App
  <2> QED BY <2>1, <2>2, <1>f
<1>7. CASE \E pid \in {0} \cup cp.file.subs \cup cp.file.static : PlayerSh4!At(PlayerSh4!App, "idle") /\ PlayerSh4!SetSubtitlePid(pid)
  <2>1. /\ UNCHANGED seek /\ history'.newest = history.newest /\ history'.lostSeek = history.lostSeek
        /\ history.leftover => history'.leftover
    BY <1>7, <1>b DEF PlayerSh4!SetSubtitlePid, SeekTyped
  <2>2. \A r \in Sh4Readers : /\ place'[r] = place[r] \/ (place[r] \notin {"rel", "abs"} /\ place'[r] \notin {"rel", "abs", "back"})
    BY <1>7, <1>b, <1>c DEF PlayerSh4!SetSubtitlePid, PlayerSh4!Goes, PlayerSh4!At, PcTyped, PlayerSh4!Procs, PlayerSh4!App
  <2> QED BY <2>1, <2>2, <1>f
<1>8. CASE PlayerSh4!At(PlayerSh4!App, "idle") /\ cp.up /\ cp.started /\ PlayerSh4!FindAllPids
  <2>1. /\ UNCHANGED seek /\ history'.newest = history.newest /\ history'.lostSeek = history.lostSeek
        /\ history.leftover => history'.leftover
    BY <1>8, <1>b DEF PlayerSh4!FindAllPids, SeekTyped
  <2>2. \A r \in Sh4Readers : /\ place'[r] = place[r] \/ (place[r] \notin {"rel", "abs"} /\ place'[r] \notin {"rel", "abs", "back"})
    BY <1>8, <1>b, <1>c DEF PlayerSh4!FindAllPids, PlayerSh4!Goes, PlayerSh4!At, PcTyped, PlayerSh4!Procs, PlayerSh4!App
  <2> QED BY <2>1, <2>2, <1>f
<1>9. CASE \E p \in DOMAIN cp.file.programs : PlayerSh4!At(PlayerSh4!App, "idle") /\ cp.up /\ cp.started /\ PlayerSh4!SelectProgram(p)
  <2>1. PICK p \in DOMAIN cp.file.programs : PlayerSh4!SelectProgram(p)
    BY <1>9
  <2>2. \A r \in Sh4Readers : place'[r] = place[r]
    BY <2>1 DEF PlayerSh4!SelectProgram
  <2>3. CASE UNCHANGED <<seek, history>>
    BY <2>2, <2>3, <1>f
  <2>4. CASE ~UNCHANGED <<seek, history>>
    <3>1. /\ ~seek'.abs /\ seek'.rel = "app" /\ history'.newest = "rel"
          /\ history'.newest \in {"none", "rel", "abs"}
          /\ history'.lostSeek = (history.lostSeek \/ PlayerSh4!Overwrites("rel"))
      BY <2>1, <2>4, <1>b DEF PlayerSh4!SelectProgram, SeekTyped
    <3>2. \A r \in Sh4Readers : place[r] \in {"rel", "back"} => history'.lostSeek
      BY <3>1 DEF PlayerSh4!Overwrites
    <3> QED BY <1>e, <2>2, <3>1, <3>2
  <2> QED BY <2>3, <2>4
<1>10. CASE PlayerSh4!Opened
  <2>1. \A r \in Sh4Readers : place'[r] = place[r]
    BY <1>10, <1>b, <1>c DEF PlayerSh4!Opened, PlayerSh4!GivesUp, PlayerSh4!InputInit, PlayerSh4!Goes, PlayerSh4!At, PcTyped, PlayerSh4!Procs, PlayerSh4!App
  <2>2. CASE /\ UNCHANGED seek /\ history'.newest = history.newest /\ history'.lostSeek = history.lostSeek
             /\ history.leftover => history'.leftover
    BY <2>1, <2>2, <1>f
  <2>3. CASE PlayerSh4!InputSeek(FALSE)
    BY <2>1, <2>3, <1>g
  <2> QED BY <1>10, <1>b, <2>2, <2>3 DEF PlayerSh4!Opened, PlayerSh4!GivesUp, PlayerSh4!InputInit, SeekTyped
<1>11. CASE PlayerSh4!Play
  <2>1. /\ UNCHANGED seek /\ history'.newest = history.newest /\ history'.lostSeek = history.lostSeek
        /\ history.leftover => history'.leftover
    BY <1>11, <1>b DEF PlayerSh4!Play, SeekTyped
  <2>2. \A r \in Sh4Readers : /\ place'[r] = place[r] \/ (place[r] \notin {"rel", "abs"} /\ place'[r] \notin {"rel", "abs", "back"})
    BY <1>11, <1>b, <1>c DEF PlayerSh4!Play, PlayerSh4!Goes, PlayerSh4!At, PcTyped, PlayerSh4!Procs, PlayerSh4!App
  <2> QED BY <2>1, <2>2, <1>f
<1>12. CASE PlayerSh4!Pause
  <2>1. /\ UNCHANGED seek /\ history'.newest = history.newest /\ history'.lostSeek = history.lostSeek
        /\ history.leftover => history'.leftover
    BY <1>12, <1>b DEF PlayerSh4!Pause, SeekTyped
  <2>2. \A r \in Sh4Readers : /\ place'[r] = place[r] \/ (place[r] \notin {"rel", "abs"} /\ place'[r] \notin {"rel", "abs", "back"})
    BY <1>12, <1>b, <1>c DEF PlayerSh4!Pause, PlayerSh4!Goes, PlayerSh4!At, PcTyped, PlayerSh4!Procs, PlayerSh4!App
  <2> QED BY <2>1, <2>2, <1>f
<1>13. CASE PlayerSh4!Speed
  <2>1. /\ UNCHANGED seek /\ history'.newest = history.newest /\ history'.lostSeek = history.lostSeek
        /\ history.leftover => history'.leftover
    BY <1>13, <1>b DEF PlayerSh4!Speed, SeekTyped
  <2>2. \A r \in Sh4Readers : /\ place'[r] = place[r] \/ (place[r] \notin {"rel", "abs"} /\ place'[r] \notin {"rel", "abs", "back"})
    BY <1>13, <1>b, <1>c DEF PlayerSh4!Speed, PlayerSh4!Goes, PlayerSh4!At, PcTyped, PlayerSh4!Procs, PlayerSh4!App
  <2> QED BY <2>1, <2>2, <1>f
<1>14. CASE PlayerSh4!InitJump
  <2>1. \A r \in Sh4Readers : place'[r] = place[r] \/ (place[r] \notin {"rel", "abs"} /\ place'[r] \notin {"rel", "abs", "back"})
    BY <1>14, <1>b, <1>c DEF PlayerSh4!InitJump, PlayerSh4!Goes, PlayerSh4!At, PcTyped, PlayerSh4!Procs, PlayerSh4!App
  <2>2. CASE UNCHANGED <<seek, history>>
    BY <2>1, <2>2, <1>f
  <2>3. CASE \E absolute \in BOOLEAN : PlayerSh4!InputSeek(absolute)
    <3>1. \A r \in Sh4Readers : place'[r] = place[r]
      BY <1>14, <1>b, <1>c DEF PlayerSh4!InitJump, PlayerSh4!Goes, PlayerSh4!At, PcTyped, PlayerSh4!Procs, PlayerSh4!App
    <3> QED BY <2>3, <3>1, <1>g
  <2> QED BY <1>14, <2>2, <2>3 DEF PlayerSh4!InitJump, PlayerSh4!Seek
<1>15. CASE PlayerSh4!Closed
  <2>1. /\ UNCHANGED seek /\ history'.newest = history.newest /\ history'.lostSeek = history.lostSeek
        /\ history.leftover => history'.leftover
    BY <1>15, <1>b DEF PlayerSh4!Closed, SeekTyped
  <2>2. \A r \in Sh4Readers : /\ place'[r] = place[r] \/ (place[r] \notin {"rel", "abs"} /\ place'[r] \notin {"rel", "abs", "back"})
    BY <1>15, <1>b, <1>c DEF PlayerSh4!Closed, PlayerSh4!Goes, PlayerSh4!At, PcTyped, PlayerSh4!Procs, PlayerSh4!App
  <2> QED BY <2>1, <2>2, <1>f
<1>16. CASE \E p \in PlayerSh4!Procs : PlayerSh4!StopTest(p)
  <2>1. /\ UNCHANGED seek /\ history'.newest = history.newest /\ history'.lostSeek = history.lostSeek
        /\ history.leftover => history'.leftover
    BY <1>16, <1>b DEF PlayerSh4!StopTest, SeekTyped
  <2>2. \A r \in Sh4Readers : /\ place'[r] = place[r] \/ (place[r] \notin {"rel", "abs"} /\ place'[r] \notin {"rel", "abs", "back"})
    BY <1>16, <1>b, <1>c DEF PlayerSh4!StopTest, PlayerSh4!Goes, PlayerSh4!At, PcTyped, PlayerSh4!Procs, PlayerSh4!App
  <2> QED BY <2>1, <2>2, <1>f
<1>17. CASE \E p \in PlayerSh4!Procs : PlayerSh4!StopFlags(p)
  <2>1. /\ UNCHANGED seek /\ history'.newest = history.newest /\ history'.lostSeek = history.lostSeek
        /\ history.leftover => history'.leftover
    BY <1>17, <1>b DEF PlayerSh4!StopFlags, SeekTyped
  <2>2. \A r \in Sh4Readers : /\ place'[r] = place[r] \/ (place[r] \notin {"rel", "abs"} /\ place'[r] \notin {"rel", "abs", "back"})
    BY <1>17, <1>b, <1>c DEF PlayerSh4!StopFlags, PlayerSh4!Goes, PlayerSh4!At, PcTyped, PlayerSh4!Procs, PlayerSh4!App
  <2> QED BY <2>1, <2>2, <1>f
<1>18. CASE \E p \in PlayerSh4!Procs : PlayerSh4!StopOutput(p)
  <2>1. /\ UNCHANGED seek /\ history'.newest = history.newest /\ history'.lostSeek = history.lostSeek
        /\ history.leftover => history'.leftover
    BY <1>18, <1>b DEF PlayerSh4!StopOutput, SeekTyped
  <2>2. \A r \in Sh4Readers : /\ place'[r] = place[r] \/ (place[r] \notin {"rel", "abs"} /\ place'[r] \notin {"rel", "abs", "back"})
    BY <1>18, <1>b, <1>c DEF PlayerSh4!StopOutput, PlayerSh4!Goes, PlayerSh4!At, PcTyped, PlayerSh4!Procs, PlayerSh4!App
  <2> QED BY <2>1, <2>2, <1>f
<1>19. CASE \E p \in PlayerSh4!Procs : PlayerSh4!StopWait(p)
  <2>1. /\ UNCHANGED seek /\ history'.newest = history.newest /\ history'.lostSeek = history.lostSeek
        /\ history.leftover => history'.leftover
    BY <1>19, <1>b DEF PlayerSh4!StopWait, SeekTyped
  <2>2. \A r \in Sh4Readers : /\ place'[r] = place[r] \/ (place[r] \notin {"rel", "abs"} /\ place'[r] \notin {"rel", "abs", "back"})
    BY <1>19, <1>b, <1>c DEF PlayerSh4!StopWait, PlayerSh4!Goes, PlayerSh4!At, PcTyped, PlayerSh4!Procs, PlayerSh4!App
  <2> QED BY <2>1, <2>2, <1>f
<1>20. CASE \E p \in PlayerSh4!Procs : PlayerSh4!StopFree(p)
  <2>1. /\ UNCHANGED seek /\ history'.newest = history.newest /\ history'.lostSeek = history.lostSeek
        /\ history.leftover => history'.leftover
    BY <1>20, <1>b DEF PlayerSh4!StopFree, SeekTyped
  <2>2. \A r \in Sh4Readers : /\ place'[r] = place[r] \/ (place[r] \notin {"rel", "abs"} /\ place'[r] \notin {"rel", "abs", "back"})
    BY <1>20, <1>b, <1>c DEF PlayerSh4!StopFree, PlayerSh4!Goes, PlayerSh4!At, PcTyped, PlayerSh4!Procs, PlayerSh4!App
  <2> QED BY <2>1, <2>2, <1>f
<1>21. CASE \E p \in PlayerSh4!Procs : PlayerSh4!StopJoin(p)
  <2>1. /\ UNCHANGED seek /\ history'.newest = history.newest /\ history'.lostSeek = history.lostSeek
        /\ history.leftover => history'.leftover
    BY <1>21, <1>b DEF PlayerSh4!StopJoin, SeekTyped
  <2>2. \A r \in Sh4Readers : /\ place'[r] = place[r] \/ (place[r] \notin {"rel", "abs"} /\ place'[r] \notin {"rel", "abs", "back"})
    BY <1>21, <1>b, <1>c DEF PlayerSh4!StopJoin, PlayerSh4!Goes, PlayerSh4!At, PcTyped, PlayerSh4!Procs, PlayerSh4!App
  <2> QED BY <2>1, <2>2, <1>f
<1>22. CASE \E r \in Sh4Readers : PlayerSh4!Enter(r)
  <2>1. /\ UNCHANGED seek /\ history'.newest = history.newest /\ history'.lostSeek = history.lostSeek
        /\ history.leftover => history'.leftover
    BY <1>22, <1>b DEF PlayerSh4!Enter, SeekTyped
  <2>2. \A r \in Sh4Readers : /\ place'[r] = place[r] \/ (place[r] \notin {"rel", "abs"} /\ place'[r] \notin {"rel", "abs", "back"})
    BY <1>22, <1>b, <1>c DEF PlayerSh4!Enter, PlayerSh4!Goes, PlayerSh4!At, PcTyped, PlayerSh4!Procs, PlayerSh4!App
  <2> QED BY <2>1, <2>2, <1>f
<1>23. CASE \E r \in Sh4Readers : PlayerSh4!Loop(r)
  <2>1. PICK r \in Sh4Readers : PlayerSh4!Loop(r)
    BY <1>23
  <2>2. place[r] # "none" /\ \A s \in Sh4Readers : s # r => place[s] = "none" /\ place'[s] = "none"
    BY <2>1, <1>a, <1>b, <1>c DEF PlayerSh4!Loop, OneReader, PlayerSh4!At, PlayerSh4!Goes, PcTyped, PlayerSh4!Procs, PlayerSh4!App, PlayerSh4!Kinds
  <2>4. /\ place[r] = "loop" /\ seek'.rel = seek.rel /\ seek'.abs = seek.abs
        /\ history'.lostSeek = history.lostSeek /\ history'.leftover = history.leftover
        /\ \/ place'[r] \in {"leave", "read"} /\ history'.newest = history.newest
           \/ place'[r] = "rel" /\ seek.rel = "app" /\ history'.newest = "none"
           \/ place'[r] = "rel" /\ seek.rel = "back" /\ history'.newest = history.newest
           \/ place'[r] = "abs" /\ seek.rel = "none" /\ seek.abs /\ history'.newest = "none"
           \/ place'[r] = "back" /\ seek.rel = "none" /\ ~seek.abs /\ history'.newest = history.newest
    BY <2>1, <1>b DEF PlayerSh4!Loop, PlayerSh4!At, PlayerSh4!Goes, PcTyped, SeekTyped, PlayerSh4!Procs
  <2>5. ~history.lostSeek /\ ~history.leftover =>
          /\ history.newest = "rel" => seek.rel = "app" /\ ~seek.abs
          /\ history.newest = "abs" => seek.abs /\ seek.rel # "app"
          /\ history.newest = "none" => seek.rel # "app" /\ ~seek.abs
    BY <1>d, <2>2, <2>4 DEF PlayerSh4!At
  <2> QED BY <1>b, <1>e, <2>2, <2>4, <2>5 DEF SeekTyped
<1>24. CASE \E r \in Sh4Readers : PlayerSh4!JumpBack(r)
  <2>1. PICK r \in Sh4Readers : PlayerSh4!JumpBack(r)
    BY <1>24
  <2>2. place[r] # "none" /\ \A s \in Sh4Readers : s # r => place[s] = "none" /\ place'[s] = "none"
    BY <2>1, <1>a, <1>b, <1>c DEF PlayerSh4!JumpBack, OneReader, PlayerSh4!At, PlayerSh4!Goes, PcTyped, PlayerSh4!Procs, PlayerSh4!App, PlayerSh4!Kinds
  <2>3. /\ place[r] = "back" /\ place'[r] = "loop" /\ UNCHANGED history
        /\ seek'.abs = seek.abs /\ (seek'.rel = seek.rel \/ seek'.rel = "back")
    BY <2>1, <1>b DEF PlayerSh4!JumpBack, PlayerSh4!At, PlayerSh4!Goes, PcTyped, SeekTyped, PlayerSh4!Procs
  <2>4. history.newest \in {"none", "rel", "abs"} /\ seek.rel \in {"none", "app", "back"}
    BY <1>b DEF SeekTyped
  <2>5. ~history.lostSeek /\ ~history.leftover =>
          /\ history.newest = "rel" => FALSE
          /\ history.newest = "abs" => seek.abs /\ seek.rel # "app"
          /\ history.newest = "none" => seek.rel # "app" /\ ~seek.abs
    BY <1>d, <2>2, <2>3 DEF PlayerSh4!At
  <2> QED BY <1>e, <2>2, <2>3, <2>4, <2>5
<1>25. CASE \E r \in Sh4Readers : PlayerSh4!SeekFile(r)
  <2>1. PICK r \in Sh4Readers : PlayerSh4!SeekFile(r)
    BY <1>25
  <2>2. place[r] # "none" /\ \A s \in Sh4Readers : s # r => place[s] = "none" /\ place'[s] = "none"
    BY <2>1, <1>a, <1>b, <1>c DEF PlayerSh4!SeekFile, OneReader, PlayerSh4!At, PlayerSh4!Goes, PcTyped, PlayerSh4!Procs, PlayerSh4!App, PlayerSh4!Kinds
  <2>3. /\ place'[r] = "read" /\ UNCHANGED history
        /\ \/ place[r] = "rel" /\ seek'.rel = "none" /\ seek'.abs = seek.abs
           \/ place[r] = "abs" /\ ~seek'.abs /\ seek'.rel = seek.rel
    BY <2>1, <1>b DEF PlayerSh4!SeekFile, PlayerSh4!Reset, PlayerSh4!At, PlayerSh4!Goes, PcTyped, SeekTyped, PlayerSh4!Procs
  <2>4. history.newest \in {"none", "rel", "abs"} /\ seek.rel \in {"none", "app", "back"}
    BY <1>b DEF SeekTyped
  <2>5. ~history.lostSeek /\ ~history.leftover =>
          /\ history.newest = "rel" => seek.rel = "app" /\ place[r] = "abs" /\ ~seek'.abs
          /\ history.newest = "abs" => seek.abs /\ place[r] = "rel"
          /\ history.newest = "none" => (seek.rel = "app" => place[r] = "rel") /\ (seek.abs => place[r] = "abs")
    BY <1>d, <2>2, <2>3 DEF PlayerSh4!At
  <2> QED BY <1>e, <2>2, <2>3, <2>4, <2>5
<1>26. CASE \E r \in Sh4Readers : PlayerSh4!ReadFrame(r)
  <2>1. /\ UNCHANGED seek /\ history'.newest = history.newest /\ history'.lostSeek = history.lostSeek
        /\ history.leftover => history'.leftover
    BY <1>26, <1>b DEF PlayerSh4!ReadFrame, SeekTyped
  <2>2. \A r \in Sh4Readers : /\ place'[r] = place[r] \/ (place[r] \notin {"rel", "abs"} /\ place'[r] \notin {"rel", "abs", "back"})
    BY <1>26, <1>b, <1>c DEF PlayerSh4!ReadFrame, PlayerSh4!Goes, PlayerSh4!At, PcTyped, PlayerSh4!Procs, PlayerSh4!App
  <2> QED BY <2>1, <2>2, <1>f
<1>27. CASE \E r \in Sh4Readers : PlayerSh4!Lock(r)
  <2>1. /\ UNCHANGED seek /\ history'.newest = history.newest /\ history'.lostSeek = history.lostSeek
        /\ history.leftover => history'.leftover
    BY <1>27, <1>b DEF PlayerSh4!Lock, SeekTyped
  <2>2. \A r \in Sh4Readers : /\ place'[r] = place[r] \/ (place[r] \notin {"rel", "abs"} /\ place'[r] \notin {"rel", "abs", "back"})
    BY <1>27, <1>b, <1>c DEF PlayerSh4!Lock, PlayerSh4!Goes, PlayerSh4!At, PcTyped, PlayerSh4!Procs, PlayerSh4!App
  <2> QED BY <2>1, <2>2, <1>f
<1>28. CASE \E r \in Sh4Readers : PlayerSh4!Write(r)
  <2>1. /\ UNCHANGED seek /\ history'.newest = history.newest /\ history'.lostSeek = history.lostSeek
        /\ history.leftover => history'.leftover
    BY <1>28, <1>b DEF PlayerSh4!Write, SeekTyped, PlayerSh4!Kinds
  <2>2. \A r \in Sh4Readers : /\ place'[r] = place[r] \/ (place[r] \notin {"rel", "abs"} /\ place'[r] \notin {"rel", "abs", "back"})
    BY <1>28, <1>b, <1>c DEF PlayerSh4!Write, PlayerSh4!Goes, PlayerSh4!At, PcTyped, PlayerSh4!Procs, PlayerSh4!App, PlayerSh4!Kinds
  <2> QED BY <2>1, <2>2, <1>f
<1>29. CASE \E r \in Sh4Readers : PlayerSh4!Leave(r)
  <2>1. /\ seek'.rel = seek.rel /\ seek'.abs = seek.abs /\ UNCHANGED history
    BY <1>29, <1>b DEF PlayerSh4!Leave, SeekTyped
  <2>2. \A r \in Sh4Readers : /\ place'[r] = place[r] \/ (place[r] \notin {"rel", "abs"} /\ place'[r] \notin {"rel", "abs", "back"})
    BY <1>29, <1>b, <1>c DEF PlayerSh4!Leave, PlayerSh4!Goes, PlayerSh4!At, PcTyped, PlayerSh4!Procs, PlayerSh4!App
  <2> QED BY <1>b, <1>d, <1>e, <2>1, <2>2 DEF SeekTyped, PlayerSh4!At
<1>30. CASE PlayerSh4!RequestAbort
  <2>1. /\ UNCHANGED seek /\ history'.newest = history.newest /\ history'.lostSeek = history.lostSeek
        /\ history.leftover => history'.leftover
    BY <1>30, <1>b DEF PlayerSh4!RequestAbort, SeekTyped
  <2>2. \A r \in Sh4Readers : /\ place'[r] = place[r] \/ (place[r] \notin {"rel", "abs"} /\ place'[r] \notin {"rel", "abs", "back"})
    BY <1>30, <1>b, <1>c DEF PlayerSh4!RequestAbort, PlayerSh4!Goes, PlayerSh4!At, PcTyped, PlayerSh4!Procs, PlayerSh4!App
  <2> QED BY <2>1, <2>2, <1>f
<1>31. CASE PlayerSh4!AbortEnds
  <2>1. /\ UNCHANGED seek /\ history'.newest = history.newest /\ history'.lostSeek = history.lostSeek
        /\ history.leftover => history'.leftover
    BY <1>31, <1>b DEF PlayerSh4!AbortEnds, SeekTyped
  <2>2. \A r \in Sh4Readers : /\ place'[r] = place[r] \/ (place[r] \notin {"rel", "abs"} /\ place'[r] \notin {"rel", "abs", "back"})
    BY <1>31, <1>b, <1>c DEF PlayerSh4!AbortEnds, PlayerSh4!Goes, PlayerSh4!At, PcTyped, PlayerSh4!Procs, PlayerSh4!App
  <2> QED BY <2>1, <2>2, <1>f
<1>32. CASE PlayerSh4!GetAVFormatContext
  <2>1. /\ UNCHANGED seek /\ history'.newest = history.newest /\ history'.lostSeek = history.lostSeek
        /\ history.leftover => history'.leftover
    BY <1>32, <1>b DEF PlayerSh4!GetAVFormatContext, SeekTyped
  <2>2. \A r \in Sh4Readers : /\ place'[r] = place[r] \/ (place[r] \notin {"rel", "abs"} /\ place'[r] \notin {"rel", "abs", "back"})
    BY <1>32, <1>b, <1>c DEF PlayerSh4!GetAVFormatContext, PlayerSh4!Goes, PlayerSh4!At, PcTyped, PlayerSh4!Procs, PlayerSh4!App
  <2> QED BY <2>1, <2>2, <1>f
<1>33. CASE PlayerSh4!ReleaseAVFormatContext
  <2>1. /\ UNCHANGED seek /\ history'.newest = history.newest /\ history'.lostSeek = history.lostSeek
        /\ history.leftover => history'.leftover
    BY <1>33, <1>b DEF PlayerSh4!ReleaseAVFormatContext, SeekTyped
  <2>2. \A r \in Sh4Readers : /\ place'[r] = place[r] \/ (place[r] \notin {"rel", "abs"} /\ place'[r] \notin {"rel", "abs", "back"})
    BY <1>33, <1>b, <1>c DEF PlayerSh4!ReleaseAVFormatContext, PlayerSh4!Goes, PlayerSh4!At, PcTyped, PlayerSh4!Procs, PlayerSh4!App
  <2> QED BY <2>1, <2>2, <1>f
<1> QED BY NextCases, <1>1, <1>2, <1>3, <1>4, <1>5, <1>6, <1>7, <1>8, <1>9, <1>10, <1>11, <1>12, <1>13, <1>14, <1>15, <1>16, <1>17, <1>18, <1>19, <1>20, <1>21, <1>22, <1>23, <1>24, <1>25, <1>26, <1>27, <1>28, <1>29, <1>30, <1>31, <1>32, <1>33

LEMMA OrderFacts ==
  ASSUME Typed, PlayerSh4!Assumptions, PlayerOrder, PlayerSh4!Next
  PROVE  ~history.overtaken /\ OneReader /\ CallsInOrder /\ PlaysOnce /\ OpenWhileUsed
BY NextCases DEF PlayerOrder

\* Steps that leave the playback, its file and its thread as they are.
Kept ==
  /\ mode'.isPlaying = mode.isPlaying /\ UNCHANGED <<avfc, codecs, readerOf>>
  /\ cp'.up = cp.up /\ cp'.ts = cp.ts /\ cp'.decoders_closed = cp.decoders_closed /\ cp'.started = cp.started
  /\ threads'.hasPlayThreadStarted = threads.hasPlayThreadStarted
  /\ threads'.abortPlayback = threads.abortPlayback
  /\ history'.kept = history.kept /\ history'.overtaken = history.overtaken

AppGoesOn ==
  place'[PlayerSh4!App] = place[PlayerSh4!App] \/ (cp.up /\ {place[PlayerSh4!App], place'[PlayerSh4!App]} \subseteq {"idle", "speed", "pause", "paused", "jump"})

ReaderGoesOn(r) ==
  \/ place'[r] = place[r]
  \/ place[r] \in Reading /\ place'[r] \in {"loop", "back", "leave"}
  \/ place[r] \in Reading /\ place'[r] \in {"rel", "abs", "read", "forVideo", "forAudio", "video", "audio"}
       /\ (mode.isPlaying \/ PlayerSh4!Uses(r))

LEMMA KeptKeepsOrder ==
  ASSUME OneReader, CallsInOrder, PlaysOnce, OpenWhileUsed,
         Kept, AppGoesOn, \A r \in Sh4Readers : ReaderGoesOn(r)
  PROVE  OneReader' /\ CallsInOrder' /\ PlaysOnce' /\ OpenWhileUsed'
<1>1. /\ \A r \in Sh4Readers : place'[r] # "none" <=> place[r] # "none"
      /\ \A r \in Sh4Readers : place'[r] \in Reading => place[r] \in Reading
      /\ \A r \in Sh4Readers : place'[r] = place[r] \/ place'[r] \in Reading
  BY DEF ReaderGoesOn, Reading, PlayerSh4!Kinds
<1>2. Unplayed' <=> Unplayed
  BY DEF Kept, AppGoesOn, Unplayed, PlayerSh4!App
<1>3. OneReader'
  BY <1>1, <1>2 DEF OneReader, Kept
<1>4. CallsInOrder'
  BY DEF CallsInOrder, Kept, AppGoesOn, StoppingLabels, PlayerSh4!At
<1>5. \A p \in PlayerSh4!Procs : place'[p] \in Ending <=> place[p] \in Ending
  BY <1>1, SMT DEF PlayerSh4!Procs, AppGoesOn, ReaderGoesOn, Ending, Reading, PlayerSh4!Kinds
<1>6. PlaysOnce'
  BY <1>2, <1>5 DEF PlaysOnce, Kept, AppGoesOn, PlayerSh4!At
<1>7. \A p \in PlayerSh4!Procs : place'[p] = "free" => place[p] = "free"
  BY <1>1, SMT DEF PlayerSh4!Procs, AppGoesOn, Reading, PlayerSh4!Kinds
<1>8. \A r \in Sh4Readers : PlayerSh4!Uses(r)' => PlayerSh4!Uses(r) \/ mode.isPlaying
  BY DEF ReaderGoesOn, PlayerSh4!Uses, PlayerSh4!Kinds
<1>9. \A p \in PlayerSh4!Procs : place[p] = "free" => ~mode.isPlaying
  BY DEF PlaysOnce, Ending
<1>10. Ready' => Ready
  BY DEF Ready, Kept, AppGoesOn, PlayerSh4!At
<1>11. (OwnCodecs' <=> OwnCodecs) /\ (NoCodecs' <=> NoCodecs)
  BY DEF Kept, OwnCodecs, NoCodecs
<1>12. OpenWhileUsed'
  BY <1>5, <1>7, <1>8, <1>9, <1>10, <1>11 DEF OpenWhileUsed, Kept, PlayerSh4!At, AppGoesOn
<1> QED BY <1>3, <1>4, <1>6, <1>12


\* A step of the stopping, by the application or by the reader.
LEMMA StopMoves ==
  ASSUME PcTyped, PlayerSh4!App \notin Sh4Readers, OneReader, CallsInOrder, NEW p \in PlayerSh4!Procs,
         place[p] \in StoppingLabels, place'[p] \in StoppingLabels \cup {IF p = PlayerSh4!App THEN "close" ELSE "none"},
         \A q \in PlayerSh4!Procs : q # p => place'[q] = place[q],
         UNCHANGED <<readerOf, cp>>, avfc'.no = avfc.no, avfc' = avfc \/ avfc'.is = "none",
         threads'.hasPlayThreadStarted = threads.hasPlayThreadStarted
  PROVE  OneReader' /\ CallsInOrder'
<1>1. CASE p = PlayerSh4!App
  <2>1. \A r \in Sh4Readers : place'[r] = place[r]
    BY <1>1 DEF PlayerSh4!Procs
  <2>2. place'[PlayerSh4!App] \in StoppingLabels \cup {"close"} /\ ~cp.up
    BY <1>1 DEF CallsInOrder
  <2>3. ~Unplayed'
    BY <2>2 DEF Unplayed, StoppingLabels
  <2>4. OneReader'
    BY <2>1, <2>3 DEF OneReader
  <2>5. CallsInOrder'
    BY <1>1, <2>2 DEF CallsInOrder, StoppingLabels, PlayerSh4!At
  <2> QED BY <2>4, <2>5
<1>2. CASE p # PlayerSh4!App
  <2>1. p \in Sh4Readers /\ place'[PlayerSh4!App] = place[PlayerSh4!App]
    BY <1>2 DEF PlayerSh4!Procs
  <2>2. place[p] # "none"
    BY DEF StoppingLabels
  <2>3. ~Unplayed /\ place[PlayerSh4!App] # "opening"
    BY <2>1, <2>2 DEF OneReader, Unplayed
  <2>4. Unplayed' => Unplayed
    BY <2>1 DEF Unplayed
  <2>5. \A r \in Sh4Readers : /\ place'[r] # "none" => place[r] # "none"
                              /\ place'[r] \in Reading => place[r] \in Reading
    BY <1>2, <2>1, <2>2 DEF PlayerSh4!Procs, StoppingLabels, Reading, PlayerSh4!Kinds
  <2>6. OneReader'
    BY <2>3, <2>4, <2>5 DEF OneReader
  <2>7. CallsInOrder'
    BY <2>1, <2>3 DEF CallsInOrder, PlayerSh4!At
  <2> QED BY <2>6, <2>7
<1> QED BY <1>1, <1>2

LEMMA OrderStep ==
  ASSUME Typed, PlayerSh4!Assumptions, PlayerOrder, SoundInv, PlayerSh4!Next, ~history'.overtaken
  PROVE  OneReader' /\ CallsInOrder' /\ PlaysOnce' /\ OpenWhileUsed'
<1>a. ~history.overtaken /\ OneReader /\ CallsInOrder /\ PlaysOnce /\ OpenWhileUsed
  BY OrderFacts
<1>b. PcTyped /\ CpTyped /\ FileTyped /\ MarksTyped /\ SeekTyped /\ FlagsShape(mode)
  BY DEF Typed
<1>c. PlayerSh4!App \notin Sh4Readers /\ PlayerSh4!App = "app"
  BY DEF PlayerSh4!Assumptions, PlayerSh4!App
<1>d. Kept /\ AppGoesOn /\ (\A r \in Sh4Readers : ReaderGoesOn(r))
        => OneReader' /\ CallsInOrder' /\ PlaysOnce' /\ OpenWhileUsed'
  BY <1>a, KeptKeepsOrder
<1>1. CASE \E f \in Files, ts \in BOOLEAN : PlayerSh4!At(PlayerSh4!App, "idle") /\ PlayerSh4!Start(f, ts)
  <2>1. PICK f \in Files, ts \in BOOLEAN : PlayerSh4!Start(f, ts)
    BY <1>1
  <2> DEFINE o == history.overtaken \/ \E r \in Sh4Readers : place[r] # "none"
             l == history.leftover \/ seek.rel = "app" \/ seek.abs
  <2>2. history' = [history EXCEPT !.overtaken = o, !.leftover = l]
    BY <2>1 DEF PlayerSh4!Start
  <2>3. history'.overtaken = o /\ history'.kept = history.kept
    <3> HIDE DEF o, l
    <3> QED BY <2>2, <1>b DEF SeekTyped
  <2>4. \A r \in Sh4Readers : place[r] = "none"
    BY <2>3
  <2> HIDE DEF o, l
  <2>5. \A r \in Sh4Readers : place'[r] = "none"
    BY <2>1, <2>4, <1>b, <1>c DEF PlayerSh4!Start, PlayerSh4!Goes, PcTyped, PlayerSh4!Procs
  <2>6. place[PlayerSh4!App] = "idle" /\ place'[PlayerSh4!App] = "opening" /\ ~cp.up
    BY <2>1, <1>b DEF PlayerSh4!Start, PlayerSh4!At, PlayerSh4!Goes, PcTyped, PlayerSh4!Procs
  <2>11. cp'.ts = ts /\ cp'.decoders_closed = ~ts /\ cp'.up /\ ~cp'.started
    BY <2>1, <1>b DEF PlayerSh4!Start, CpTyped
  <2>12. cp'.ts \/ cp'.decoders_closed
    BY <2>11
  <2>13. /\ ~threads'.abortPlayback /\ threads'.hasPlayThreadStarted = threads.hasPlayThreadStarted
         /\ avfc'.is = "opening" /\ UNCHANGED <<mode, codecs, readerOf>>
    BY <2>1, <1>b DEF PlayerSh4!Start, MarksTyped
  <2>7. OneReader'
    BY <1>a, <1>b, <1>c, <2>3, <2>4, <2>5, <2>6, <2>11, <2>12, <2>13 DEF OneReader, Unplayed, Reading, PlayerSh4!Kinds, CallsInOrder
  <2>8. CallsInOrder'
    BY <1>a, <1>b, <1>c, <2>3, <2>4, <2>5, <2>6, <2>11, <2>12, <2>13 DEF CallsInOrder, StoppingLabels, PlayerSh4!At
  <2>9. PlaysOnce'
    BY <1>a, <1>b, <1>c, <2>3, <2>4, <2>5, <2>6, <2>11, <2>12, <2>13 DEF PlaysOnce, Unplayed, CallsInOrder, Ending, PlayerSh4!At, PlayerSh4!Procs
  <2>10. OpenWhileUsed'
    BY <1>a, <1>b, <1>c, <2>3, <2>4, <2>5, <2>6, <2>11, <2>12, <2>13 DEF OpenWhileUsed, PlaysOnce, OneReader, Unplayed, CallsInOrder, Ending, StoppingLabels, PlayerSh4!Uses, Ready, OwnCodecs, NoCodecs, PlayerSh4!At, PlayerSh4!Procs, PlayerSh4!Kinds, Reading
  <2> QED BY <2>7, <2>8, <2>9, <2>10
<1>2. CASE PlayerSh4!At(PlayerSh4!App, "idle") /\ cp.up /\ PlayerSh4!Close
  <2>1. /\ place[PlayerSh4!App] = "idle" /\ place'[PlayerSh4!App] = "test" /\ cp.up /\ ~cp'.up /\ cp'.decoders_closed = cp.decoders_closed /\ cp'.started = cp.started
        /\ UNCHANGED <<mode, threads, avfc, codecs, readerOf>>
        /\ history.kept => history'.kept
        /\ ~mode.isPlaying /\ avfc.is = "open" => history'.kept
    BY <1>2, <1>b DEF PlayerSh4!Close, PlayerSh4!At, PlayerSh4!Goes, PcTyped, CpTyped, FileTyped, MarksTyped, SeekTyped, FlagsShape, PlayerSh4!Procs
  <2>2. \A r \in Sh4Readers : place'[r] = place[r]
    BY <1>2, <1>b, <1>c DEF PlayerSh4!Close, PlayerSh4!At, PlayerSh4!Goes, PcTyped, CpTyped, FileTyped, MarksTyped, SeekTyped, FlagsShape, PlayerSh4!Procs
  <2>3. avfc.is \in {"none", "opening", "open"}
    BY <1>b DEF FileTyped
  <2>7. OneReader'
    BY <1>a, <1>b, <1>c, <2>1, <2>2, <2>3 DEF OneReader, Unplayed, Reading, PlayerSh4!Kinds, CallsInOrder
  <2>8. CallsInOrder'
    BY <1>a, <1>b, <1>c, <2>1, <2>2, <2>3 DEF CallsInOrder, StoppingLabels, PlayerSh4!At
  <2>9. PlaysOnce'
    BY <1>a, <1>b, <1>c, <2>1, <2>2, <2>3 DEF PlaysOnce, Unplayed, CallsInOrder, Ending, PlayerSh4!At, PlayerSh4!Procs
  <2>10. OpenWhileUsed'
    BY <1>a, <1>b, <1>c, <2>1, <2>2, <2>3 DEF OpenWhileUsed, PlaysOnce, OneReader, Unplayed, CallsInOrder, Ending, StoppingLabels, PlayerSh4!Uses, Ready, OwnCodecs, NoCodecs, PlayerSh4!At, PlayerSh4!Procs, PlayerSh4!Kinds, Reading
  <2> QED BY <2>7, <2>8, <2>9, <2>10
<1>3. CASE \E s \in {-2, 0, 1, 2} : PlayerSh4!At(PlayerSh4!App, "idle") /\ cp.up /\ cp.started /\ PlayerSh4!SetSpeed(s)
  <2>1. /\ place[PlayerSh4!App] = "idle" /\ cp.up /\ cp'.up /\ cp.started /\ cp'.started /\ cp'.decoders_closed
        /\ place'[PlayerSh4!App] = (IF cp.decoders_closed THEN "speed" ELSE "play")
        /\ UNCHANGED <<mode, threads, avfc, codecs, readerOf, history>>
    BY <1>3, <1>b DEF PlayerSh4!SetSpeed, PlayerSh4!At, PlayerSh4!Goes, PcTyped, CpTyped, FileTyped, MarksTyped, SeekTyped, FlagsShape, PlayerSh4!Procs
  <2>2. \A r \in Sh4Readers : place'[r] = place[r]
    BY <1>3, <1>b, <1>c DEF PlayerSh4!SetSpeed, PlayerSh4!At, PlayerSh4!Goes, PcTyped, CpTyped, FileTyped, MarksTyped, SeekTyped, FlagsShape, PlayerSh4!Procs
  <2>7. OneReader'
    BY <1>a, <1>b, <1>c, <2>1, <2>2 DEF OneReader, Unplayed, Reading, PlayerSh4!Kinds, CallsInOrder
  <2>8. CallsInOrder'
    BY <1>a, <1>b, <1>c, <2>1, <2>2 DEF CallsInOrder, StoppingLabels, PlayerSh4!At
  <2>9. PlaysOnce'
    BY <1>a, <1>b, <1>c, <2>1, <2>2 DEF PlaysOnce, Unplayed, CallsInOrder, Ending, PlayerSh4!At, PlayerSh4!Procs
  <2>10. OpenWhileUsed'
    BY <1>a, <1>b, <1>c, <2>1, <2>2 DEF OpenWhileUsed, PlaysOnce, OneReader, Unplayed, CallsInOrder, Ending, StoppingLabels, PlayerSh4!Uses, Ready, OwnCodecs, NoCodecs, PlayerSh4!At, PlayerSh4!Procs, PlayerSh4!Kinds, Reading
  <2> QED BY <2>7, <2>8, <2>9, <2>10
<1>4. CASE \E absolute \in BOOLEAN : PlayerSh4!At(PlayerSh4!App, "idle") /\ PlayerSh4!SetPosition(absolute)
  <2>1. Kept
    BY <1>4, <1>b DEF PlayerSh4!SetPosition, Kept, CpTyped, FileTyped, MarksTyped, SeekTyped, FlagsShape, PlayerSh4!Seek, PlayerSh4!InputSeek
  <2>2. AppGoesOn
    BY <1>4, <1>a, <1>b, <1>c DEF PlayerSh4!SetPosition, AppGoesOn, CallsInOrder, PlayerSh4!At, PlayerSh4!Goes, PcTyped, PlayerSh4!Procs, PlayerSh4!Seek, PlayerSh4!InputSeek
  <2>3. \A r \in Sh4Readers : place'[r] = place[r]
    BY <1>4, <1>b, <1>c DEF PlayerSh4!SetPosition, PlayerSh4!At, PlayerSh4!Goes, PcTyped, PlayerSh4!Procs, PlayerSh4!Seek, PlayerSh4!InputSeek
  <2> QED BY <1>d, <2>1, <2>2, <2>3 DEF ReaderGoesOn
<1>5. CASE \E pid \in PlayerSh4!Pids(cp.file) : PlayerSh4!At(PlayerSh4!App, "idle") /\ cp.up /\ cp.started /\ PlayerSh4!SetAPid(pid)
  <2>1. Kept
    BY <1>5, <1>b DEF PlayerSh4!SetAPid, Kept, CpTyped, FileTyped, MarksTyped, SeekTyped, FlagsShape
  <2>2. AppGoesOn
    BY <1>5, <1>a, <1>b, <1>c DEF PlayerSh4!SetAPid, AppGoesOn, CallsInOrder, PlayerSh4!At, PlayerSh4!Goes, PcTyped, PlayerSh4!Procs
  <2>3. \A r \in Sh4Readers : place'[r] = place[r]
    BY <1>5, <1>b, <1>c DEF PlayerSh4!SetAPid, PlayerSh4!At, PlayerSh4!Goes, PcTyped, PlayerSh4!Procs
  <2> QED BY <1>d, <2>1, <2>2, <2>3 DEF ReaderGoesOn
<1>6. CASE \E pid \in PlayerSh4!Pids(cp.file) : PlayerSh4!At(PlayerSh4!App, "idle") /\ PlayerSh4!SetVPid(pid)
  <2>1. Kept
    BY <1>6, <1>b DEF PlayerSh4!SetVPid, Kept, CpTyped, FileTyped, MarksTyped, SeekTyped, FlagsShape
  <2>2. AppGoesOn
    BY <1>6, <1>a, <1>b, <1>c DEF PlayerSh4!SetVPid, AppGoesOn, CallsInOrder, PlayerSh4!At, PlayerSh4!Goes, PcTyped, PlayerSh4!Procs
  <2>3. \A r \in Sh4Readers : place'[r] = place[r]
    BY <1>6, <1>b, <1>c DEF PlayerSh4!SetVPid, PlayerSh4!At, PlayerSh4!Goes, PcTyped, PlayerSh4!Procs
  <2> QED BY <1>d, <2>1, <2>2, <2>3 DEF ReaderGoesOn
<1>7. CASE \E pid \in {0} \cup cp.file.subs \cup cp.file.static : PlayerSh4!At(PlayerSh4!App, "idle") /\ PlayerSh4!SetSubtitlePid(pid)
  <2>1. Kept
    BY <1>7, <1>b DEF PlayerSh4!SetSubtitlePid, Kept, CpTyped, FileTyped, MarksTyped, SeekTyped, FlagsShape
  <2>2. AppGoesOn
    BY <1>7, <1>a, <1>b, <1>c DEF PlayerSh4!SetSubtitlePid, AppGoesOn, CallsInOrder, PlayerSh4!At, PlayerSh4!Goes, PcTyped, PlayerSh4!Procs
  <2>3. \A r \in Sh4Readers : place'[r] = place[r]
    BY <1>7, <1>b, <1>c DEF PlayerSh4!SetSubtitlePid, PlayerSh4!At, PlayerSh4!Goes, PcTyped, PlayerSh4!Procs
  <2> QED BY <1>d, <2>1, <2>2, <2>3 DEF ReaderGoesOn
<1>8. CASE PlayerSh4!At(PlayerSh4!App, "idle") /\ cp.up /\ cp.started /\ PlayerSh4!FindAllPids
  <2>1. Kept
    BY <1>8, <1>b DEF PlayerSh4!FindAllPids, Kept, CpTyped, FileTyped, MarksTyped, SeekTyped, FlagsShape
  <2>2. AppGoesOn
    BY <1>8, <1>a, <1>b, <1>c DEF PlayerSh4!FindAllPids, AppGoesOn, CallsInOrder, PlayerSh4!At, PlayerSh4!Goes, PcTyped, PlayerSh4!Procs
  <2>3. \A r \in Sh4Readers : place'[r] = place[r]
    BY <1>8, <1>b, <1>c DEF PlayerSh4!FindAllPids, PlayerSh4!At, PlayerSh4!Goes, PcTyped, PlayerSh4!Procs
  <2> QED BY <1>d, <2>1, <2>2, <2>3 DEF ReaderGoesOn
<1>9. CASE \E p \in DOMAIN cp.file.programs : PlayerSh4!At(PlayerSh4!App, "idle") /\ cp.up /\ cp.started /\ PlayerSh4!SelectProgram(p)
  <2>1. Kept
    BY <1>9, <1>b DEF PlayerSh4!SelectProgram, Kept, CpTyped, FileTyped, MarksTyped, SeekTyped, FlagsShape
  <2>2. AppGoesOn
    BY <1>9, <1>a, <1>b, <1>c DEF PlayerSh4!SelectProgram, AppGoesOn, CallsInOrder, PlayerSh4!At, PlayerSh4!Goes, PcTyped, PlayerSh4!Procs
  <2>3. \A r \in Sh4Readers : place'[r] = place[r]
    BY <1>9, <1>b, <1>c DEF PlayerSh4!SelectProgram, PlayerSh4!At, PlayerSh4!Goes, PcTyped, PlayerSh4!Procs
  <2> QED BY <1>d, <2>1, <2>2, <2>3 DEF ReaderGoesOn
<1>10. CASE PlayerSh4!Opened
  <2>1. place[PlayerSh4!App] = "opening" /\ UNCHANGED <<mode, threads, readerOf>>
    BY <1>10 DEF PlayerSh4!Opened, PlayerSh4!At
  <2> DEFINE Result ==
        /\ place'[PlayerSh4!App] \in {"idle", "play"} /\ cp'.up = cp.up /\ cp'.ts = cp.ts
        /\ cp'.decoders_closed = cp.decoders_closed /\ avfc'.no = avfc.no /\ avfc'.is \in {"none", "open"}
        /\ history.kept => history'.kept
        /\ place'[PlayerSh4!App] = "play" => ~cp.ts
        /\ \A r \in Sh4Readers : place'[r] = place[r]
        /\ place'[PlayerSh4!App] = "play" \/ cp'.started
             => avfc'.is = "open" /\ codecs' = IF codecs = 0 THEN avfc.no ELSE codecs
        /\ avfc'.is = "none" => codecs' = codecs \/ history'.kept
  <2>2. ASSUME NEW outcome \in {"fails", "refused", "noTracks"}, PlayerSh4!GivesUp(outcome) PROVE Result
    <3>1. ~cp.started
      BY <1>a, <2>1 DEF CallsInOrder, PlayerSh4!At
    <3> QED BY <2>2, <3>1, <1>b, <1>c DEF PlayerSh4!GivesUp, PlayerSh4!Goes, PcTyped, FileTyped, SeekTyped, PlayerSh4!Procs
  <2>3. ASSUME PlayerSh4!InputInit PROVE Result
    BY <2>3, <1>b, <1>c DEF PlayerSh4!InputInit, PlayerSh4!InputSeek, PlayerSh4!GetCodecContext, PlayerSh4!Goes, PcTyped, FileTyped, SeekTyped, CpTyped, PlayerSh4!Procs
  <2>4. Result
    <3> HIDE DEF Result
    <3> QED BY <1>10, <2>2, <2>3 DEF PlayerSh4!Opened
  <2>7. OneReader'
    BY <1>a, <1>b, <1>c, <2>1, <2>4 DEF OneReader, Unplayed, Reading, PlayerSh4!Kinds, CallsInOrder
  <2>8. CallsInOrder'
    BY <1>a, <1>b, <1>c, <2>1, <2>4 DEF CallsInOrder, StoppingLabels, PlayerSh4!At
  <2>9. PlaysOnce'
    BY <1>a, <1>b, <1>c, <2>1, <2>4 DEF PlaysOnce, Unplayed, CallsInOrder, Ending, PlayerSh4!At, PlayerSh4!Procs
  <2>10. OpenWhileUsed'
    BY <1>a, <1>b, <1>c, <2>1, <2>4 DEF OpenWhileUsed, PlaysOnce, OneReader, Unplayed, CallsInOrder, Ending, StoppingLabels, PlayerSh4!Uses, Ready, OwnCodecs, NoCodecs, PlayerSh4!At, PlayerSh4!Procs, PlayerSh4!Kinds, Reading
  <2> QED BY <2>7, <2>8, <2>9, <2>10
<1>11. CASE PlayerSh4!Play
  <2>1. /\ place[PlayerSh4!App] = "play" /\ place'[PlayerSh4!App] \in {"speed", "idle", "pause"} /\ cp'.up = cp.up
        /\ cp'.decoders_closed = cp.decoders_closed /\ cp'.started = cp.started /\ cp'.ts = cp.ts
        /\ UNCHANGED <<threads, avfc, codecs>> /\ history'.kept = history.kept
        /\ mode.isPlaying => mode'.isPlaying
    BY <1>11, <1>b, <1>c DEF PlayerSh4!Play, PlayerSh4!Still, PlayerSh4!At, PlayerSh4!Goes, PcTyped, CpTyped, FileTyped, MarksTyped, SeekTyped, FlagsShape, PlayerSh4!Procs
  <2>2. \/ UNCHANGED readerOf /\ \A r \in Sh4Readers : place'[r] = place[r]
        \/ \E r \in Sh4Readers : /\ place[r] = "none" /\ place'[r] = "born" /\ readerOf'[r] = avfc.no
                                 /\ \A s \in Sh4Readers : s # r => place'[s] = place[s]
    BY <1>11, <1>b, <1>c DEF PlayerSh4!Play, PlayerSh4!At, PlayerSh4!Goes, PcTyped, CpTyped, FileTyped, MarksTyped, SeekTyped, FlagsShape, PlayerSh4!Procs
  <2>3. cp.up /\ cp.decoders_closed /\ \A r \in Sh4Readers : place[r] = "none"
    BY <1>a, <2>1 DEF OneReader, Unplayed, CallsInOrder, PlayerSh4!At
  <2>4. ~Unplayed'
    BY <2>1, <2>3 DEF Unplayed
  <2>5. /\ \A r \in Sh4Readers : place'[r] \in {"none", "born"} /\ (place'[r] = "born" => readerOf'[r] = avfc.no)
        /\ \A r, s \in Sh4Readers : place'[r] # "none" /\ place'[s] # "none" => r = s
    BY <2>2, <2>3
  <2>7. OneReader'
    BY <1>a, <1>b, <1>c, <2>1, <2>3, <2>4, <2>5 DEF OneReader, Unplayed, Reading, PlayerSh4!Kinds, CallsInOrder
  <2>8. CallsInOrder'
    BY <1>a, <1>b, <1>c, <2>1, <2>3, <2>4, <2>5 DEF CallsInOrder, StoppingLabels, PlayerSh4!At
  <2>9. PlaysOnce'
    BY <1>a, <1>b, <1>c, <2>1, <2>3, <2>4, <2>5 DEF PlaysOnce, Unplayed, CallsInOrder, Ending, PlayerSh4!At, PlayerSh4!Procs
  <2>10. OpenWhileUsed'
    BY <1>a, <1>b, <1>c, <2>1, <2>3, <2>4, <2>5 DEF OpenWhileUsed, PlaysOnce, OneReader, Unplayed, CallsInOrder, Ending, StoppingLabels, PlayerSh4!Uses, Ready, OwnCodecs, NoCodecs, PlayerSh4!At, PlayerSh4!Procs, PlayerSh4!Kinds, Reading
  <2> QED BY <2>7, <2>8, <2>9, <2>10
<1>12. CASE PlayerSh4!Pause
  <2>1. Kept
    BY <1>12, <1>b DEF PlayerSh4!Pause, Kept, CpTyped, FileTyped, MarksTyped, SeekTyped, FlagsShape
  <2>2. AppGoesOn
    BY <1>12, <1>a, <1>b, <1>c DEF PlayerSh4!Pause, AppGoesOn, CallsInOrder, PlayerSh4!At, PlayerSh4!Goes, PcTyped, PlayerSh4!Procs
  <2>3. \A r \in Sh4Readers : place'[r] = place[r]
    BY <1>12, <1>b, <1>c DEF PlayerSh4!Pause, PlayerSh4!At, PlayerSh4!Goes, PcTyped, PlayerSh4!Procs
  <2> QED BY <1>d, <2>1, <2>2, <2>3 DEF ReaderGoesOn
<1>13. CASE PlayerSh4!Speed
  <2>0. PICK s : /\ Steered(s) /\ mode' = s.flags /\ history' = [history EXCEPT !.heldSound = s.held]
    BY <1>13, <1>a, <1>b, SpeedSteers DEF Typed, SoundInv
  <2>1. Kept
    <3>1. mode'.isPlaying = mode.isPlaying /\ history'.kept = history.kept /\ history'.overtaken = history.overtaken
      BY <2>0, <1>b DEF SeekTyped, Steered
    <3>2. /\ UNCHANGED <<threads, avfc, codecs, readerOf>> /\ cp'.up = cp.up /\ cp'.ts = cp.ts
          /\ cp'.decoders_closed = cp.decoders_closed /\ cp'.started = cp.started
      BY <1>13, <1>b DEF PlayerSh4!Speed, CpTyped
    <3> QED BY <3>1, <3>2 DEF Kept
  <2>2. AppGoesOn
    BY <1>13, <1>a, <1>b, <1>c DEF PlayerSh4!Speed, AppGoesOn, CallsInOrder, PlayerSh4!At, PlayerSh4!Goes, PcTyped, PlayerSh4!Procs
  <2>3. \A r \in Sh4Readers : place'[r] = place[r]
    BY <1>13, <1>b, <1>c DEF PlayerSh4!Speed, PlayerSh4!At, PlayerSh4!Goes, PcTyped, PlayerSh4!Procs
  <2> QED BY <1>d, <2>1, <2>2, <2>3 DEF ReaderGoesOn
<1>14. CASE PlayerSh4!InitJump
  <2>1. Kept
    BY <1>14, <1>b DEF PlayerSh4!InitJump, Kept, CpTyped, FileTyped, MarksTyped, SeekTyped, FlagsShape, PlayerSh4!Seek, PlayerSh4!InputSeek
  <2>2. AppGoesOn
    BY <1>14, <1>a, <1>b, <1>c DEF PlayerSh4!InitJump, AppGoesOn, CallsInOrder, PlayerSh4!At, PlayerSh4!Goes, PcTyped, PlayerSh4!Procs, PlayerSh4!Seek, PlayerSh4!InputSeek
  <2>3. \A r \in Sh4Readers : place'[r] = place[r]
    BY <1>14, <1>b, <1>c DEF PlayerSh4!InitJump, PlayerSh4!At, PlayerSh4!Goes, PcTyped, PlayerSh4!Procs, PlayerSh4!Seek, PlayerSh4!InputSeek
  <2> QED BY <1>d, <2>1, <2>2, <2>3 DEF ReaderGoesOn
<1>15. CASE PlayerSh4!Closed
  <2>1. /\ place[PlayerSh4!App] = "close" /\ place'[PlayerSh4!App] = "idle" /\ cp'.up = cp.up /\ ~cp'.decoders_closed /\ ~cp'.started
        /\ ~mode'.isPlaying /\ UNCHANGED <<threads, avfc, codecs, readerOf, history>>
    BY <1>15, <1>b DEF PlayerSh4!Closed, PlayerSh4!Still, PlayerSh4!At, PlayerSh4!Goes, PcTyped, CpTyped, FileTyped, MarksTyped, SeekTyped, FlagsShape, PlayerSh4!Procs
  <2>2. \A r \in Sh4Readers : place'[r] = place[r]
    BY <1>15, <1>b, <1>c DEF PlayerSh4!Closed, PlayerSh4!At, PlayerSh4!Goes, PcTyped, CpTyped, FileTyped, MarksTyped, SeekTyped, FlagsShape, PlayerSh4!Procs
  <2>7. OneReader'
    BY <1>a, <1>b, <1>c, <2>1, <2>2 DEF OneReader, Unplayed, Reading, PlayerSh4!Kinds, CallsInOrder
  <2>8. CallsInOrder'
    BY <1>a, <1>b, <1>c, <2>1, <2>2 DEF CallsInOrder, StoppingLabels, PlayerSh4!At
  <2>9. PlaysOnce'
    BY <1>a, <1>b, <1>c, <2>1, <2>2 DEF PlaysOnce, Unplayed, CallsInOrder, Ending, PlayerSh4!At, PlayerSh4!Procs
  <2>10. OpenWhileUsed'
    BY <1>a, <1>b, <1>c, <2>1, <2>2 DEF OpenWhileUsed, PlaysOnce, OneReader, Unplayed, CallsInOrder, Ending, StoppingLabels, PlayerSh4!Uses, Ready, OwnCodecs, NoCodecs, PlayerSh4!At, PlayerSh4!Procs, PlayerSh4!Kinds, Reading
  <2> QED BY <2>7, <2>8, <2>9, <2>10
<1>16. CASE \E p \in PlayerSh4!Procs : PlayerSh4!StopTest(p)
  <2>1. PICK p \in PlayerSh4!Procs : PlayerSh4!StopTest(p)
    BY <1>16
  <2>2. /\ place[p] = "test" /\ place'[p] = (IF mode.isPlaying THEN "flags" ELSE "join") /\ \A q \in PlayerSh4!Procs : q # p => place'[q] = place[q]
        /\ UNCHANGED <<readerOf, cp, mode, threads, avfc, codecs, history>>
    BY <2>1, <1>b DEF PlayerSh4!StopTest, PlayerSh4!Still, PlayerSh4!At, PlayerSh4!Goes, PcTyped, CpTyped, FileTyped, MarksTyped, SeekTyped, FlagsShape, PlayerSh4!Procs
  <2>3. OneReader' /\ CallsInOrder'
    <3>1. place[p] \in StoppingLabels /\ place'[p] \in StoppingLabels \cup {IF p = PlayerSh4!App THEN "close" ELSE "none"}
      BY <2>2 DEF StoppingLabels
    <3>2. avfc'.no = avfc.no /\ (avfc' = avfc \/ avfc'.is = "none")
      BY <2>2
    <3>3. threads'.hasPlayThreadStarted = threads.hasPlayThreadStarted
      BY <2>2
    <3> QED BY <1>a, <1>b, <1>c, <2>2, <3>1, <3>2, <3>3, StopMoves
  <2>4. \A r \in Sh4Readers : PlayerSh4!Uses(r)' => PlayerSh4!Uses(r)
    BY <2>2 DEF PlayerSh4!Uses, PlayerSh4!Kinds, PlayerSh4!Procs
  <2>5. (\E q \in PlayerSh4!Procs : place[q] \in Ending) => \E q \in PlayerSh4!Procs : place'[q] \in Ending
    BY <2>2 DEF Ending
  <2>9. PlaysOnce'
    BY <1>a, <1>b, <1>c, <2>2, <2>3 DEF PlaysOnce, Unplayed, CallsInOrder, Ending, PlayerSh4!At, PlayerSh4!Procs, StoppingLabels
  <2>10. OpenWhileUsed'
    BY <1>a, <1>b, <1>c, <2>2, <2>3, <2>4, <2>5 DEF OpenWhileUsed, PlaysOnce, Unplayed, CallsInOrder, Ending, StoppingLabels, Ready, OwnCodecs, NoCodecs, PlayerSh4!At, PlayerSh4!Procs
  <2> QED BY <2>3, <2>9, <2>10
<1>17. CASE \E p \in PlayerSh4!Procs : PlayerSh4!StopFlags(p)
  <2>1. PICK p \in PlayerSh4!Procs : PlayerSh4!StopFlags(p)
    BY <1>17
  <2>2. /\ place[p] = "flags" /\ place'[p] = "silence" /\ ~mode'.isPlaying /\ \A q \in PlayerSh4!Procs : q # p => place'[q] = place[q]
        /\ UNCHANGED <<readerOf, cp, threads, avfc, codecs, history>>
    BY <2>1, <1>b DEF PlayerSh4!StopFlags, PlayerSh4!Still, PlayerSh4!At, PlayerSh4!Goes, PcTyped, CpTyped, FileTyped, MarksTyped, SeekTyped, FlagsShape, PlayerSh4!Procs
  <2>3. OneReader' /\ CallsInOrder'
    <3>1. place[p] \in StoppingLabels /\ place'[p] \in StoppingLabels \cup {IF p = PlayerSh4!App THEN "close" ELSE "none"}
      BY <2>2 DEF StoppingLabels
    <3>2. avfc'.no = avfc.no /\ (avfc' = avfc \/ avfc'.is = "none")
      BY <2>2
    <3>3. threads'.hasPlayThreadStarted = threads.hasPlayThreadStarted
      BY <2>2
    <3> QED BY <1>a, <1>b, <1>c, <2>2, <3>1, <3>2, <3>3, StopMoves
  <2>4. \A r \in Sh4Readers : PlayerSh4!Uses(r)' => PlayerSh4!Uses(r)
    BY <2>2 DEF PlayerSh4!Uses, PlayerSh4!Kinds, PlayerSh4!Procs
  <2>5. (\E q \in PlayerSh4!Procs : place[q] \in Ending) => \E q \in PlayerSh4!Procs : place'[q] \in Ending
    BY <2>2 DEF Ending
  <2>9. PlaysOnce'
    BY <1>a, <1>b, <1>c, <2>2, <2>3 DEF PlaysOnce, Unplayed, CallsInOrder, Ending, PlayerSh4!At, PlayerSh4!Procs, StoppingLabels
  <2>10. OpenWhileUsed'
    BY <1>a, <1>b, <1>c, <2>2, <2>3, <2>4, <2>5 DEF OpenWhileUsed, PlaysOnce, Unplayed, CallsInOrder, Ending, StoppingLabels, Ready, OwnCodecs, NoCodecs, PlayerSh4!At, PlayerSh4!Procs
  <2> QED BY <2>3, <2>9, <2>10
<1>18. CASE \E p \in PlayerSh4!Procs : PlayerSh4!StopOutput(p)
  <2>1. PICK p \in PlayerSh4!Procs : PlayerSh4!StopOutput(p)
    BY <1>18
  <2>2. /\ place[p] = "silence" /\ place'[p] = "wait" /\ threads'.hasPlayThreadStarted = threads.hasPlayThreadStarted /\ \A q \in PlayerSh4!Procs : q # p => place'[q] = place[q]
        /\ UNCHANGED <<readerOf, cp, mode, avfc, codecs, history>>
    BY <2>1, <1>b DEF PlayerSh4!StopOutput, PlayerSh4!Still, PlayerSh4!At, PlayerSh4!Goes, PcTyped, CpTyped, FileTyped, MarksTyped, SeekTyped, FlagsShape, PlayerSh4!Procs
  <2>3. OneReader' /\ CallsInOrder'
    <3>1. place[p] \in StoppingLabels /\ place'[p] \in StoppingLabels \cup {IF p = PlayerSh4!App THEN "close" ELSE "none"}
      BY <2>2 DEF StoppingLabels
    <3>2. avfc'.no = avfc.no /\ (avfc' = avfc \/ avfc'.is = "none")
      BY <2>2
    <3>3. threads'.hasPlayThreadStarted = threads.hasPlayThreadStarted
      BY <2>2
    <3> QED BY <1>a, <1>b, <1>c, <2>2, <3>1, <3>2, <3>3, StopMoves
  <2>4. \A r \in Sh4Readers : PlayerSh4!Uses(r)' => PlayerSh4!Uses(r)
    BY <2>2 DEF PlayerSh4!Uses, PlayerSh4!Kinds, PlayerSh4!Procs
  <2>5. (\E q \in PlayerSh4!Procs : place[q] \in Ending) => \E q \in PlayerSh4!Procs : place'[q] \in Ending
    BY <2>2 DEF Ending
  <2>9. PlaysOnce'
    BY <1>a, <1>b, <1>c, <2>2, <2>3 DEF PlaysOnce, Unplayed, CallsInOrder, Ending, PlayerSh4!At, PlayerSh4!Procs, StoppingLabels
  <2>10. OpenWhileUsed'
    BY <1>a, <1>b, <1>c, <2>2, <2>3, <2>4, <2>5 DEF OpenWhileUsed, PlaysOnce, Unplayed, CallsInOrder, Ending, StoppingLabels, Ready, OwnCodecs, NoCodecs, PlayerSh4!At, PlayerSh4!Procs
  <2> QED BY <2>3, <2>9, <2>10
<1>19. CASE \E p \in PlayerSh4!Procs : PlayerSh4!StopWait(p)
  <2>1. PICK p \in PlayerSh4!Procs : PlayerSh4!StopWait(p)
    BY <1>19
  <2>2. /\ place[p] = "wait" /\ ~threads.hasPlayThreadStarted /\ place'[p] = (IF avfc.is = "none" THEN "join" ELSE "free") /\ \A q \in PlayerSh4!Procs : q # p => place'[q] = place[q]
        /\ UNCHANGED <<readerOf, cp, mode, threads, avfc, codecs, history>>
    BY <2>1, <1>b DEF PlayerSh4!StopWait, PlayerSh4!Still, PlayerSh4!At, PlayerSh4!Goes, PcTyped, CpTyped, FileTyped, MarksTyped, SeekTyped, FlagsShape, PlayerSh4!Procs
  <2>3. OneReader' /\ CallsInOrder'
    <3>1. place[p] \in StoppingLabels /\ place'[p] \in StoppingLabels \cup {IF p = PlayerSh4!App THEN "close" ELSE "none"}
      BY <2>2 DEF StoppingLabels
    <3>2. avfc'.no = avfc.no /\ (avfc' = avfc \/ avfc'.is = "none")
      BY <2>2
    <3>3. threads'.hasPlayThreadStarted = threads.hasPlayThreadStarted
      BY <2>2
    <3> QED BY <1>a, <1>b, <1>c, <2>2, <3>1, <3>2, <3>3, StopMoves
  <2>4. \A r \in Sh4Readers : PlayerSh4!Uses(r)' => PlayerSh4!Uses(r)
    BY <2>2 DEF PlayerSh4!Uses, PlayerSh4!Kinds, PlayerSh4!Procs
  <2>6. (\A r \in Sh4Readers : ~PlayerSh4!Uses(r)) /\ ~Ready /\ ~mode.isPlaying /\ place[PlayerSh4!App] # "opening"
    <3>1. place[p] # "none" /\ place[p] \in StoppingLabels /\ place[p] \in Ending
      BY <2>2 DEF StoppingLabels, Ending
    <3>2. ~Ready /\ place[PlayerSh4!App] # "opening"
      BY <1>a, <3>1 DEF OneReader, CallsInOrder, Unplayed, Ready, StoppingLabels, PlayerSh4!At, PlayerSh4!Procs
    <3>3. ~mode.isPlaying
      BY <1>a, <3>1 DEF PlaysOnce
    <3>4. ASSUME NEW r \in Sh4Readers PROVE ~PlayerSh4!Uses(r)
      BY <1>a, <2>2 DEF OneReader, OpenWhileUsed, PlayerSh4!Uses, Reading, PlayerSh4!Kinds, PlayerSh4!At
    <3> QED BY <3>2, <3>3, <3>4
  <2>9. PlaysOnce'
    BY <1>a, <1>b, <1>c, <2>2, <2>3 DEF PlaysOnce, Unplayed, CallsInOrder, Ending, PlayerSh4!At, PlayerSh4!Procs, StoppingLabels
  <2>10. OpenWhileUsed'
    BY <1>a, <1>b, <1>c, <2>2, <2>3, <2>4, <2>6 DEF OpenWhileUsed, PlaysOnce, Unplayed, CallsInOrder, Ending, StoppingLabels, Ready, OwnCodecs, NoCodecs, PlayerSh4!At, PlayerSh4!Procs
  <2> QED BY <2>3, <2>9, <2>10
<1>20. CASE \E p \in PlayerSh4!Procs : PlayerSh4!StopFree(p)
  <2>1. PICK p \in PlayerSh4!Procs : PlayerSh4!StopFree(p)
    BY <1>20
  <2>2. /\ place[p] = "free" /\ place'[p] = "join" /\ avfc'.no = avfc.no /\ avfc'.is = "none" /\ codecs' = 0 /\ history'.kept = history.kept /\ \A q \in PlayerSh4!Procs : q # p => place'[q] = place[q]
        /\ UNCHANGED <<readerOf, cp, mode, threads>>
    BY <2>1, <1>b DEF PlayerSh4!StopFree, PlayerSh4!Still, PlayerSh4!At, PlayerSh4!Goes, PcTyped, CpTyped, FileTyped, MarksTyped, SeekTyped, FlagsShape, PlayerSh4!Procs
  <2>3. OneReader' /\ CallsInOrder'
    <3>1. place[p] \in StoppingLabels /\ place'[p] \in StoppingLabels \cup {IF p = PlayerSh4!App THEN "close" ELSE "none"}
      BY <2>2 DEF StoppingLabels
    <3>2. avfc'.no = avfc.no /\ (avfc' = avfc \/ avfc'.is = "none")
      BY <2>2
    <3>3. threads'.hasPlayThreadStarted = threads.hasPlayThreadStarted
      BY <2>2
    <3> QED BY <1>a, <1>b, <1>c, <2>2, <3>1, <3>2, <3>3, StopMoves
  <2>4. \A r \in Sh4Readers : PlayerSh4!Uses(r)' => PlayerSh4!Uses(r)
    BY <2>2 DEF PlayerSh4!Uses, PlayerSh4!Kinds, PlayerSh4!Procs
  <2>6. (\A r \in Sh4Readers : ~PlayerSh4!Uses(r)) /\ ~Ready /\ ~mode.isPlaying /\ place[PlayerSh4!App] # "opening"
    <3>1. place[p] # "none" /\ place[p] \in StoppingLabels /\ place[p] \in Ending
      BY <2>2 DEF StoppingLabels, Ending
    <3>2. ~Ready /\ place[PlayerSh4!App] # "opening"
      BY <1>a, <3>1 DEF OneReader, CallsInOrder, Unplayed, Ready, StoppingLabels, PlayerSh4!At, PlayerSh4!Procs
    <3>3. ~mode.isPlaying
      BY <1>a, <3>1 DEF PlaysOnce
    <3>4. ASSUME NEW r \in Sh4Readers PROVE ~PlayerSh4!Uses(r)
      BY <1>a, <2>2 DEF OneReader, OpenWhileUsed, PlayerSh4!Uses, Reading, PlayerSh4!Kinds, PlayerSh4!At
    <3> QED BY <3>2, <3>3, <3>4
  <2>9. PlaysOnce'
    BY <1>a, <1>b, <1>c, <2>2, <2>3 DEF PlaysOnce, Unplayed, CallsInOrder, Ending, PlayerSh4!At, PlayerSh4!Procs, StoppingLabels
  <2>10. OpenWhileUsed'
    BY <1>a, <1>b, <1>c, <2>2, <2>3, <2>4, <2>6 DEF OpenWhileUsed, PlaysOnce, Unplayed, CallsInOrder, Ending, StoppingLabels, Ready, OwnCodecs, NoCodecs, PlayerSh4!At, PlayerSh4!Procs
  <2> QED BY <2>3, <2>9, <2>10
<1>21. CASE \E p \in PlayerSh4!Procs : PlayerSh4!StopJoin(p)
  <2>1. PICK p \in PlayerSh4!Procs : PlayerSh4!StopJoin(p)
    BY <1>21
  <2>2. /\ place[p] = "join" /\ place'[p] = (IF p = PlayerSh4!App THEN "close" ELSE "none") /\ \A q \in PlayerSh4!Procs : q # p => place'[q] = place[q]
        /\ UNCHANGED <<readerOf, cp, mode, threads, avfc, codecs, history>>
    BY <2>1, <1>b DEF PlayerSh4!StopJoin, PlayerSh4!Still, PlayerSh4!At, PlayerSh4!Goes, PcTyped, CpTyped, FileTyped, MarksTyped, SeekTyped, FlagsShape, PlayerSh4!Procs
  <2>3. OneReader' /\ CallsInOrder'
    <3>1. place[p] \in StoppingLabels /\ place'[p] \in StoppingLabels \cup {IF p = PlayerSh4!App THEN "close" ELSE "none"}
      BY <2>2 DEF StoppingLabels
    <3>2. avfc'.no = avfc.no /\ (avfc' = avfc \/ avfc'.is = "none")
      BY <2>2
    <3>3. threads'.hasPlayThreadStarted = threads.hasPlayThreadStarted
      BY <2>2
    <3> QED BY <1>a, <1>b, <1>c, <2>2, <3>1, <3>2, <3>3, StopMoves
  <2>4. \A r \in Sh4Readers : PlayerSh4!Uses(r)' => PlayerSh4!Uses(r)
    BY <2>2 DEF PlayerSh4!Uses, PlayerSh4!Kinds, PlayerSh4!Procs
  <2>5. (\E q \in PlayerSh4!Procs : place[q] \in Ending) => \E q \in PlayerSh4!Procs : place'[q] \in Ending
    BY <2>2 DEF Ending
  <2>9. PlaysOnce'
    BY <1>a, <1>b, <1>c, <2>2, <2>3 DEF PlaysOnce, Unplayed, CallsInOrder, Ending, PlayerSh4!At, PlayerSh4!Procs, StoppingLabels
  <2>10. OpenWhileUsed'
    BY <1>a, <1>b, <1>c, <2>2, <2>3, <2>4, <2>5 DEF OpenWhileUsed, PlaysOnce, Unplayed, CallsInOrder, Ending, StoppingLabels, Ready, OwnCodecs, NoCodecs, PlayerSh4!At, PlayerSh4!Procs
  <2> QED BY <2>3, <2>9, <2>10
<1>22. CASE \E r \in Sh4Readers : PlayerSh4!Enter(r)
  <2>1. PICK r \in Sh4Readers : PlayerSh4!Enter(r)
    BY <1>22
  <2>2. /\ \/ place[r] = "born" /\ place'[r] = "marked" /\ threads'.hasPlayThreadStarted = threads.hasPlayThreadStarted
           \/ place[r] = "marked" /\ place'[r] = "loop" /\ threads'.hasPlayThreadStarted
        /\ threads'.abortPlayback = threads.abortPlayback /\ place'[PlayerSh4!App] = place[PlayerSh4!App]
        /\ \A s \in Sh4Readers : s # r => place'[s] = place[s]
        /\ UNCHANGED <<mode, avfc, codecs, readerOf, cp, history>>
    BY <2>1, <1>b, <1>c DEF PlayerSh4!Enter, PlayerSh4!At, PlayerSh4!Goes, PcTyped, CpTyped, FileTyped, MarksTyped, SeekTyped, FlagsShape, PlayerSh4!Procs
  <2>7. OneReader'
    BY <1>a, <1>b, <1>c, <2>2 DEF OneReader, Unplayed, Reading, PlayerSh4!Kinds, CallsInOrder
  <2>8. CallsInOrder'
    BY <1>a, <1>b, <1>c, <2>2 DEF CallsInOrder, StoppingLabels, PlayerSh4!At
  <2>9. PlaysOnce'
    BY <1>a, <1>b, <1>c, <2>2 DEF PlaysOnce, Unplayed, CallsInOrder, Ending, PlayerSh4!At, PlayerSh4!Procs
  <2>10. OpenWhileUsed'
    BY <1>a, <1>b, <1>c, <2>2 DEF OpenWhileUsed, PlaysOnce, OneReader, Unplayed, CallsInOrder, Ending, StoppingLabels, PlayerSh4!Uses, Ready, OwnCodecs, NoCodecs, PlayerSh4!At, PlayerSh4!Procs, PlayerSh4!Kinds, Reading
  <2> QED BY <2>7, <2>8, <2>9, <2>10
<1>23. CASE \E r \in Sh4Readers : PlayerSh4!Loop(r)
  <2>1. Kept
    BY <1>23, <1>b DEF PlayerSh4!Loop, Kept, CpTyped, FileTyped, MarksTyped, SeekTyped, FlagsShape
  <2>2. AppGoesOn
    BY <1>23, <1>b, <1>c DEF PlayerSh4!Loop, AppGoesOn, PlayerSh4!At, PlayerSh4!Goes, PcTyped, PlayerSh4!Procs
  <2>3. \A r \in Sh4Readers : ReaderGoesOn(r)
    BY <1>23, <1>b, <1>c DEF PlayerSh4!Loop, ReaderGoesOn, Reading, PlayerSh4!Uses, PlayerSh4!At, PlayerSh4!Goes, PcTyped, PlayerSh4!Procs, PlayerSh4!Kinds
  <2> QED BY <1>d, <2>1, <2>2, <2>3
<1>24. CASE \E r \in Sh4Readers : PlayerSh4!JumpBack(r)
  <2>1. Kept
    BY <1>24, <1>b DEF PlayerSh4!JumpBack, Kept, CpTyped, FileTyped, MarksTyped, SeekTyped, FlagsShape
  <2>2. AppGoesOn
    BY <1>24, <1>b, <1>c DEF PlayerSh4!JumpBack, AppGoesOn, PlayerSh4!At, PlayerSh4!Goes, PcTyped, PlayerSh4!Procs
  <2>3. \A r \in Sh4Readers : ReaderGoesOn(r)
    BY <1>24, <1>b, <1>c DEF PlayerSh4!JumpBack, ReaderGoesOn, Reading, PlayerSh4!Uses, PlayerSh4!At, PlayerSh4!Goes, PcTyped, PlayerSh4!Procs, PlayerSh4!Kinds
  <2> QED BY <1>d, <2>1, <2>2, <2>3
<1>25. CASE \E r \in Sh4Readers : PlayerSh4!SeekFile(r)
  <2>1. Kept
    BY <1>25, <1>b DEF PlayerSh4!SeekFile, Kept, CpTyped, FileTyped, MarksTyped, SeekTyped, FlagsShape
  <2>2. AppGoesOn
    BY <1>25, <1>b, <1>c DEF PlayerSh4!SeekFile, AppGoesOn, PlayerSh4!At, PlayerSh4!Goes, PcTyped, PlayerSh4!Procs
  <2>3. \A r \in Sh4Readers : ReaderGoesOn(r)
    BY <1>25, <1>b, <1>c DEF PlayerSh4!SeekFile, ReaderGoesOn, Reading, PlayerSh4!Uses, PlayerSh4!At, PlayerSh4!Goes, PcTyped, PlayerSh4!Procs, PlayerSh4!Kinds
  <2> QED BY <1>d, <2>1, <2>2, <2>3
<1>26. CASE \E r \in Sh4Readers : PlayerSh4!ReadFrame(r)
  <2>1. Kept
    BY <1>26, <1>b DEF PlayerSh4!ReadFrame, Kept, CpTyped, FileTyped, MarksTyped, SeekTyped, FlagsShape
  <2>2. AppGoesOn
    BY <1>26, <1>b, <1>c DEF PlayerSh4!ReadFrame, AppGoesOn, PlayerSh4!At, PlayerSh4!Goes, PcTyped, PlayerSh4!Procs
  <2>3. \A r \in Sh4Readers : ReaderGoesOn(r)
    BY <1>26, <1>b, <1>c DEF PlayerSh4!ReadFrame, ReaderGoesOn, Reading, PlayerSh4!Uses, PlayerSh4!At, PlayerSh4!Goes, PcTyped, PlayerSh4!Procs, PlayerSh4!Kinds
  <2> QED BY <1>d, <2>1, <2>2, <2>3
<1>27. CASE \E r \in Sh4Readers : PlayerSh4!Lock(r)
  <2>1. Kept
    BY <1>27, <1>b DEF PlayerSh4!Lock, Kept, CpTyped, FileTyped, MarksTyped, SeekTyped, FlagsShape, PlayerSh4!Kinds
  <2>2. AppGoesOn
    BY <1>27, <1>b, <1>c DEF PlayerSh4!Lock, AppGoesOn, PlayerSh4!At, PlayerSh4!Goes, PcTyped, PlayerSh4!Procs, PlayerSh4!Kinds
  <2>3. \A r \in Sh4Readers : ReaderGoesOn(r)
    BY <1>27, <1>b, <1>c DEF PlayerSh4!Lock, ReaderGoesOn, Reading, PlayerSh4!Uses, PlayerSh4!At, PlayerSh4!Goes, PcTyped, PlayerSh4!Procs, PlayerSh4!Kinds
  <2> QED BY <1>d, <2>1, <2>2, <2>3
<1>28. CASE \E r \in Sh4Readers : PlayerSh4!Write(r)
  <2>1. Kept
    BY <1>28, <1>b DEF PlayerSh4!Write, Kept, CpTyped, FileTyped, MarksTyped, SeekTyped, FlagsShape, PlayerSh4!Kinds
  <2>2. AppGoesOn
    BY <1>28, <1>b, <1>c DEF PlayerSh4!Write, AppGoesOn, PlayerSh4!At, PlayerSh4!Goes, PcTyped, PlayerSh4!Procs, PlayerSh4!Kinds
  <2>3. \A r \in Sh4Readers : ReaderGoesOn(r)
    BY <1>28, <1>b, <1>c DEF PlayerSh4!Write, ReaderGoesOn, Reading, PlayerSh4!Uses, PlayerSh4!At, PlayerSh4!Goes, PcTyped, PlayerSh4!Procs, PlayerSh4!Kinds
  <2> QED BY <1>d, <2>1, <2>2, <2>3
<1>29. CASE \E r \in Sh4Readers : PlayerSh4!Leave(r)
  <2>1. PICK r \in Sh4Readers : PlayerSh4!Leave(r)
    BY <1>29
  <2>2. /\ \/ place[r] = "leave" /\ place'[r] = "left"
           \/ place[r] = "left" /\ place'[r] = "test"
        /\ place'[PlayerSh4!App] = place[PlayerSh4!App] /\ \A s \in Sh4Readers : s # r => place'[s] = place[s]
        /\ UNCHANGED <<mode, avfc, codecs, readerOf, cp, history>>
    BY <2>1, <1>b, <1>c DEF PlayerSh4!Leave, PlayerSh4!At, PlayerSh4!Goes, PcTyped, CpTyped, FileTyped, MarksTyped, SeekTyped, FlagsShape, PlayerSh4!Procs
  <2>3. ~Unplayed /\ place[PlayerSh4!App] # "opening" /\ readerOf[r] = avfc.no /\ \A s \in Sh4Readers : s # r => place[s] = "none"
    BY <1>a, <2>2 DEF OneReader, Unplayed
  <2>4. threads'.hasPlayThreadStarted = threads.hasPlayThreadStarted \/ place'[r] = "left"
    BY <2>1, <1>b, <1>c DEF PlayerSh4!Leave, PlayerSh4!At, PlayerSh4!Goes, PcTyped, CpTyped, FileTyped, MarksTyped, SeekTyped, FlagsShape, PlayerSh4!Procs
  <2>7. OneReader'
    BY <1>a, <1>b, <1>c, <2>2, <2>3, <2>4 DEF OneReader, Unplayed, Reading, PlayerSh4!Kinds, CallsInOrder
  <2>8. CallsInOrder'
    BY <1>a, <1>b, <1>c, <2>2, <2>3, <2>4 DEF CallsInOrder, StoppingLabels, PlayerSh4!At
  <2>9. PlaysOnce'
    BY <1>a, <1>b, <1>c, <2>2, <2>3, <2>4 DEF PlaysOnce, Unplayed, CallsInOrder, Ending, PlayerSh4!At, PlayerSh4!Procs
  <2>10. OpenWhileUsed'
    BY <1>a, <1>b, <1>c, <2>2, <2>3, <2>4 DEF OpenWhileUsed, PlaysOnce, OneReader, Unplayed, CallsInOrder, Ending, StoppingLabels, PlayerSh4!Uses, Ready, OwnCodecs, NoCodecs, PlayerSh4!At, PlayerSh4!Procs, PlayerSh4!Kinds, Reading
  <2> QED BY <2>7, <2>8, <2>9, <2>10
<1>30. CASE PlayerSh4!RequestAbort
  <2>1. Kept
    BY <1>30, <1>b DEF PlayerSh4!RequestAbort, Kept, CpTyped, FileTyped, MarksTyped, SeekTyped, FlagsShape
  <2>2. UNCHANGED place
    BY <1>30 DEF PlayerSh4!RequestAbort
  <2> QED BY <1>d, <2>1, <2>2 DEF AppGoesOn, ReaderGoesOn
<1>31. CASE PlayerSh4!AbortEnds
  <2>1. Kept
    BY <1>31, <1>b DEF PlayerSh4!AbortEnds, Kept, CpTyped, FileTyped, MarksTyped, SeekTyped, FlagsShape
  <2>2. UNCHANGED place
    BY <1>31 DEF PlayerSh4!AbortEnds
  <2> QED BY <1>d, <2>1, <2>2 DEF AppGoesOn, ReaderGoesOn
<1>32. CASE PlayerSh4!GetAVFormatContext
  <2>1. Kept
    BY <1>32, <1>b DEF PlayerSh4!GetAVFormatContext, Kept, CpTyped, FileTyped, MarksTyped, SeekTyped, FlagsShape
  <2>2. UNCHANGED place
    BY <1>32 DEF PlayerSh4!GetAVFormatContext
  <2> QED BY <1>d, <2>1, <2>2 DEF AppGoesOn, ReaderGoesOn
<1>33. CASE PlayerSh4!ReleaseAVFormatContext
  <2>1. Kept
    BY <1>33, <1>b DEF PlayerSh4!ReleaseAVFormatContext, Kept, CpTyped, FileTyped, MarksTyped, SeekTyped, FlagsShape
  <2>2. UNCHANGED place
    BY <1>33 DEF PlayerSh4!ReleaseAVFormatContext
  <2> QED BY <1>d, <2>1, <2>2 DEF AppGoesOn, ReaderGoesOn
<1> QED BY NextCases, <1>1, <1>2, <1>3, <1>4, <1>5, <1>6, <1>7, <1>8, <1>9, <1>10, <1>11, <1>12, <1>13, <1>14, <1>15, <1>16, <1>17, <1>18, <1>19, <1>20, <1>21, <1>22, <1>23, <1>24, <1>25, <1>26, <1>27, <1>28, <1>29, <1>30, <1>31, <1>32, <1>33

\* The invariant of the player of the sh4 boxes.
Sh4Inv == Typed /\ PlayerOrder /\ LentInv /\ SeekInv /\ SoundInv

LEMMA InitSh4 ==
  ASSUME PlayerSh4!Assumptions, PlayerSh4!Init
  PROVE  Sh4Inv
<1>1. (CHOOSE f \in Files : TRUE) \in Files
  BY DEF PlayerSh4!Assumptions
<1>2. (\A p \in PlayerSh4!Procs : place[p] = IF p = PlayerSh4!App THEN "idle" ELSE "none") /\ PlayerSh4!App \in PlayerSh4!Procs /\ PlayerSh4!App \notin Sh4Readers
      /\ Sh4Readers \subseteq PlayerSh4!Procs
  BY DEF PlayerSh4!Init, PlayerSh4!Assumptions, PlayerSh4!App, PlayerSh4!Procs
<1>3. /\ place[PlayerSh4!App] = "idle" /\ \A r \in Sh4Readers : place[r] = "none"
  BY <1>2
<1>4. Typed
  <2>1. PcTyped
    BY DEF PlayerSh4!Init, PcTyped, Labels
  <2>2. FlagsShape(mode) /\ MarksTyped /\ FileTyped
    BY DEF PlayerSh4!Init, PlayerSh4!Still, FlagsShape, MarksTyped, FileTyped
  <2>3. SeekTyped /\ UiTyped /\ TracksShape(tracks) /\ DeviceShape(device)
    BY DEF PlayerSh4!Init, SeekTyped, UiTyped, PlayerSh4!NoTracks, PlayerSh4!Off, TracksShape, DeviceShape
  <2>4. CpTyped
    <3> DEFINE c == CHOOSE f \in Files : TRUE
    <3>1. c \in Files
      BY DEF PlayerSh4!Assumptions
    <3>2. cp.file = c /\ DOMAIN cp = {"up", "ts", "file", "init_jump", "decoders_closed", "playing", "speed", "started"}
      BY DEF PlayerSh4!Init
    <3> HIDE DEF c
    <3> QED BY <3>1, <3>2 DEF CpTyped
  <2> QED BY <2>1, <2>2, <2>3, <2>4 DEF Typed
<1>5. /\ ~mode.isPlaying /\ avfc.is = "none" /\ avfc.no = 0 /\ codecs = 0 /\ ~cp.up /\ ~cp.started
      /\ seek.rel = "none" /\ ~seek.abs /\ ui.ctx = 0 /\ ui.pc = "idle"
      /\ history.newest = "none" /\ ~history.lentClosed
  BY DEF PlayerSh4!Init, PlayerSh4!Still
<1>6. PlayerOrder
  <2>1. OneReader /\ CallsInOrder /\ PlaysOnce
    BY <1>3, <1>5 DEF OneReader, CallsInOrder, PlaysOnce, Unplayed, StoppingLabels, Ending, Reading, PlayerSh4!Kinds, PlayerSh4!At, PlayerSh4!Procs
  <2>2. OpenWhileUsed
    BY <1>3, <1>5 DEF OpenWhileUsed, PlayerSh4!Uses, PlayerSh4!Kinds, Ready, NoCodecs, OwnCodecs, Ending, PlayerSh4!At, PlayerSh4!Procs
  <2> QED BY <2>1, <2>2 DEF PlayerOrder
<1>7. LentInv /\ SeekInv /\ SoundInv
  BY <1>3, <1>5 DEF LentInv, PlayerSh4!LentContextStays, SeekInv, PlayerSh4!SeekIsTaken, SoundInv, Heard, PlayerSh4!At
<1> QED BY <1>4, <1>6, <1>7 DEF Sh4Inv

LEMMA StepSh4 ==
  ASSUME PlayerSh4!Assumptions, Sh4Inv, [PlayerSh4!Next]_(PlayerSh4!vars)
  PROVE  Sh4Inv'
<1>1. CASE PlayerSh4!Next
  <2>1. Typed /\ PlayerOrder /\ LentInv /\ SeekInv /\ SoundInv
    BY DEF Sh4Inv
  <2>2. SoundInv' /\ DeviceShape(device')
    BY <1>1, <2>1, SoundStep
  <2>3. Typed'
    <3>1. PcTyped' /\ FlagsShape(mode') /\ MarksTyped' /\ FileTyped' /\ SeekTyped'
      BY <1>1, <2>1, PcStaysTyped, FlagsStayTyped, ThreadsStayTyped, FileStaysTyped, SeekStaysTyped DEF Typed
    <3>2. CpTyped' /\ UiTyped' /\ TracksShape(tracks')
      BY <1>1, <2>1, CpStaysTyped, UiStaysTyped, TracksStayTyped DEF Typed, PlayerSh4!Assumptions
    <3> QED BY <2>2, <3>1, <3>2 DEF Typed
  <2>4. PlayerOrder'
    BY <1>1, <2>1, OrderStep DEF PlayerOrder
  <2> QED BY <1>1, <2>1, <2>2, <2>3, <2>4, LentStep, SeekStep DEF Sh4Inv
<1>2. CASE UNCHANGED PlayerSh4!vars
  <2>1. Typed'
    BY <1>2 DEF PlayerSh4!vars, Sh4Inv, Typed, PcTyped, FlagsShape, MarksTyped, FileTyped, SeekTyped, CpTyped, UiTyped,
                TracksShape, DeviceShape
  <2>2. PlayerOrder'
    BY <1>2 DEF PlayerSh4!vars, Sh4Inv, PlayerOrder, OneReader, CallsInOrder, PlaysOnce, OpenWhileUsed, Unplayed, Ready,
                OwnCodecs, NoCodecs, PlayerSh4!Uses, PlayerSh4!At
  <2>3. LentInv' /\ SeekInv' /\ SoundInv'
    BY <1>2 DEF PlayerSh4!vars, Sh4Inv, LentInv, PlayerSh4!LentContextStays, SeekInv, PlayerSh4!SeekIsTaken, SoundInv, Heard, PlayerSh4!At
  <2> QED BY <2>1, <2>2, <2>3 DEF Sh4Inv
<1> QED BY <1>1, <1>2

\* What the invariant says of the properties.
LEMMA Sh4Properties ==
  ASSUME Sh4Inv
  PROVE  PlayerSh4!ReaderReadsItsFile /\ PlayerSh4!LentContextStays /\ PlayerSh4!SeekIsTaken /\ PlayerSh4!SoundComesBack
<1>1. PlayerSh4!ReaderReadsItsFile
  <2>1. \A r \in Sh4Readers : PlayerSh4!Uses(r) => place[r] # "none"
    BY DEF PlayerSh4!Uses, PlayerSh4!Kinds
  <2> QED BY <2>1 DEF Sh4Inv, PlayerOrder, OneReader, OpenWhileUsed, OwnCodecs, PlayerSh4!ReaderReadsItsFile
<1>2. PlayerSh4!SoundComesBack
  BY DEF Sh4Inv, SoundInv, Heard, PlayerSh4!SoundComesBack
<1> QED BY <1>1, <1>2 DEF Sh4Inv, LentInv, SeekInv


-----------------------------------------------------------------------------
(* The parts side by side *)

Sh4Here == part = "sh4" => Sh4Inv

\* A step of PlayersSpec is one of PlaybackThreads, or leaves its variables alone.
LEMMA ThreadsHere ==
  ASSUME [PlayersNext]_players
  PROVE  [Next]_vars
BY DEF PlayersNext, players

\* A step while the player of the sh4 boxes is looked at is one of PlayerSH4.
LEMMA Sh4StepHere ==
  ASSUME [PlayersNext]_players, part' = "sh4"
  PROVE  part = "sh4" /\ [PlayerSh4!Next]_(PlayerSh4!vars)
<1>1. CASE PlayersNext
  BY <1>1 DEF PlayersNext
<1>2. CASE UNCHANGED players
  BY <1>2 DEF players, sh4, PlayerSh4!vars
<1> QED BY <1>1, <1>2

\* What PlaybackThreads does among the other parts it does alone (playback.c, container_ffmpeg.c).
THEOREM ThreadsAreContained == PlayersSpec => Spec
<1>1. PlayersInit => Init
  BY DEF PlayersInit
<1>2. [PlayersNext]_players => [Next]_vars
  BY ThreadsHere
<1> QED BY <1>1, <1>2, PTL DEF PlayersSpec, Spec

\* The invariant of PlayerSH4 holds wherever the player of the sh4 boxes is looked at.
THEOREM Sh4PlayerIsSound == PlayersSpec => []Sh4Here
<1>0. PlayerSh4!Assumptions
  BY PlayersAssumption
<1>1. PlayersInit => Sh4Here
  BY <1>0, InitSh4 DEF PlayersInit, Sh4Here
<1>2. Sh4Here /\ [PlayersNext]_players => Sh4Here'
  <2> SUFFICES ASSUME Sh4Here, [PlayersNext]_players, part' = "sh4" PROVE Sh4Inv'
    BY DEF Sh4Here
  <2>1. part = "sh4" /\ [PlayerSh4!Next]_(PlayerSh4!vars)
    BY Sh4StepHere
  <2> QED BY <1>0, <2>1, StepSh4 DEF Sh4Here
<1> QED BY <1>1, <1>2, PTL DEF PlayersSpec

-----------------------------------------------------------------------------
(* The players among all the parts of MCPlayback *)

\* A step of MCPlayback is one of the players, or leaves their variables alone.
LEMMA PlayersHere ==
  ASSUME [MCNext]_all
  PROVE  [PlayersNext]_players
BY DEF MCNext, all

\* What the players do among the other parts they do alone: a behaviour of MCPlayback is one of
\* Players (playback.c, container_ffmpeg.c, player.cpp, input.cpp).
THEOREM PlayersAreContained == MCSpec => PlayersSpec
<1>1. MCInit => PlayersInit
  BY DEF MCInit
<1>2. [MCNext]_all => [PlayersNext]_players
  BY PlayersHere
<1> QED BY <1>1, <1>2, PTL DEF MCSpec, PlayersSpec

\* One reader at most is inside a context, and only what was left behind closes a context that
\* is in use (container_ffmpeg.c): ReaderIsAlwaysAlone, among the parts.
THEOREM ReaderIsAloneHere == MCSpec => []ReaderIsAlone
BY PlayersAreContained, ThreadsAreContained, ReaderIsAlwaysAlone, PTL

\* A reader of the sh4 player reads the context and the codecs of the file it was made for, alone,
\* and a context that is lent is not closed under the borrower (player.cpp, input.cpp).
THEOREM ReaderAlwaysReadsItsFile == MCSpec => []ReaderReadsItsFile
<1>1. Sh4Here => ReaderReadsItsFile
  BY Sh4Properties DEF Sh4Here, ReaderReadsItsFile
<1> QED BY <1>1, PlayersAreContained, Sh4PlayerIsSound, PTL

\* The last seek that was asked for is the one the reader of the sh4 player finds (input.cpp).
THEOREM SeekIsAlwaysTaken == MCSpec => []SeekIsTaken
<1>1. Sh4Here => SeekIsTaken
  BY Sh4Properties DEF Sh4Here, SeekIsTaken
<1> QED BY <1>1, PlayersAreContained, Sh4PlayerIsSound, PTL

\* Once rewinding is over the sound of the sh4 player is back (player.cpp).
THEOREM SoundAlwaysComesBack == MCSpec => []SoundComesBack
<1>1. Sh4Here => SoundComesBack
  BY Sh4Properties DEF Sh4Here, SoundComesBack
<1> QED BY <1>1, PlayersAreContained, Sh4PlayerIsSound, PTL
===============================================================================
