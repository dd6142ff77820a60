-------------------------- MODULE ParsePool_proofs --------------------------
(***************************************************************************)
(* Proofs about ParsePool for any number of files, workers and processors, *)
(* any file list, with or without a pipeline, and every failure.           *)
(***************************************************************************)
EXTENDS ParsePool, FiniteSetTheorems, WellFoundedInduction, TLAPS

\* There are finitely many slots, so the sets the counters count are finite.
LEMMA SlotsFinite == IsFiniteSet(Slots) /\ Cardinality(Slots) = N
  BY ConstantsOK, FS_Interval DEF Slots

\* A part of a finite set is finite, no larger, and empty if it counts zero.
LEMMA SubsetFinite ==
  ASSUME NEW S, IsFiniteSet(S), NEW T, T \subseteq S
  PROVE  /\ IsFiniteSet(T)
         /\ Cardinality(T) \in Nat
         /\ Cardinality(T) <= Cardinality(S)
         /\ Cardinality(T) = 0 <=> T = {}
  BY FS_Subset, FS_CardinalityType, FS_EmptySet, Zenon

\* Adding an element raises the count by one.
LEMMA CountUp ==
  ASSUME NEW S, IsFiniteSet(S), NEW T, T \subseteq S, NEW x \in S, x \notin T
  PROVE  Cardinality(T \cup {x}) = Cardinality(T) + 1
  BY SubsetFinite, FS_AddElement, Zenon

\* Taking an element out lowers the count by one.
LEMMA CountDown ==
  ASSUME NEW S, IsFiniteSet(S), NEW T, T \subseteq S, NEW x \in T
  PROVE  Cardinality(T \ {x}) = Cardinality(T) - 1
  BY SubsetFinite, FS_RemoveElement, Zenon
-----------------------------------------------------------------------------
\* Initially the invariant holds.
LEMMA InitIInv == Init => IInv
  <1> SUFFICES ASSUME Init PROVE IInv
    BY Zenon
  <1> USE ConstantsOK DEF Init
  <1>2. availableInputFiles = Cardinality(readyToParse) /\ availableInputFiles \in Nat
    BY SlotsFinite, SubsetFinite, InitiallyReady \subseteq Slots, Zenon DEF InitiallyReady
  <1>3. Min2(NCPU, N) - 1 \in Nat
    BY DEF Min2
  <1>5. PICK w0 \in Workers : wpc = [v \in Workers |-> IF v = w0 THEN "starting" ELSE "none"]
    BY Zenon
  <1>4. TypeOK
    <2>1. wpc \in [Workers -> WorkerStates] /\ mpc \in MainStates
      BY <1>5, Zenon DEF WorkerStates, MainStates
    <2>2. /\ wslot \in [Workers -> Slots \cup {NoSlot}]
          /\ wfile \in [Workers -> Slots \cup {NoFile}]
          /\ inputFiles \in [Slots -> Slots \cup {NoFile}]
          /\ fileMap \subseteq Slots
          /\ readyToParse \subseteq Slots
      BY Zenon DEF MappedSlots, InitiallyReady
    <2> QED BY <1>2, <1>3, <2>1, <2>2 DEF TypeOK
  <1>6. LockInv
    BY <1>5, Zenon DEF LockInv
  <1>7. SlotInv
    BY <1>5 DEF SlotInv, ParsedOnce, Holding, Slots, NoFile, MappedSlots,
       InitiallyReady
  <1>8. CountersExact
    <2>1. Idle = {} /\ Unpublished = Slots
      BY <1>5, Zenon DEF Idle, Unpublished
    <2> QED BY <1>2, <2>1, SlotsFinite, FS_EmptySet, Zenon DEF CountersExact
  <1>9. MainInv
    BY DEF MainInv, NoLostWakeup, Slots
  <1>10. CrewInv
    BY <1>5, Zenon DEF CrewInv, NoEarlyExit, WorkIsAttended
  <1> QED BY <1>4, <1>6, <1>7, <1>8, <1>9, <1>10, Zenon DEF IInv
-----------------------------------------------------------------------------
(* Every step keeps the types.  That _idleWorkers does not go below zero   *)
(* needs CountersExact.                                                    *)
LEMMA TypeStep == IInv /\ [Next]_vars => TypeOK'
  <1> SUFFICES ASSUME IInv, [Next]_vars PROVE TypeOK'
    BY Zenon
  <1> USE ConstantsOK DEF IInv, TypeOK, WorkerStates, MainStates, Acquire, Release,
        shared, crew, workers, main, listen, NoFile, NoSlot, NoMsg
  <1>1. ASSUME NEW w \in Workers, WorkerStart(w) PROVE TypeOK'
    BY <1>1, Zenon DEF WorkerStart
  <1>2. ASSUME NEW w \in Workers, WorkerWait(w) PROVE TypeOK'
    BY <1>2 DEF WorkerWait
  <1>3. ASSUME NEW w \in Workers, WorkerWake(w) PROVE TypeOK'
    <2>1. Idle \subseteq Workers /\ w \in Idle
      BY <1>3, Zenon DEF WorkerWake, Idle
    <2>2. idleWorkers - 1 \in Nat
      BY <2>1, SubsetFinite DEF CountersExact
    <2> QED BY <1>3, <2>2, Zenon DEF WorkerWake
  <1>4. ASSUME NEW w \in Workers, WorkerTake(w) PROVE TypeOK'
    <2>1. CASE ParsableFromCursor = {}
      BY <1>4, <2>1, Zenon DEF WorkerTake, IsFirst
    <2>2. ASSUME NEW s \in Slots,
                 wslot' = [wslot EXCEPT ![w] = s],
                 parseCursor' = s + 1,
                 availableInputFiles' = availableInputFiles - 1,
                 readyToParse' = readyToParse \ {s},
                 wpc' = [wpc EXCEPT ![w] = "parsing"],
                 parseLock' = "free"
          PROVE  TypeOK'
      <3>1. parseCursor' \in 0 .. N
        BY <2>2 DEF Slots
      <3> QED BY <1>4, <2>2, <3>1 DEF WorkerTake
    <2> QED BY <1>4, <2>1, <2>2, Zenon DEF WorkerTake
  <1>5. ASSUME NEW w \in Workers, WorkerMakeFile(w) PROVE TypeOK'
    BY <1>5 DEF WorkerMakeFile
  <1>6. ASSUME NEW w \in Workers, WorkerPublish(w) PROVE TypeOK'
    <2>1. remainingInputFiles' \in 0 .. N
      BY <1>6 DEF WorkerPublish, Decremented
    <2>2. inputFiles' \in [Slots -> Slots \cup {NoFile}]
      BY <1>6, Zenon DEF WorkerPublish
    <2>3. mpc' \in MainStates
      BY <1>6, Zenon DEF WorkerPublish, SignalNewFileAvailable
    <2> QED BY <1>6, <2>1, <2>2, <2>3, Zenon DEF WorkerPublish
  <1>7. ASSUME NEW w \in Workers, WorkerFail(w) PROVE TypeOK'
    BY <1>7 DEF WorkerFail
  <1>8. ASSUME NEW w \in Workers, WorkerLoop(w) PROVE TypeOK'
    BY <1>8 DEF WorkerLoop, NothingLeft
  <1>9. ASSUME NEW w \in Workers, WorkerExit(w) PROVE TypeOK'
    BY <1>9, Zenon DEF WorkerExit, NothingLeft, SignalNewFileAvailable
  <1>10. CASE ListenerOpen
    BY <1>10, Zenon DEF ListenerOpen
  <1>11. ASSUME NEW s \in Slots, ListenerFile(s) PROVE TypeOK'
    BY <1>11 DEF ListenerFile, CursorFor, SignalParseWorkReady, WaitingWorkers, Slots
  <1>12. CASE ListenerEnd
    BY <1>12, Zenon DEF ListenerEnd
  <1>13. CASE ListenerFail
    BY <1>13, Zenon DEF ListenerFail, SignalNewFileAvailable
  <1>14. CASE MainLock
    BY <1>14, Zenon DEF MainLock
  <1>15. CASE MainBlock
    BY <1>15 DEF MainBlock, MainInv
  <1>16. CASE MainErrorLocked
    BY <1>16, Zenon DEF MainErrorLocked
  <1>17. CASE MainTake
    BY <1>17, Zenon DEF MainTake
  <1>18. CASE MainConsume
    BY <1>18 DEF MainConsume, MainInv, AfterFile, Slots
  <1>19. CASE MainAllRead
    BY <1>19, Zenon DEF MainAllRead
  <1>20. CASE MainThrow
    BY <1>20, Zenon DEF MainThrow
  <1>21. CASE SpuriousWakeup
    BY <1>21 DEF SpuriousWakeup, WaitingWorkers
  <1>22. CASE UNCHANGED vars
    BY <1>22 DEF vars
  <1> QED
    BY <1>1, <1>2, <1>3, <1>4, <1>5, <1>6, <1>7, <1>8, <1>9, <1>10, <1>11, <1>12, ZenonT(40),
       <1>13, <1>14, <1>15, <1>16, <1>17, <1>18, <1>19, <1>20, <1>21, <1>22
    DEF Next, MainNext, WorkerNext, ListenerNext
-----------------------------------------------------------------------------
\* Where a thread is tells whether it holds the lock, after every step.
LEMMA LockStep == IInv /\ [Next]_vars => LockInv'
  <1> SUFFICES ASSUME IInv, [Next]_vars PROVE LockInv'
    OBVIOUS
  <1> USE ConstantsOK DEF IInv, TypeOK, Acquire, Release, shared, crew, workers, main, listen, NoFile, LockInv
  <1>1. ASSUME NEW w \in Workers, WorkerStart(w) PROVE LockInv'
    BY <1>1, Zenon DEF WorkerStart
  <1>2. ASSUME NEW w \in Workers, WorkerWait(w) PROVE LockInv'
    BY <1>2, Zenon DEF WorkerWait
  <1>3. ASSUME NEW w \in Workers, WorkerWake(w) PROVE LockInv'
    BY <1>3, Zenon DEF WorkerWake
  <1>4. ASSUME NEW w \in Workers, WorkerTake(w) PROVE LockInv'
    BY <1>4, Zenon DEF WorkerTake
  <1>5. ASSUME NEW w \in Workers, WorkerMakeFile(w) PROVE LockInv'
    BY <1>5, Zenon DEF WorkerMakeFile
  <1>6. ASSUME NEW w \in Workers, WorkerPublish(w) PROVE LockInv'
    BY <1>6, Zenon DEF WorkerPublish, SignalNewFileAvailable
  <1>7. ASSUME NEW w \in Workers, WorkerFail(w) PROVE LockInv'
    BY <1>7, Zenon DEF WorkerFail
  <1>8. ASSUME NEW w \in Workers, WorkerLoop(w) PROVE LockInv'
    BY <1>8, Zenon DEF WorkerLoop, NothingLeft
  <1>9. ASSUME NEW w \in Workers, WorkerExit(w) PROVE LockInv'
    BY <1>9, Zenon DEF WorkerExit, NothingLeft, SignalNewFileAvailable
  <1>10. CASE ListenerOpen
    BY <1>10, Zenon DEF ListenerOpen
  <1>11. ASSUME NEW s \in Slots, ListenerFile(s) PROVE LockInv'
    BY <1>11 DEF ListenerFile, CursorFor, SignalParseWorkReady, WaitingWorkers
  <1>12. CASE ListenerEnd
    BY <1>12, Zenon DEF ListenerEnd
  <1>13. CASE ListenerFail
    BY <1>13, Zenon DEF ListenerFail, SignalNewFileAvailable
  <1>14. CASE MainLock
    BY <1>14 DEF MainLock
  <1>15. CASE MainBlock
    BY <1>15 DEF MainBlock
  <1>16. CASE MainErrorLocked
    BY <1>16, Zenon DEF MainErrorLocked
  <1>17. CASE MainTake
    BY <1>17 DEF MainTake
  <1>18. CASE MainConsume
    BY <1>18, Zenon DEF MainConsume, AfterFile
  <1>19. CASE MainAllRead
    BY <1>19, Zenon DEF MainAllRead
  <1>20. CASE MainThrow
    BY <1>20, Zenon DEF MainThrow
  <1>21. CASE SpuriousWakeup
    BY <1>21, Zenon DEF SpuriousWakeup, WaitingWorkers
  <1>22. CASE UNCHANGED vars
    BY <1>22, Zenon DEF vars
  <1> QED
    BY <1>1, <1>2, <1>3, <1>4, <1>5, <1>6, <1>7, <1>8, <1>9, <1>10, <1>11, <1>12,
       <1>13, <1>14, <1>15, <1>16, <1>17, <1>18, <1>19, <1>20, <1>21, <1>22, Zenon
    DEF Next, MainNext, WorkerNext, ListenerNext
\* A slot moves from the map to ready to one worker to published, and a worker
\* that looks for a ready slot finds one.
LEMMA SlotStep == IInv /\ [Next]_vars => SlotInv'
  <1> SUFFICES ASSUME IInv, [Next]_vars PROVE SlotInv'
    OBVIOUS
  <1> USE ConstantsOK DEF IInv, TypeOK, Acquire, Release, shared, crew, workers, main, listen,
        NoFile, SlotInv, ParsedOnce, Holding
  <1>1. ASSUME NEW w \in Workers, WorkerStart(w) PROVE SlotInv'
    BY <1>1 DEF WorkerStart
  <1>2. ASSUME NEW w \in Workers, WorkerWait(w) PROVE SlotInv'
    BY <1>2 DEF WorkerWait
  <1>3. ASSUME NEW w \in Workers, WorkerWake(w) PROVE SlotInv'
    BY <1>3, ZenonT(40) DEF WorkerWake
  <1>4. ASSUME NEW w \in Workers, WorkerTake(w) PROVE SlotInv'
    <2>2. ParsableFromCursor = readyToParse
      BY Zenon DEF ParsableFromCursor, IsParsable
    <2>3. PICK s \in Slots :
            /\ s \in readyToParse /\ \A t \in readyToParse : s <= t
            /\ wslot' = [wslot EXCEPT ![w] = s]
            /\ parseCursor' = s + 1
            /\ readyToParse' = readyToParse \ {s}
            /\ wpc' = [wpc EXCEPT ![w] = "parsing"]
      BY <1>4, <2>2, Zenon DEF WorkerTake, IsFirst
    <2>4. \A t \in readyToParse' : parseCursor' <= t
      BY <2>3 DEF Slots
    <2>5. s \notin fileMap /\ inputFiles[s] = NoFile
      BY <2>3, Zenon
    <2>6. \A v \in Workers : Holding(v) => wslot[v] # s
      BY <2>3
    <2>7. UNCHANGED <<inputFiles, fileMap, wfile>>
      BY <1>4, Zenon DEF WorkerTake
    <2> QED BY <2>3, <2>4, <2>5, <2>6, <2>7, ZenonT(40)
  <1>5. ASSUME NEW w \in Workers, WorkerMakeFile(w) PROVE SlotInv'
    BY <1>5 DEF WorkerMakeFile, NoSlot
  <1>6. ASSUME NEW w \in Workers, WorkerPublish(w) PROVE SlotInv'
    BY <1>6 DEF WorkerPublish, SignalNewFileAvailable
  <1>7. ASSUME NEW w \in Workers, WorkerFail(w) PROVE SlotInv'
    BY <1>7, Zenon DEF WorkerFail
  <1>8. ASSUME NEW w \in Workers, WorkerLoop(w) PROVE SlotInv'
    BY <1>8, ZenonT(40) DEF WorkerLoop, NothingLeft
  <1>9. ASSUME NEW w \in Workers, WorkerExit(w) PROVE SlotInv'
    BY <1>9, Zenon DEF WorkerExit, NothingLeft, SignalNewFileAvailable
  <1>10. CASE ListenerOpen
    BY <1>10, Zenon DEF ListenerOpen
  <1>11. ASSUME NEW s \in Slots, ListenerFile(s) PROVE SlotInv'
    <2>1. \A v \in Workers : /\ wpc'[v] = wpc[v] \/ (wpc[v] = "waiting" /\ wpc'[v] = "woken")
                             /\ wslot'[v] = wslot[v] /\ wfile'[v] = wfile[v]
      BY <1>11, Zenon DEF ListenerFile, CursorFor, SignalParseWorkReady, WaitingWorkers
    <2>2. /\ s \in fileMap /\ fileMap' = fileMap \ {s}
          /\ readyToParse' = readyToParse \cup {s}
          /\ UNCHANGED inputFiles
      BY <1>11, Zenon DEF ListenerFile, CursorFor
    <2>3. \A t \in readyToParse' : parseCursor' <= t
      BY <1>11 DEF ListenerFile, CursorFor, Slots
    <2> QED BY <2>1, <2>2, <2>3
  <1>12. CASE ListenerEnd
    BY <1>12, Zenon DEF ListenerEnd
  <1>13. CASE ListenerFail
    BY <1>13, Zenon DEF ListenerFail, SignalNewFileAvailable
  <1>14. CASE MainLock
    BY <1>14, Zenon DEF MainLock
  <1>15. CASE MainBlock
    BY <1>15 DEF MainBlock
  <1>16. CASE MainErrorLocked
    BY <1>16, Zenon DEF MainErrorLocked
  <1>17. CASE MainTake
    BY <1>17, Zenon DEF MainTake
  <1>18. CASE MainConsume
    BY <1>18, Zenon DEF MainConsume, AfterFile
  <1>19. CASE MainAllRead
    BY <1>19, Zenon DEF MainAllRead
  <1>20. CASE MainThrow
    BY <1>20, Zenon DEF MainThrow
  <1>21. CASE SpuriousWakeup
    BY <1>21 DEF SpuriousWakeup, WaitingWorkers
  <1>22. CASE UNCHANGED vars
    BY <1>22, Zenon DEF vars
  <1> QED
    BY <1>1, <1>2, <1>3, <1>4, <1>5, <1>6, <1>7, <1>8, <1>9, <1>10, <1>11, <1>12, ZenonT(40),
       <1>13, <1>14, <1>15, <1>16, <1>17, <1>18, <1>19, <1>20, <1>21, <1>22
    DEF Next, MainNext, WorkerNext, ListenerNext

\* The counters follow what they count.
LEMMA CountStep == IInv /\ [Next]_vars => CountersExact'
  <1> SUFFICES ASSUME IInv, [Next]_vars PROVE CountersExact'
    OBVIOUS
  <1> USE ConstantsOK DEF IInv, TypeOK, Acquire, Release, shared, crew, workers, main, listen,
        NoFile, NoMsg, CountersExact
  <1>1. ASSUME NEW w \in Workers, WorkerStart(w) PROVE CountersExact'
    <2>1. Idle' = Idle /\ Unpublished' = Unpublished
      BY <1>1, Zenon DEF WorkerStart, Idle, Unpublished
    <2> QED BY <1>1, <2>1, Zenon DEF WorkerStart
  <1>2. ASSUME NEW w \in Workers, WorkerWait(w) PROVE CountersExact'
    <2>1. Idle' = Idle \cup {w} /\ Unpublished' = Unpublished
      BY <1>2 DEF WorkerWait, Idle, Unpublished
    <2>2. Cardinality(Idle') = Cardinality(Idle) + 1
      <3>1. Idle \subseteq Workers /\ w \notin Idle
        BY <1>2, Zenon DEF WorkerWait, Idle
      <3> QED BY <2>1, <3>1, CountUp, Zenon
    <2> QED BY <1>2, <2>1, <2>2, Zenon DEF WorkerWait
  <1>3. ASSUME NEW w \in Workers, WorkerWake(w) PROVE CountersExact'
    <2>1. Idle' = Idle \ {w} /\ Unpublished' = Unpublished
      BY <1>3, Zenon DEF WorkerWake, Idle, Unpublished
    <2>2. Cardinality(Idle') = Cardinality(Idle) - 1
      <3>1. Idle \subseteq Workers /\ w \in Idle
        BY <1>3, Zenon DEF WorkerWake, Idle
      <3> QED BY <2>1, <3>1, CountDown, Zenon
    <2> QED BY <1>3, <2>1, <2>2, Zenon DEF WorkerWake
  <1>4. ASSUME NEW w \in Workers, WorkerTake(w) PROVE CountersExact'
    <2>1. PICK s \in Slots : /\ s \in readyToParse
                             /\ availableInputFiles' = availableInputFiles - 1
                             /\ readyToParse' = readyToParse \ {s}
                             /\ wpc' = [wpc EXCEPT ![w] = "parsing"]
      BY <1>4, Zenon DEF WorkerTake, IsFirst, ParsableFromCursor, IsParsable
    <2>2. Idle' = Idle /\ Unpublished' = Unpublished
      BY <1>4, <2>1, Zenon DEF WorkerTake, Idle, Unpublished
    <2>3. availableInputFiles' = Cardinality(readyToParse')
      BY <2>1, SlotsFinite, CountDown, Zenon
    <2> QED BY <1>4, <2>2, <2>3, Zenon DEF WorkerTake
  <1>5. ASSUME NEW w \in Workers, WorkerMakeFile(w) PROVE CountersExact'
    <2>1. Idle' = Idle /\ Unpublished' = Unpublished
      BY <1>5, Zenon DEF WorkerMakeFile, Idle, Unpublished
    <2> QED BY <1>5, <2>1, Zenon DEF WorkerMakeFile
  <1>6. ASSUME NEW w \in Workers, WorkerPublish(w) PROVE CountersExact'
    <2>1. Idle' = Idle
      BY <1>6, Zenon DEF WorkerPublish, Idle
    <2>2. /\ wslot[w] \in Unpublished
          /\ Unpublished' = Unpublished \ {wslot[w]}
          /\ Unpublished \subseteq Slots
      BY <1>6, Zenon DEF WorkerPublish, SlotInv, ParsedOnce, Holding, Unpublished
    <2>3. /\ Cardinality(Unpublished') = Cardinality(Unpublished) - 1
          /\ Cardinality(Unpublished) \in Nat \ {0}
      BY <2>2, SlotsFinite, SubsetFinite, CountDown, Zenon
    <2>4. exception # NoMsg \/ remainingInputFiles' = Cardinality(Unpublished')
      BY <1>6, <2>3 DEF WorkerPublish, Decremented
    <2> QED BY <1>6, <2>1, <2>4, Zenon DEF WorkerPublish
  <1>7. ASSUME NEW w \in Workers, WorkerFail(w) PROVE CountersExact'
    <2>1. Idle' = Idle /\ Unpublished' = Unpublished
      BY <1>7, Zenon DEF WorkerFail, Idle, Unpublished
    <2> QED BY <1>7, <2>1, Zenon DEF WorkerFail
  <1>8. ASSUME NEW w \in Workers, WorkerLoop(w) PROVE CountersExact'
    <2>1. Idle' = Idle /\ Unpublished' = Unpublished
      BY <1>8, Zenon DEF WorkerLoop, NothingLeft, Idle, Unpublished
    <2> QED BY <1>8, <2>1, Zenon DEF WorkerLoop, NothingLeft
  <1>9. ASSUME NEW w \in Workers, WorkerExit(w) PROVE CountersExact'
    <2>1. Idle' = Idle /\ Unpublished' = Unpublished
      BY <1>9, Zenon DEF WorkerExit, NothingLeft, SignalNewFileAvailable, Idle, Unpublished
    <2> QED BY <1>9, <2>1, Zenon DEF WorkerExit, NothingLeft
  <1>10. CASE ListenerOpen
    <2>1. Idle' = Idle /\ Unpublished' = Unpublished
      BY <1>10, Zenon DEF ListenerOpen, Idle, Unpublished
    <2> QED BY <1>10, <2>1, Zenon DEF ListenerOpen
  <1>11. ASSUME NEW s \in Slots, ListenerFile(s) PROVE CountersExact'
    <2>1. Idle' = Idle /\ Unpublished' = Unpublished
      BY <1>11, Zenon DEF ListenerFile, CursorFor, SignalParseWorkReady, WaitingWorkers, Idle, Unpublished
    <2>2. availableInputFiles' = Cardinality(readyToParse')
      BY <1>11, SlotsFinite, CountUp, Zenon DEF ListenerFile, CursorFor, SlotInv
    <2> QED BY <1>11, <2>1, <2>2, Zenon DEF ListenerFile, CursorFor
  <1>12. CASE ListenerEnd
    <2>1. Idle' = Idle /\ Unpublished' = Unpublished
      BY <1>12, Zenon DEF ListenerEnd, Idle, Unpublished
    <2> QED BY <1>12, <2>1, Zenon DEF ListenerEnd
  <1>13. CASE ListenerFail
    <2>1. Idle' = Idle /\ Unpublished' = Unpublished
      BY <1>13, Zenon DEF ListenerFail, SignalNewFileAvailable, Idle, Unpublished
    <2> QED BY <1>13, <2>1, Zenon DEF ListenerFail
  <1>14. CASE MainLock
    <2>1. Idle' = Idle /\ Unpublished' = Unpublished
      BY <1>14, Zenon DEF MainLock, Idle, Unpublished
    <2> QED BY <1>14, <2>1, Zenon DEF MainLock
  <1>15. CASE MainBlock
    <2>1. Idle' = Idle /\ Unpublished' = Unpublished
      BY <1>15, Zenon DEF MainBlock, Idle, Unpublished
    <2> QED BY <1>15, <2>1, Zenon DEF MainBlock
  <1>16. CASE MainErrorLocked
    <2>1. Idle' = Idle /\ Unpublished' = Unpublished
      BY <1>16, Zenon DEF MainErrorLocked, Idle, Unpublished
    <2> QED BY <1>16, <2>1, Zenon DEF MainErrorLocked
  <1>17. CASE MainTake
    <2>1. Idle' = Idle /\ Unpublished' = Unpublished
      BY <1>17, Zenon DEF MainTake, Idle, Unpublished
    <2> QED BY <1>17, <2>1, Zenon DEF MainTake
  <1>18. CASE MainConsume
    <2>1. Idle' = Idle /\ Unpublished' = Unpublished
      BY <1>18, Zenon DEF MainConsume, Idle, Unpublished
    <2> QED BY <1>18, <2>1, Zenon DEF MainConsume
  <1>19. CASE MainAllRead
    <2>1. Idle' = Idle /\ Unpublished' = Unpublished
      BY <1>19, Zenon DEF MainAllRead, Idle, Unpublished
    <2> QED BY <1>19, <2>1, Zenon DEF MainAllRead
  <1>20. CASE MainThrow
    <2>1. Idle' = Idle /\ Unpublished' = Unpublished
      BY <1>20, Zenon DEF MainThrow, Idle, Unpublished
    <2> QED BY <1>20, <2>1, Zenon DEF MainThrow
  <1>21. CASE SpuriousWakeup
    <2>1. Idle' = Idle /\ Unpublished' = Unpublished
      BY <1>21, Zenon DEF SpuriousWakeup, WaitingWorkers, Idle, Unpublished
    <2> QED BY <1>21, <2>1, Zenon DEF SpuriousWakeup
  <1>22. CASE UNCHANGED vars
    <2>1. Idle' = Idle /\ Unpublished' = Unpublished
      BY <1>22, Zenon DEF vars, Idle, Unpublished
    <2> QED BY <1>22, <2>1, Zenon DEF vars
  <1> QED
    BY <1>1, <1>2, <1>3, <1>4, <1>5, <1>6, <1>7, <1>8, <1>9, <1>10, <1>11, <1>12, ZenonT(40),
       <1>13, <1>14, <1>15, <1>16, <1>17, <1>18, <1>19, <1>20, <1>21, <1>22
    DEF Next, MainNext, WorkerNext, ListenerNext

\* The main thread waits only for something that is still to come.
LEMMA MainStep == IInv /\ [Next]_vars => MainInv'
  <1> SUFFICES ASSUME IInv, [Next]_vars PROVE MainInv'
    OBVIOUS
  <1> USE ConstantsOK DEF IInv, TypeOK, Acquire, Release, shared, crew, workers, main, listen,
        NoFile, NoMsg, MainInv, NoLostWakeup, LockInv
  <1>1. ASSUME NEW w \in Workers, WorkerStart(w) PROVE MainInv'
    BY <1>1, Zenon DEF WorkerStart
  <1>2. ASSUME NEW w \in Workers, WorkerWait(w) PROVE MainInv'
    BY <1>2, Zenon DEF WorkerWait
  <1>3. ASSUME NEW w \in Workers, WorkerWake(w) PROVE MainInv'
    BY <1>3, Zenon DEF WorkerWake
  <1>4. ASSUME NEW w \in Workers, WorkerTake(w) PROVE MainInv'
    BY <1>4, Zenon DEF WorkerTake
  <1>5. ASSUME NEW w \in Workers, WorkerMakeFile(w) PROVE MainInv'
    BY <1>5, Zenon DEF WorkerMakeFile
  <1>6. ASSUME NEW w \in Workers, WorkerPublish(w) PROVE MainInv'
    BY <1>6, Zenon DEF WorkerPublish, SignalNewFileAvailable
  <1>7. ASSUME NEW w \in Workers, WorkerFail(w) PROVE MainInv'
    BY <1>7 DEF WorkerFail
  <1>8. ASSUME NEW w \in Workers, WorkerLoop(w) PROVE MainInv'
    BY <1>8, Zenon DEF WorkerLoop, NothingLeft
  <1>9. ASSUME NEW w \in Workers, WorkerExit(w) PROVE MainInv'
    BY <1>9, Zenon DEF WorkerExit, NothingLeft, SignalNewFileAvailable
  <1>10. CASE ListenerOpen
    BY <1>10, Zenon DEF ListenerOpen
  <1>11. ASSUME NEW s \in Slots, ListenerFile(s) PROVE MainInv'
    BY <1>11, Zenon DEF ListenerFile, CursorFor, SignalParseWorkReady, WaitingWorkers
  <1>12. CASE ListenerEnd
    BY <1>12, Zenon DEF ListenerEnd
  <1>13. CASE ListenerFail
    BY <1>13, Zenon DEF ListenerFail, SignalNewFileAvailable
  <1>14. CASE MainLock
    BY <1>14, Zenon DEF MainLock, LockInv
  <1>15. CASE MainBlock
    BY <1>15, Zenon DEF MainBlock, LockInv
  <1>16. CASE MainErrorLocked
    BY <1>16, Zenon DEF MainErrorLocked
  <1>17. CASE MainTake
    BY <1>17, Zenon DEF MainTake
  <1>18. CASE MainConsume
    BY <1>18 DEF MainConsume, AfterFile, Slots
  <1>19. CASE MainAllRead
    BY <1>19, Zenon DEF MainAllRead
  <1>20. CASE MainThrow
    BY <1>20, Zenon DEF MainThrow
  <1>21. CASE SpuriousWakeup
    BY <1>21, Zenon DEF SpuriousWakeup, WaitingWorkers
  <1>22. CASE UNCHANGED vars
    BY <1>22, Zenon DEF vars
  <1> QED
    BY <1>1, <1>2, <1>3, <1>4, <1>5, <1>6, <1>7, <1>8, <1>9, <1>10, <1>11, <1>12, ZenonT(40),
       <1>13, <1>14, <1>15, <1>16, <1>17, <1>18, <1>19, <1>20, <1>21, <1>22
    DEF Next, MainNext, WorkerNext, ListenerNext

\* A step that moves no worker and no file, and clears no error, keeps CrewInv.
LEMMA CrewKept ==
  ASSUME CrewInv, UNCHANGED <<wpc, inputFiles, availableInputFiles>>,
         exception' = exception \/ exception' # NoMsg
  PROVE  CrewInv'
  <1>1. Unpublished' = Unpublished
    BY Zenon DEF Unpublished
  <1>2. NoEarlyExit'
    BY <1>1, Zenon DEF CrewInv, NoEarlyExit, NoMsg
  <1>3. WorkIsAttended'
    BY Zenon DEF CrewInv, WorkIsAttended, NoMsg
  <1> QED BY <1>2, <1>3, Zenon DEF CrewInv

\* Nobody leaves early, and ready files do not wait for a worker that sleeps.
LEMMA CrewStep == IInv /\ [Next]_vars => CrewInv'
  <1> SUFFICES ASSUME IInv, [Next]_vars PROVE CrewInv'
    OBVIOUS
  <1> USE ConstantsOK DEF IInv, TypeOK, Acquire, Release, shared, crew, workers, main, listen,
        NoFile, NoMsg, CrewInv, NoEarlyExit, WorkIsAttended, LockInv
  <1>1. ASSUME NEW w \in Workers, WorkerStart(w) PROVE CrewInv'
    BY <1>1 DEF WorkerStart, Unpublished
  <1>2. ASSUME NEW w \in Workers, WorkerWait(w) PROVE CrewInv'
    BY <1>2 DEF WorkerWait, Unpublished
  <1>3. ASSUME NEW w \in Workers, WorkerWake(w) PROVE CrewInv'
    BY <1>3 DEF WorkerWake, Unpublished
  <1>4. ASSUME NEW w \in Workers, WorkerTake(w) PROVE CrewInv'
    BY <1>4 DEF WorkerTake, Unpublished
  <1>5. ASSUME NEW w \in Workers, WorkerMakeFile(w) PROVE CrewInv'
    BY <1>5 DEF WorkerMakeFile, Unpublished
  <1>6. ASSUME NEW w \in Workers, WorkerPublish(w) PROVE CrewInv'
    BY <1>6 DEF WorkerPublish, SignalNewFileAvailable, Unpublished
  <1>7. ASSUME NEW w \in Workers, WorkerFail(w) PROVE CrewInv'
    BY <1>7 DEF WorkerFail, Unpublished
  <1>8. ASSUME NEW w \in Workers, WorkerLoop(w) PROVE CrewInv'
    BY <1>8 DEF WorkerLoop, NothingLeft, Unpublished
  <1>9. ASSUME NEW w \in Workers, WorkerExit(w) PROVE CrewInv'
    <2>1. UNCHANGED <<inputFiles, exception, availableInputFiles>> /\ wpc'[w] = "exited"
      BY <1>9, Zenon DEF WorkerExit, NothingLeft
    <2>2. Unpublished' = Unpublished
      BY <2>1, Zenon DEF Unpublished
    <2>3. exception # NoMsg \/ Unpublished = {}
      <3>1. Unpublished \subseteq Slots
        BY Zenon DEF Unpublished
      <3> QED BY <1>9, <3>1, SlotsFinite, SubsetFinite, Zenon DEF WorkerExit, NothingLeft, CountersExact
    <2>4. exception # NoMsg \/ availableInputFiles = 0
      <3>1. readyToParse \subseteq Unpublished
        BY Zenon DEF SlotInv, Unpublished
      <3> QED BY <2>3, <3>1, FS_EmptySet, Zenon DEF CountersExact
    <2> QED BY <2>1, <2>2, <2>3, <2>4
  <1>10. CASE ListenerOpen
    BY <1>10, CrewKept, Zenon DEF ListenerOpen
  <1>11. ASSUME NEW s \in Slots, ListenerFile(s) PROVE CrewInv'
    <2>1. /\ s \in Unpublished
          /\ UNCHANGED <<inputFiles, exception>>
          /\ Unpublished' = Unpublished
      BY <1>11 DEF ListenerFile, CursorFor, SlotInv, Unpublished
    <2>2. \A v \in Workers : wpc'[v] = wpc[v] \/ (wpc[v] = "waiting" /\ wpc'[v] = "woken")
      BY <1>11 DEF ListenerFile, CursorFor, SignalParseWorkReady, WaitingWorkers
    <2>3. NoEarlyExit'
      BY <2>1, <2>2, Zenon
    <2>4. ASSUME exception = NoMsg
          PROVE  \E v \in Workers : wpc'[v] \notin {"none", "waiting", "exited"}
      <3>1. \A v \in Workers : wpc[v] # "exited"
        BY <2>1, <2>4, Zenon
      <3>2. CASE idleWorkers = 0
        <4>1. Idle \subseteq Workers
          BY Zenon DEF Idle
        <4>2. Idle = {}
          BY <3>2, <4>1, SubsetFinite, Zenon DEF CountersExact
        <4> QED BY <2>2, <3>1, <4>2, ZenonT(40) DEF Idle
      <3>3. CASE idleWorkers > 0 /\ WaitingWorkers # {}
        BY <1>11, <3>3 DEF ListenerFile, CursorFor, SignalParseWorkReady, WaitingWorkers
      <3>4. CASE idleWorkers > 0 /\ WaitingWorkers = {}
        <4>1. Idle # {}
          BY <3>4, FS_EmptySet DEF CountersExact
        <4> QED BY <2>2, <3>4, <4>1, Zenon DEF Idle, WaitingWorkers
      <3> QED BY <3>2, <3>3, <3>4
    <2> QED BY <2>1, <2>2, <2>3, <2>4, Zenon
  <1>12. CASE ListenerEnd
    BY <1>12, CrewKept, Zenon DEF ListenerEnd
  <1>13. CASE ListenerFail
    <2>1. /\ UNCHANGED <<wpc, inputFiles, availableInputFiles>>
          /\ exception' # NoMsg
      BY <1>13, Zenon DEF ListenerFail, SignalNewFileAvailable
    <2> QED BY <2>1, CrewKept, Zenon
  <1>14. CASE MainLock
    BY <1>14, CrewKept, Zenon DEF MainLock
  <1>15. CASE MainBlock
    BY <1>15 DEF MainBlock, LockInv, Unpublished
  <1>16. CASE MainErrorLocked
    BY <1>16, CrewKept, Zenon DEF MainErrorLocked
  <1>17. CASE MainTake
    BY <1>17, CrewKept, Zenon DEF MainTake
  <1>18. CASE MainConsume
    BY <1>18, CrewKept, Zenon DEF MainConsume
  <1>19. CASE MainAllRead
    BY <1>19, CrewKept, Zenon DEF MainAllRead
  <1>20. CASE MainThrow
    BY <1>20, CrewKept, Zenon DEF MainThrow
  <1>21. CASE SpuriousWakeup
    BY <1>21 DEF SpuriousWakeup, WaitingWorkers, Unpublished
  <1>22. CASE UNCHANGED vars
    BY <1>22, CrewKept, Zenon DEF vars
  <1> QED
    BY <1>1, <1>2, <1>3, <1>4, <1>5, <1>6, <1>7, <1>8, <1>9, <1>10, <1>11, <1>12, ZenonT(40),
       <1>13, <1>14, <1>15, <1>16, <1>17, <1>18, <1>19, <1>20, <1>21, <1>22
    DEF Next, MainNext, WorkerNext, ListenerNext
-----------------------------------------------------------------------------
(* The theorems.                                                           *)

\* The inductive invariant holds in every reachable state.
THEOREM Invariance == Spec => []IInv
  <1>1. IInv /\ [Next]_vars => IInv'
    BY TypeStep, LockStep, SlotStep, CountStep, MainStep, CrewStep, Zenon DEF IInv
  <1> QED BY InitIInv, <1>1, PTL DEF Spec

\* Type correctness.
THEOREM TypeCorrect == Spec => []TypeOK
  BY Invariance, PTL DEF IInv

\* The assertion in parseWorkerThread never fails, for any number of files and
\* threads: _availableInputFiles promises a ready slot at or after the cursor.
THEOREM AssertNeverFails == Spec => []AssertHolds
  <1>1. IInv => AssertHolds
    <2> SUFFICES ASSUME IInv, availableInputFiles # 0 PROVE ParsableFromCursor # {}
      BY Zenon DEF AssertHolds
    <2>1. readyToParse # {}
      BY SlotsFinite, SubsetFinite, Zenon DEF IInv, TypeOK, CountersExact
    <2> QED BY <2>1, Zenon DEF IInv, TypeOK, SlotInv, ParsableFromCursor, IsParsable
  <1> QED BY Invariance, <1>1, PTL

\* No input file is parsed by two workers, or again after it was published.
THEOREM NoFileParsedTwice == Spec => []ParsedOnce
  <1>1. IInv => ParsedOnce
    BY Zenon DEF IInv, SlotInv
  <1> QED BY Invariance, <1>1, PTL

\* _availableInputFiles, _idleWorkers and _remainingInputFiles are exact.
THEOREM CountersAreExact == Spec => []CountersExact
  BY Invariance, PTL DEF IInv

\* No worker leaves while files are missing and no error is pending.
THEOREM NoWorkerLeavesEarly == Spec => []NoEarlyExit
  <1>1. IInv => NoEarlyExit
    BY Zenon DEF IInv, CrewInv
  <1> QED BY Invariance, <1>1, PTL

\* No signal on _newFileAvailable that main needs is lost.
THEOREM MainWakeupNotLost == Spec => []NoLostWakeup
  <1>1. IInv => NoLostWakeup
    BY Zenon DEF IInv, MainInv
  <1> QED BY Invariance, <1>1, PTL

\* No signal on _parseWorkReady that a ready file needs is lost.
THEOREM ReadyFilesAttended == Spec => []WorkIsAttended
  <1>1. IInv => WorkIsAttended
    BY Zenon DEF IInv, CrewInv
  <1> QED BY Invariance, <1>1, PTL
-----------------------------------------------------------------------------
\* Only WorkerPublish writes a slot of _inputFiles.
LEMMA OnlyPublishWrites ==
  ASSUME [Next]_vars, ~ \E w \in Workers : WorkerPublish(w)
  PROVE  UNCHANGED inputFiles
  BY Zenon DEF Next, MainNext, WorkerNext, ListenerNext, vars, shared,
     WorkerStart, WorkerWait, WorkerWake, WorkerTake, WorkerMakeFile, WorkerFail,
     WorkerLoop, WorkerExit, ListenerOpen, ListenerFile, ListenerEnd, ListenerFail,
     MainLock, MainBlock, MainErrorLocked, MainTake, MainConsume, MainAllRead,
     MainThrow, SpuriousWakeup

\* What a publishing worker writes: its own file, into its own empty slot.
LEMMA PublishEffect ==
  ASSUME IInv, NEW w \in Workers, WorkerPublish(w)
  PROVE  /\ wslot[w] \in Slots
         /\ inputFiles[wslot[w]] = NoFile
         /\ inputFiles' = [inputFiles EXCEPT ![wslot[w]] = wslot[w]]
  BY Zenon DEF IInv, WorkerPublish, SlotInv, ParsedOnce, Holding

\* A published file stays in its slot: main may read it without the lock.
THEOREM SlotsAreWrittenOnce == Spec => SlotsWrittenOnce
  <1> DEFINE A == \A s \in Slots : inputFiles'[s] # inputFiles[s] =>
                     inputFiles[s] = NoFile /\ inputFiles'[s] = s
  <1>1. IInv /\ [Next]_vars => [A]_inputFiles
    <2> SUFFICES ASSUME IInv, [Next]_vars PROVE [A]_inputFiles
      BY Zenon
    <2>1. ASSUME NEW w \in Workers, WorkerPublish(w) PROVE A
      BY <2>1, PublishEffect, Zenon DEF IInv, TypeOK
    <2> QED BY <2>1, OnlyPublishWrites, Zenon
  <1> QED BY Invariance, <1>1, PTL DEF Spec, SlotsWrittenOnce
-----------------------------------------------------------------------------
\* The pool starts where OrderedDelivery does.
LEMMA RefinesInit == Init => OD!Init
  BY Zenon DEF Init, OD!Init, Unpublished, Delivered, NoMsg

\* Every step of a thread is a step of OrderedDelivery, or changes none of its
\* variables.
LEMMA RefinesStep == IInv /\ [Next]_vars => [OD!Next]_(OD!avars)
  <1> SUFFICES ASSUME IInv, [Next]_vars PROVE OD!Next \/ UNCHANGED OD!avars
    BY Zenon
  <1> USE ConstantsOK DEF IInv, TypeOK, Acquire, Release, shared, crew, workers, main, listen,
        NoMsg, Delivered, Unpublished, OD!avars
  <1>1. ASSUME NEW w \in Workers, WorkerStart(w) PROVE UNCHANGED OD!avars
    BY <1>1, Zenon DEF WorkerStart
  <1>2. ASSUME NEW w \in Workers, WorkerWait(w) PROVE UNCHANGED OD!avars
    BY <1>2, Zenon DEF WorkerWait
  <1>3. ASSUME NEW w \in Workers, WorkerWake(w) PROVE UNCHANGED OD!avars
    BY <1>3, Zenon DEF WorkerWake
  <1>4. ASSUME NEW w \in Workers, WorkerTake(w) PROVE UNCHANGED OD!avars
    BY <1>4, Zenon DEF WorkerTake
  <1>5. ASSUME NEW w \in Workers, WorkerMakeFile(w) PROVE UNCHANGED OD!avars
    BY <1>5, Zenon DEF WorkerMakeFile
  <1>6. ASSUME NEW w \in Workers, WorkerPublish(w) PROVE OD!Next
    <2>1. PICK s \in Slots : s = wslot[w]
      BY <1>6, PublishEffect, Zenon
    <2>2. OD!Parse(s)
      <3>1. s \notin Slots \ Unpublished
        BY <1>6, <2>1, PublishEffect, Zenon
      <3>2. (Slots \ Unpublished)' = (Slots \ Unpublished) \cup {s}
        <4>1. inputFiles'[s] = s /\ \A t \in Slots \ {s} : inputFiles'[t] = inputFiles[t]
          BY <1>6, <2>1, PublishEffect DEF IInv, TypeOK
        <4>2. s # NoFile
          BY <2>1 DEF Slots, NoFile
        <4> QED BY <2>1, <4>1, <4>2, Zenon DEF Unpublished
      <3>3. UNCHANGED <<fileIndex, exception>>
        BY <1>6, Zenon DEF WorkerPublish
      <3>4. mpc' = mpc \/ (mpc = "waiting" /\ mpc' = "woken")
        BY <1>6, Zenon DEF WorkerPublish, SignalNewFileAvailable
      <3> QED BY <3>1, <3>2, <3>3, <3>4, Zenon DEF OD!Parse
    <2> QED BY <2>2, Zenon DEF OD!Next, OD!Files, Slots
  <1>7. ASSUME NEW w \in Workers, WorkerFail(w) PROVE OD!Next
    BY <1>7, Zenon DEF WorkerFail, OD!Next, OD!Fail
  <1>8. ASSUME NEW w \in Workers, WorkerLoop(w) PROVE UNCHANGED OD!avars
    BY <1>8, Zenon DEF WorkerLoop, NothingLeft
  <1>9. ASSUME NEW w \in Workers, WorkerExit(w) PROVE UNCHANGED OD!avars
    BY <1>9, Zenon DEF WorkerExit, NothingLeft, SignalNewFileAvailable
  <1>10. ASSUME ListenerOpen PROVE UNCHANGED OD!avars
    BY <1>10, Zenon DEF ListenerOpen
  <1>11. ASSUME NEW s \in Slots, ListenerFile(s) PROVE UNCHANGED OD!avars
    BY <1>11, Zenon DEF ListenerFile, CursorFor
  <1>12. ASSUME ListenerEnd PROVE UNCHANGED OD!avars
    BY <1>12, Zenon DEF ListenerEnd
  <1>13. CASE ListenerFail
    BY <1>13, Zenon DEF ListenerFail, SignalNewFileAvailable, OD!Next, OD!Fail
  <1>14. ASSUME MainLock PROVE UNCHANGED OD!avars
    BY <1>14, Zenon DEF MainLock
  <1>15. ASSUME MainBlock PROVE UNCHANGED OD!avars
    BY <1>15, Zenon DEF MainBlock
  <1>16. ASSUME MainErrorLocked PROVE UNCHANGED OD!avars
    BY <1>16, Zenon DEF MainErrorLocked
  <1>17. CASE MainTake
    BY <1>17, Zenon DEF MainTake, MainInv, OD!Next, OD!Deliver
  <1>18. CASE MainConsume
    BY <1>18, Zenon DEF MainConsume, AfterFile, OD!Next, OD!Fail, OD!Throw
  <1>19. CASE MainAllRead
    BY <1>19, Zenon DEF MainAllRead, MainInv, OD!Next, OD!Finish
  <1>20. CASE MainThrow
    BY <1>20, Zenon DEF MainThrow, MainInv, OD!Next, OD!Throw
  <1>21. ASSUME SpuriousWakeup PROVE UNCHANGED OD!avars
    BY <1>21, Zenon DEF SpuriousWakeup
  <1>22. CASE UNCHANGED vars
    BY <1>22, Zenon DEF vars
  <1> QED
    BY <1>1, <1>2, <1>3, <1>4, <1>5, <1>6, <1>7, <1>8, <1>9, <1>10, <1>11, <1>12, ZenonT(40),
       <1>13, <1>14, <1>15, <1>16, <1>17, <1>18, <1>19, <1>20, <1>21, <1>22
    DEF Next, MainNext, WorkerNext, ListenerNext

\* Whatever the threads do, the resolver gets the files in command line order,
\* each fully parsed, none after an error, all of them if the phase succeeds.
THEOREM PoolDeliversInOrder == Spec => DeliversInOrder
  BY RefinesInit, RefinesStep, Invariance, PTL DEF Spec, DeliversInOrder, OD!Spec
-----------------------------------------------------------------------------
(* Nobody waits for ever.                                                  *)

\* A step that takes no slot out of anybody's hands, starts no worker and ends the
\* listener only when its map is empty, or that records an error.
LEMMA SupplyKept ==
  ASSUME SupplyInv, availableWorkers' = availableWorkers, Unstarted' = Unstarted,
         exception' = NoMsg =>
           /\ exception = NoMsg /\ UNCHANGED <<inputFiles, readyToParse, fileMap>>
           /\ \A w \in Workers : Holding(w) => Holding(w)' /\ wslot'[w] = wslot[w]
           /\ lpc' = "ended" => lpc = "ended" \/ fileMap = {}
  PROVE  SupplyInv'
  <1>1. ASSUME exception' = NoMsg, NEW s \in Unpublished' PROVE Pending(s)'
    <2>1. s \in Unpublished /\ Pending(s)
      BY <1>1, Zenon DEF SupplyInv, Unpublished
    <2>2. CASE HasSlot(s)
      BY <1>1, <2>2, Zenon DEF HasSlot, Pending
    <2>3. CASE ~HasSlot(s)
      BY <1>1, <2>1, <2>3, Zenon DEF Pending, DroppedSlots, MappedSlots
    <2> QED BY <2>2, <2>3, Zenon
  <1>2. lpc' = "ended" /\ exception' = NoMsg => fileMap' = {}
    BY Zenon DEF SupplyInv
  <1> QED BY <1>1, <1>2, Zenon DEF SupplyInv

\* Initially a slot is ready, or in the listener's map, or dropped from it.
LEMMA InitSupply == Init => SupplyInv
  <1> SUFFICES ASSUME Init PROVE SupplyInv
    BY Zenon
  <1> USE DEF Init
  <1>1. \A s \in Slots : Pending(s)
    BY ConstantsOK, Zenon DEF Pending, DroppedSlots, InitiallyReady
  <1>2. lpc = "ended" => fileMap = {}
    BY Zenon
  <1>3. availableWorkers <= Cardinality(Unstarted)
    <2>1. PICK w0 \in Workers : wpc = [v \in Workers |-> IF v = w0 THEN "starting" ELSE "none"]
      BY Zenon
    <2>2. Unstarted = Workers \ {w0}
      BY <2>1 DEF Unstarted
    <2>3. Cardinality(Unstarted) = Cardinality(Workers) - 1
      BY <2>2, ConstantsOK, CountDown, Zenon
    <2>4. Cardinality(Workers) \in Nat
      BY ConstantsOK, FS_CardinalityType, Zenon
    <2> QED BY <2>3, <2>4, ConstantsOK DEF Min2
  <1> QED BY <1>1, <1>2, <1>3, Zenon DEF SupplyInv, Unpublished

\* A worker that is neither started nor given a file.
LEMMA SupplySteps ==
  ASSUME IInv, SupplyInv, NEW w \in Workers,
         \/ WorkerStart(w) \/ WorkerWait(w) \/ WorkerWake(w) \/ WorkerMakeFile(w)
         \/ WorkerFail(w) \/ WorkerLoop(w)
  PROVE  SupplyInv'
  <1> USE DEF IInv, TypeOK
  <1>1. /\ availableWorkers' = availableWorkers /\ wpc[w] # "none" /\ lpc' = lpc
        /\ UNCHANGED <<inputFiles, readyToParse, fileMap, wslot>>
        /\ \A v \in Workers : v # w => wpc'[v] = wpc[v]
        /\ wpc'[w] # "none"
    BY Zenon DEF WorkerStart, WorkerWait, WorkerWake, WorkerMakeFile, WorkerFail, WorkerLoop,
       shared, crew, listen
  <1>2. Unstarted' = Unstarted
    BY <1>1, Zenon DEF Unstarted
  <1>3. exception' = NoMsg => exception = NoMsg /\ (Holding(w) => Holding(w)')
    BY Zenon DEF WorkerStart, WorkerWait, WorkerWake, WorkerMakeFile, WorkerFail, WorkerLoop,
       Holding, NoMsg
  <1>4. \A v \in Workers : v # w /\ Holding(v) => Holding(v)'
    BY <1>1, Zenon DEF Holding
  <1> QED BY <1>1, <1>2, <1>3, <1>4, SupplyKept, Zenon

\* A file that becomes ready, is taken or is published stays accounted for.
LEMMA SupplyStep == IInv /\ SupplyInv /\ [Next]_vars => SupplyInv'
  <1> SUFFICES ASSUME IInv, SupplyInv, [Next]_vars PROVE SupplyInv'
    BY Zenon
  <1> USE DEF IInv, TypeOK
  <1>1. ASSUME NEW w \in Workers, WorkerTake(w) PROVE SupplyInv'
    <2>1. PICK s \in Slots : wslot' = [wslot EXCEPT ![w] = s] /\ readyToParse' = readyToParse \ {s}
      BY <1>1, Zenon DEF WorkerTake
    <2>2. /\ wpc[w] = "body" /\ wpc' = [wpc EXCEPT ![w] = "parsing"]
          /\ UNCHANGED <<inputFiles, fileMap, lpc, exception, availableWorkers>>
      BY <1>1, Zenon DEF WorkerTake, crew, listen
    <2>3. /\ wpc'[w] = "parsing" /\ wslot'[w] = s
          /\ \A v \in Workers : v # w => wpc'[v] = wpc[v] /\ wslot'[v] = wslot[v]
      BY <2>1, <2>2, Zenon
    <2>4. Unstarted' = Unstarted /\ Unpublished' = Unpublished
      BY <2>2, <2>3, Zenon DEF Unstarted, Unpublished
    <2>5. ASSUME NEW t \in Slots, Pending(t) PROVE Pending(t)'
      <3>1. CASE t = s
        BY <2>3, <3>1, Zenon DEF Pending, HasSlot, Holding
      <3>2. CASE HasSlot(t)
        BY <2>2, <2>3, <3>2, Zenon DEF Pending, HasSlot, Holding
      <3>3. CASE t # s /\ ~HasSlot(t)
        BY <2>1, <2>2, <2>5, <3>3, Zenon DEF Pending, DroppedSlots, MappedSlots
      <3> QED BY <3>1, <3>2, <3>3, Zenon
    <2> QED BY <2>2, <2>4, <2>5, Zenon DEF SupplyInv, Unpublished
  <1>2. ASSUME NEW w \in Workers, WorkerPublish(w) PROVE SupplyInv'
    <2>1. /\ wpc[w] = "parsed" /\ wpc' = [wpc EXCEPT ![w] = "test"]
          /\ inputFiles' = [inputFiles EXCEPT ![wslot[w]] = wfile[w]] /\ wfile[w] # NoFile
          /\ UNCHANGED <<readyToParse, fileMap, wslot, lpc, exception, availableWorkers>>
      BY <1>2, Zenon DEF WorkerPublish, crew, listen
    <2>2. wslot[w] \in Slots
      BY <2>1, Zenon DEF SlotInv, Holding
    <2>3. wpc'[w] = "test" /\ \A v \in Workers : v # w => wpc'[v] = wpc[v]
      BY <2>1, Zenon
    <2>4. Unstarted' = Unstarted
      BY <2>1, <2>3, Zenon DEF Unstarted
    <2>5. Unpublished' = Unpublished \ {wslot[w]}
      BY <2>1, <2>2, Zenon DEF Unpublished
    <2>6. ASSUME NEW t \in Slots, Pending(t), t # wslot[w] PROVE Pending(t)'
      <3>1. CASE HasSlot(t)
        BY <2>1, <2>3, <2>6, <3>1, Zenon DEF Pending, HasSlot, Holding
      <3>2. CASE ~HasSlot(t)
        BY <2>1, <2>6, <3>2, Zenon DEF Pending, DroppedSlots, MappedSlots
      <3> QED BY <3>1, <3>2, Zenon
    <2> QED BY <2>1, <2>4, <2>5, <2>6, Zenon DEF SupplyInv, Unpublished
  <1>3. ASSUME NEW s \in Slots, ListenerFile(s) PROVE SupplyInv'
    <2>1. \A v \in Workers : wpc'[v] = wpc[v] \/ (wpc[v] = "waiting" /\ wpc'[v] = "woken")
      BY <1>3, Zenon DEF ListenerFile, SignalParseWorkReady, WaitingWorkers
    <2>2. /\ fileMap' = fileMap \ {s} /\ readyToParse' = readyToParse \cup {s} /\ lpc = "listening"
          /\ UNCHANGED <<inputFiles, wslot, lpc, exception, availableWorkers>>
      BY <1>3, Zenon DEF ListenerFile, crew
    <2>3. Unstarted' = Unstarted /\ Unpublished' = Unpublished
      BY <2>1, <2>2, Zenon DEF Unstarted, Unpublished
    <2>4. ASSUME NEW t \in Slots, Pending(t) PROVE Pending(t)'
      <3>1. CASE HasSlot(t)
        BY <2>1, <2>2, <3>1, Zenon DEF Pending, HasSlot, Holding
      <3>2. CASE ~HasSlot(t)
        BY <2>2, <2>4, <3>2, Zenon DEF Pending, DroppedSlots, MappedSlots
      <3> QED BY <3>1, <3>2, Zenon
    <2> QED BY <2>2, <2>3, <2>4, Zenon DEF SupplyInv, Unpublished
  <1>4. CASE MainBlock
    <2>1. /\ UNCHANGED <<inputFiles, readyToParse, fileMap, wslot, lpc, exception>>
      BY <1>4, Zenon DEF MainBlock, shared, listen
    <2>2. CASE UNCHANGED <<wpc, availableWorkers>>
      BY <2>1, <2>2, SupplyKept, Zenon DEF Unstarted, Holding
    <2>3. CASE ~UNCHANGED <<wpc, availableWorkers>>
      <3>1. PICK w \in Workers : /\ wpc[w] = "none" /\ wpc' = [wpc EXCEPT ![w] = "starting"]
                                 /\ availableWorkers' = availableWorkers - 1
        BY <1>4, <2>3, Zenon DEF MainBlock
      <3>2. wpc'[w] = "starting" /\ \A v \in Workers : v # w => wpc'[v] = wpc[v]
        BY <3>1, Zenon
      <3>3. w \in Unstarted /\ Unstarted' = Unstarted \ {w} /\ Unstarted \subseteq Workers
        BY <3>1, <3>2, Zenon DEF Unstarted
      <3>4. Cardinality(Unstarted') = Cardinality(Unstarted) - 1 /\ Cardinality(Unstarted) \in Nat
        BY <3>3, ConstantsOK, CountDown, SubsetFinite, Zenon
      <3>5. availableWorkers' <= Cardinality(Unstarted')
        BY <3>1, <3>4 DEF SupplyInv
      <3>6. Unpublished' = Unpublished
        BY <2>1, Zenon DEF Unpublished
      <3>7. ASSUME NEW t \in Slots, Pending(t) PROVE Pending(t)'
        <4>1. CASE HasSlot(t)
          BY <2>1, <3>1, <3>2, <4>1, Zenon DEF Pending, HasSlot, Holding
        <4>2. CASE ~HasSlot(t)
          BY <2>1, <3>7, <4>2, Zenon DEF Pending, DroppedSlots, MappedSlots
        <4> QED BY <4>1, <4>2, Zenon
      <3> QED BY <2>1, <3>5, <3>6, <3>7, Zenon DEF SupplyInv, Unpublished
    <2> QED BY <2>2, <2>3, Zenon
  <1>5. ASSUME NEW w \in Workers, WorkerExit(w) PROVE SupplyInv'
    <2>1. /\ \A v \in Workers : \/ wpc'[v] = wpc[v] \/ (wpc[v] = "waiting" /\ wpc'[v] = "woken")
                                \/ (wpc[v] = "test" /\ wpc'[v] = "exited")
          /\ UNCHANGED <<inputFiles, readyToParse, fileMap, wslot, lpc, exception, availableWorkers>>
      BY <1>5, Zenon DEF WorkerExit, shared, crew, listen
    <2>2. Unstarted' = Unstarted
      BY <2>1, Zenon DEF Unstarted
    <2>3. \A v \in Workers : Holding(v) => Holding(v)'
      BY <2>1, Zenon DEF Holding
    <2> QED BY <2>1, <2>2, <2>3, SupplyKept, Zenon
  <1>6. CASE SpuriousWakeup
    <2>1. /\ \A v \in Workers : wpc'[v] = wpc[v] \/ (wpc[v] = "waiting" /\ wpc'[v] = "woken")
          /\ UNCHANGED <<inputFiles, readyToParse, fileMap, wslot, lpc, exception, availableWorkers>>
      BY <1>6, Zenon DEF SpuriousWakeup, WaitingWorkers, shared, crew, listen
    <2>2. Unstarted' = Unstarted
      BY <2>1, Zenon DEF Unstarted
    <2>3. \A v \in Workers : Holding(v) => Holding(v)'
      BY <2>1, Zenon DEF Holding
    <2> QED BY <2>1, <2>2, <2>3, SupplyKept, Zenon
  <1>7. CASE ListenerOpen \/ ListenerEnd \/ ListenerFail
    <2>1. /\ UNCHANGED <<inputFiles, readyToParse, fileMap, wpc, wslot, availableWorkers>>
          /\ exception' = NoMsg =>
               exception = NoMsg /\ (lpc' = "ended" => lpc = "ended" \/ fileMap = {})
      BY <1>7, Zenon DEF ListenerOpen, ListenerEnd, ListenerFail, NoMsg, shared, crew, workers
    <2> QED BY <2>1, SupplyKept, Zenon DEF Unstarted, Holding
  <1>8. CASE \/ MainLock \/ MainErrorLocked \/ MainTake \/ MainConsume \/ MainAllRead
             \/ MainThrow \/ UNCHANGED vars
    <2>1. /\ UNCHANGED <<inputFiles, readyToParse, fileMap, lpc, wpc, wslot, availableWorkers>>
          /\ exception' = NoMsg => exception = NoMsg
      BY <1>8, Zenon DEF MainLock, MainErrorLocked, MainTake, MainConsume, MainAllRead,
         MainThrow, NoMsg, shared, crew, workers, listen, vars
    <2> QED BY <2>1, SupplyKept, Zenon DEF Unstarted, Holding
  <1> QED BY <1>1, <1>2, <1>3, <1>4, <1>5, <1>6, <1>7, <1>8, SupplySteps, Zenon
          DEF Next, MainNext, WorkerNext, ListenerNext

\* As long as nothing fails, every file that is not there yet will come.
LEMMA SupplyInvariance == Spec => []SupplyInv
  BY Invariance, InitSupply, SupplyStep, PTL DEF Spec

\* The scan of a worker that holds the lock ends at a first ready slot.
LEMMA FirstReadyExists ==
  ASSUME IInv, availableInputFiles # 0
  PROVE  \E s \in Slots : IsFirst(s, ParsableFromCursor)
  <1>1. readyToParse # {}
    BY SlotsFinite, SubsetFinite, Zenon DEF IInv, TypeOK, CountersExact
  <1>2. ParsableFromCursor = readyToParse
    BY Zenon DEF IInv, TypeOK, SlotInv, ParsableFromCursor, IsParsable
  <1>3. Slots \subseteq Nat
    BY ConstantsOK DEF Slots
  <1>4. readyToParse \subseteq Nat /\ readyToParse \subseteq Slots
    BY <1>3, Zenon DEF IInv, TypeOK
  <1>5. PICK s \in readyToParse : \A t \in readyToParse : ~(<<t, s>> \in OpToRel(<, Nat))
    BY <1>1, <1>4, NatLessThanWellFounded, WFMin, Zenon
  <1>6. \A t \in readyToParse : ~(t < s)
    BY <1>4, <1>5, Zenon DEF OpToRel
  <1>7. \A t \in readyToParse : s <= t
    BY <1>4, <1>6
  <1> QED BY <1>2, <1>4, <1>7, Zenon DEF IsFirst

\* Main, the workers and the listener never all wait for each other.
THEOREM SomebodyGoesOn == Spec => []NeverStuck
  <1>1. IInv /\ SupplyInv => NeverStuck
    <2> SUFFICES ASSUME IInv, SupplyInv, mpc \notin {"done", "thrown", "escaped"},
                        ~(mpc = "waiting" /\ fileIndex \in DroppedSlots)
                 PROVE  MainCanGo \/ ListenerCanGo \/ \E w \in Workers : WorkerCanGo(w)
      BY Zenon DEF NeverStuck
    <2>1. ASSUME NEW w \in Workers, parseLock = w PROVE WorkerCanGo(w)
      BY <2>1, FirstReadyExists, Zenon DEF IInv, LockInv, WorkerCanGo
    <2>2. CASE parseLock = "main"
      <3>1. mpc \in {"check", "sleeping"}
        BY <2>2, Zenon DEF IInv, LockInv
      <3>2. ASSUME availableWorkers > 0 PROVE \E w \in Workers : wpc[w] = "none"
        <4>1. availableWorkers <= Cardinality(Unstarted) /\ availableWorkers \in Nat
          BY Zenon DEF SupplyInv, IInv, TypeOK
        <4>2. Unstarted \subseteq Workers
          BY Zenon DEF Unstarted
        <4>3. Cardinality(Unstarted) \in Nat /\ (Cardinality(Unstarted) = 0 <=> Unstarted = {})
          BY <4>2, ConstantsOK, SubsetFinite, Zenon
        <4>4. Unstarted # {}
          BY <3>2, <4>1, <4>3
        <4> QED BY <4>4, Zenon DEF Unstarted
      <3> QED BY <2>2, <3>1, <3>2, Zenon DEF MainCanGo
    <2>3. CASE parseLock = "free"
      <3>1. CASE mpc # "waiting"
        <4>1. mpc \in {"lock", "woken", "consume", "allRead", "sleeping"}
          BY <2>3, <3>1 DEF IInv, TypeOK, MainStates, LockInv
        <4> QED BY <2>3, <4>1, Zenon DEF MainCanGo
      <3>2. CASE mpc = "waiting"
        <4>1. parseLock \notin Workers
          BY <2>3, ConstantsOK, Zenon
        <4>2. fileIndex \in Unpublished /\ exception = NoMsg
          BY <3>2, <4>1, Zenon DEF IInv, MainInv, NoLostWakeup, Unpublished
        <4>3. fileIndex \in fileMap \/ fileIndex \in readyToParse \/ HasSlot(fileIndex)
          BY <3>2, <4>2, Zenon DEF SupplyInv, Pending
        <4>4. CASE HasSlot(fileIndex)
          BY <2>3, <4>4, Zenon DEF HasSlot, Holding, WorkerCanGo
        <4>5. CASE fileIndex \in fileMap
          BY <2>3, <4>2, <4>5, Zenon DEF SupplyInv, ListenerCanGo, IInv, TypeOK
        <4>6. CASE fileIndex \in readyToParse
          <5>1. readyToParse \subseteq Slots /\ availableInputFiles = Cardinality(readyToParse)
            BY Zenon DEF IInv, TypeOK, CountersExact
          <5>2. availableInputFiles \in Nat /\ availableInputFiles # 0
            BY <4>6, <5>1, SlotsFinite, SubsetFinite, Zenon
          <5>3. availableInputFiles > 0
            BY <5>2
          <5>4. PICK w \in Workers : wpc[w] \notin {"none", "waiting", "exited"}
            BY <4>2, <5>3, Zenon DEF IInv, CrewInv, WorkIsAttended
          <5>5. wpc[w] \in {"starting", "woken", "parsing", "parsed"}
            BY <4>1, <5>4, Zenon DEF IInv, TypeOK, WorkerStates, LockInv
          <5> QED BY <2>3, <5>5, Zenon DEF WorkerCanGo
        <4> QED BY <4>3, <4>4, <4>5, <4>6, Zenon
      <3> QED BY <3>1, <3>2, Zenon
    <2> QED BY <2>1, <2>2, <2>3, Zenon DEF IInv, TypeOK
  <1> QED BY Invariance, SupplyInvariance, <1>1, PTL
-----------------------------------------------------------------------------
(* The parse comes to an end.                                              *)

\* The ranks are numbers.
LEMMA RankTypes ==
  /\ \A s \in Slots : SlotRank(s) \in Nat /\ SlotRank(s)' \in Nat
  /\ \A w \in Workers : LifeRank(w) \in Nat /\ LifeRank(w)' \in Nat
  /\ \A w \in Workers : WorkerRank(w) \in Nat /\ WorkerRank(w)' \in Nat
  /\ ListenerRank \in Nat /\ ListenerRank' \in Nat /\ MainRank \in Nat /\ MainRank' \in Nat
  <1>1. \A s \in Slots : SlotRank(s) \in Nat /\ SlotRank(s)' \in Nat
    BY DEF SlotRank
  <1>2. \A w \in Workers : LifeRank(w) \in Nat /\ LifeRank(w)' \in Nat
    BY DEF LifeRank
  <1>3. \A w \in Workers : WorkerRank(w) \in Nat /\ WorkerRank(w)' \in Nat
    BY DEF WorkerRank
  <1>4. ListenerRank \in Nat /\ ListenerRank' \in Nat /\ MainRank \in Nat /\ MainRank' \in Nat
    BY DEF ListenerRank, MainRank
  <1> QED BY <1>1, <1>2, <1>3, <1>4, Zenon

\* A slot whose place does not change keeps its rank.
LEMMA SlotRankKept ==
  ASSUME NEW s \in Slots, s \in fileMap' <=> s \in fileMap, s \in readyToParse' <=> s \in readyToParse,
         \A w \in Workers : wpc'[w] = "parsing" /\ wslot'[w] = s <=> wpc[w] = "parsing" /\ wslot[w] = s,
         \A w \in Workers : wpc'[w] = "parsed" /\ wslot'[w] = s <=> wpc[w] = "parsed" /\ wslot[w] = s
  PROVE  SlotRank(s)' = SlotRank(s)
  <1>1. /\ (\E w \in Workers : wpc'[w] = "parsing" /\ wslot'[w] = s)
              <=> (\E w \in Workers : wpc[w] = "parsing" /\ wslot[w] = s)
        /\ (\E w \in Workers : wpc'[w] = "parsed" /\ wslot'[w] = s)
              <=> (\E w \in Workers : wpc[w] = "parsed" /\ wslot[w] = s)
    BY Zenon
  <1> QED BY <1>1, Zenon DEF SlotRank

\* What a step that moves workers only between their waits leaves alone.
LEMMA FilesKept ==
  ASSUME UNCHANGED <<fileMap, readyToParse, wslot>>,
         \A w \in Workers : wpc'[w] = wpc[w] \/ {wpc[w], wpc'[w]} \cap {"parsing", "parsed"} = {}
  PROVE  \A s \in Slots : SlotRank(s)' <= SlotRank(s)
  <1>1. ASSUME NEW s \in Slots PROVE SlotRank(s)' = SlotRank(s)
    BY SlotRankKept, Zenon
  <1> QED BY <1>1, RankTypes

\* A step that moves one slot closer, and no other, is progress.
LEMMA FileAdvances ==
  ASSUME TypeOK, NEW s \in Slots, SlotRank(s)' < SlotRank(s),
         \A t \in Slots : t # s => SlotRank(t)' = SlotRank(t),
         \A w \in Workers : (wpc'[w] = "none" <=> wpc[w] = "none") /\ (wpc'[w] = "exited" <=> wpc[w] = "exited"),
         UNCHANGED <<fileIndex, lpc, spurious>>
  PROVE  NothingSetBack /\ SomethingAdvances
  <1>1. \A t \in Slots : SlotRank(t)' <= SlotRank(t)
    BY RankTypes
  <1>2. \A w \in Workers : LifeRank(w)' = LifeRank(w)
    BY Zenon DEF LifeRank
  <1>3. \A w \in Workers : LifeRank(w)' <= LifeRank(w)
    BY <1>2, RankTypes
  <1>4. ListenerRank' = ListenerRank
    BY Zenon DEF ListenerRank
  <1>5. ListenerRank' <= ListenerRank /\ fileIndex' >= fileIndex /\ spurious' >= spurious
    BY <1>4, RankTypes DEF TypeOK
  <1> QED BY <1>1, <1>3, <1>5, Zenon DEF NothingSetBack, SomethingAdvances

\* The steps that move a file: it becomes ready, is taken, made, published or lost.
LEMMA FileSteps ==
  ASSUME IInv, NEW w \in Workers,
         WorkerTake(w) \/ WorkerMakeFile(w) \/ WorkerPublish(w) \/ WorkerFail(w)
  PROVE  NothingSetBack /\ SomethingAdvances
  <1> USE DEF IInv, TypeOK
  <1>0. UNCHANGED <<fileIndex, lpc, spurious, fileMap>>
    BY Zenon DEF WorkerTake, WorkerMakeFile, WorkerPublish, WorkerFail, main, listen
  <1>1. CASE WorkerTake(w)
    <2>1. PICK s \in Slots :
            /\ IsFirst(s, ParsableFromCursor)
            /\ wslot' = [wslot EXCEPT ![w] = s] /\ readyToParse' = readyToParse \ {s}
      BY <1>1, Zenon DEF WorkerTake
    <2>2. s \in readyToParse /\ s \notin fileMap
      BY <2>1, Zenon DEF IsFirst, ParsableFromCursor, IsParsable, SlotInv
    <2>3. /\ wpc[w] = "body" /\ wpc'[w] = "parsing" /\ wslot'[w] = s
          /\ \A v \in Workers : v # w => wpc'[v] = wpc[v] /\ wslot'[v] = wslot[v]
      BY <1>1, <2>1, Zenon DEF WorkerTake
    <2>4. SlotRank(s) = 3 /\ SlotRank(s)' = 2
      <3>1. s \notin fileMap' /\ s \notin readyToParse'
        BY <1>0, <2>1, <2>2, Zenon
      <3> QED BY <2>2, <2>3, <3>1, Zenon DEF SlotRank
    <2>5. ASSUME NEW t \in Slots, t # s PROVE SlotRank(t)' = SlotRank(t)
      <3>1. t \in readyToParse' <=> t \in readyToParse
        BY <2>1, <2>5, Zenon
      <3>2. \A v \in Workers : wpc'[v] = "parsing" /\ wslot'[v] = t <=> wpc[v] = "parsing" /\ wslot[v] = t
        BY <2>3, <2>5, Zenon
      <3>3. \A v \in Workers : wpc'[v] = "parsed" /\ wslot'[v] = t <=> wpc[v] = "parsed" /\ wslot[v] = t
        BY <2>3, <2>5, Zenon
      <3> QED BY <1>0, <3>1, <3>2, <3>3, SlotRankKept, Zenon
    <2>6. \A v \in Workers : (wpc'[v] = "none" <=> wpc[v] = "none") /\ (wpc'[v] = "exited" <=> wpc[v] = "exited")
      BY <2>3, Zenon
    <2>7. SlotRank(s)' < SlotRank(s)
      BY <2>4
    <2> QED BY <1>0, <2>5, <2>6, <2>7, FileAdvances, Zenon
  <1>2. CASE ~WorkerTake(w)
    <2>1. /\ \/ wpc[w] = "parsing" /\ wpc'[w] = "parsed"
             \/ wpc[w] = "parsed" /\ wpc'[w] = "test"
          /\ \A v \in Workers : v # w => wpc'[v] = wpc[v]
          /\ UNCHANGED <<wslot, readyToParse>>
      BY <1>2, Zenon DEF WorkerMakeFile, WorkerPublish, WorkerFail, shared
    <2>2. PICK s \in Slots : s = wslot[w]
      BY <2>1, Zenon DEF SlotInv, Holding
    <2>3. /\ s \notin fileMap /\ s \notin readyToParse
          /\ \A v \in Workers : v # w /\ wpc[v] \in {"parsing", "parsed"} => wslot[v] # s
      BY <2>1, <2>2, Zenon DEF SlotInv, ParsedOnce, Holding
    <2>4. SlotRank(s)' < SlotRank(s)
      <3>1. CASE wpc[w] = "parsing"
        <4>1. SlotRank(s) = 2
          BY <2>2, <2>3, <3>1, Zenon DEF SlotRank
        <4>2. SlotRank(s)' \in {0, 1}
          BY <1>0, <2>1, <2>3, <3>1, Zenon DEF SlotRank
        <4> QED BY <4>1, <4>2
      <3>2. CASE wpc[w] = "parsed"
        <4>1. SlotRank(s) \in {1, 2}
          BY <2>2, <2>3, <3>2, Zenon DEF SlotRank
        <4>2. SlotRank(s)' = 0
          BY <1>0, <2>1, <2>3, <3>2, Zenon DEF SlotRank
        <4> QED BY <4>1, <4>2
      <3> QED BY <2>1, <3>1, <3>2, Zenon
    <2>5. \A t \in Slots : t # s => SlotRank(t)' = SlotRank(t)
      BY <1>0, <2>1, <2>2, SlotRankKept, Zenon
    <2>6. \A v \in Workers : (wpc'[v] = "none" <=> wpc[v] = "none") /\ (wpc'[v] = "exited" <=> wpc[v] = "exited")
      BY <2>1, Zenon
    <2> QED BY <1>0, <2>4, <2>5, <2>6, FileAdvances, Zenon
  <1> QED BY <1>1, <1>2, Zenon

\* A path arrives on the fifo.
LEMMA FileArrives ==
  ASSUME IInv, NEW s \in Slots, ListenerFile(s)
  PROVE  NothingSetBack /\ SomethingAdvances
  <1> USE DEF IInv, TypeOK
  <1>1. \A v \in Workers : wpc'[v] = wpc[v] \/ (wpc[v] = "waiting" /\ wpc'[v] = "woken")
    BY Zenon DEF ListenerFile, SignalParseWorkReady, WaitingWorkers
  <1>2. /\ s \in fileMap /\ fileMap' = fileMap \ {s} /\ readyToParse' = readyToParse \cup {s}
        /\ UNCHANGED <<wslot, lpc, spurious, fileIndex>>
    BY Zenon DEF ListenerFile, main
  <1>3. s \notin fileMap' /\ s \in readyToParse'
    BY <1>2, Zenon
  <1>4. SlotRank(s) = 4 /\ SlotRank(s)' = 3
    BY <1>2, <1>3, Zenon DEF SlotRank
  <1>5. SlotRank(s)' < SlotRank(s)
    BY <1>4
  <1>6. ASSUME NEW t \in Slots, t # s PROVE SlotRank(t)' = SlotRank(t)
    <2>1. (t \in readyToParse' <=> t \in readyToParse) /\ (t \in fileMap' <=> t \in fileMap)
      BY <1>2, <1>6, Zenon
    <2> QED BY <1>1, <1>2, <2>1, SlotRankKept, Zenon
  <1>7. \A v \in Workers : (wpc'[v] = "none" <=> wpc[v] = "none") /\ (wpc'[v] = "exited" <=> wpc[v] = "exited")
    BY <1>1, Zenon
  <1> QED BY <1>2, <1>5, <1>6, <1>7, FileAdvances, Zenon

\* The lives of threads that a step neither starts nor ends are where they were.
LEMMA LivesKept ==
  ASSUME \A w \in Workers : (wpc'[w] = "none" => wpc[w] = "none") /\ (wpc[w] = "exited" => wpc'[w] = "exited")
  PROVE  \A w \in Workers : LifeRank(w)' <= LifeRank(w)
  BY DEF LifeRank

\* Most steps move no file; this is what is left to show for them.
LEMMA NothingBack ==
  ASSUME TypeOK, UNCHANGED <<fileMap, readyToParse, wslot>>,
         \A w \in Workers : wpc'[w] = wpc[w] \/ {wpc[w], wpc'[w]} \cap {"parsing", "parsed"} = {},
         \A w \in Workers : (wpc'[w] = "none" => wpc[w] = "none") /\ (wpc[w] = "exited" => wpc'[w] = "exited"),
         lpc' = lpc \/ ListenerRank' < ListenerRank,
         fileIndex' = fileIndex \/ fileIndex' = fileIndex + 1,
         spurious' = spurious \/ spurious' = spurious + 1
  PROVE  NothingSetBack
  <1>1. ListenerRank' <= ListenerRank
    <2>1. lpc' = lpc => ListenerRank' = ListenerRank
      BY Zenon DEF ListenerRank
    <2> QED BY <2>1, RankTypes
  <1>2. fileIndex' >= fileIndex /\ spurious' >= spurious
    BY DEF TypeOK
  <1> QED BY <1>1, <1>2, FilesKept, LivesKept, Zenon DEF NothingSetBack

\* The steps of a worker that concern no file.
LEMMA WorkerSteps ==
  ASSUME IInv, NEW w \in Workers,
         WorkerStart(w) \/ WorkerWait(w) \/ WorkerWake(w) \/ WorkerLoop(w)
  PROVE  NothingSetBack /\ SomebodyCloser
  <1> USE DEF IInv, TypeOK
  <1>1. /\ UNCHANGED <<fileMap, readyToParse, wslot, lpc, fileIndex, spurious, mpc>>
        /\ \A v \in Workers : v # w => wpc'[v] = wpc[v]
        /\ \/ wpc[w] = "starting" /\ wpc'[w] = "body"
           \/ wpc[w] = "body" /\ wpc'[w] = "waiting"
           \/ wpc[w] = "woken" /\ wpc'[w] = "test"
           \/ wpc[w] = "test" /\ wpc'[w] = "body"
    BY Zenon DEF WorkerStart, WorkerWait, WorkerWake, WorkerLoop, shared, main, listen
  <1>2. NothingSetBack
    BY <1>1, NothingBack, Zenon
  <1>3. WorkerRank(w)' < WorkerRank(w)
    BY <1>1 DEF WorkerRank
  <1>4. \A v \in Workers : v # w => WorkerRank(v)' = WorkerRank(v)
    BY <1>1, Zenon DEF WorkerRank
  <1>5. \A v \in Workers : WorkerRank(v)' <= WorkerRank(v)
    BY <1>3, <1>4, RankTypes
  <1>6. MainRank' = MainRank
    BY <1>1, Zenon DEF MainRank
  <1>7. MainRank' <= MainRank
    BY <1>6, RankTypes
  <1> QED BY <1>2, <1>3, <1>5, <1>7, Zenon DEF SomebodyCloser

\* A worker that ends.
LEMMA WorkerEnds ==
  ASSUME IInv, NEW w \in Workers, WorkerExit(w)
  PROVE  NothingSetBack /\ SomethingAdvances
  <1> USE DEF IInv, TypeOK
  <1>1. /\ UNCHANGED <<fileMap, readyToParse, wslot, lpc, fileIndex, spurious>>
        /\ wpc[w] = "test" /\ wpc'[w] = "exited"
        /\ \A v \in Workers : v # w =>
             wpc'[v] = wpc[v] \/ (wpc[v] = "waiting" /\ wpc'[v] = "woken")
    BY Zenon DEF WorkerExit, shared, listen
  <1>2. NothingSetBack
    BY <1>1, NothingBack, Zenon
  <1>3. LifeRank(w)' < LifeRank(w)
    BY <1>1 DEF LifeRank
  <1> QED BY <1>2, <1>3, Zenon DEF SomethingAdvances

\* The steps of the listener that deliver no file.
LEMMA ListenerSteps ==
  ASSUME IInv, ListenerOpen \/ ListenerEnd \/ ListenerFail
  PROVE  NothingSetBack /\ SomethingAdvances
  <1> USE DEF IInv, TypeOK
  <1>1. /\ UNCHANGED <<fileMap, readyToParse, wslot, wpc, fileIndex, spurious>>
        /\ \/ lpc = "opening" /\ lpc' \in {"listening", "ended"}
           \/ lpc = "listening" /\ lpc' = "ended"
    BY Zenon DEF ListenerOpen, ListenerEnd, ListenerFail, shared, workers, main
  <1>2. ListenerRank' < ListenerRank
    BY <1>1 DEF ListenerRank
  <1>3. NothingSetBack
    BY <1>1, <1>2, NothingBack, Zenon
  <1> QED BY <1>2, <1>3, Zenon DEF SomethingAdvances

\* The steps of main.
LEMMA MainSteps ==
  ASSUME IInv, MainNext
  PROVE  NothingSetBack /\ (SomethingAdvances \/ SomebodyCloser)
  <1> USE DEF IInv, TypeOK
  <1>1. CASE MainBlock /\ ~UNCHANGED wpc
    <2>1. PICK w \in Workers : wpc[w] = "none" /\ wpc' = [wpc EXCEPT ![w] = "starting"]
      BY <1>1, Zenon DEF MainBlock
    <2>2. wpc'[w] = "starting" /\ \A v \in Workers : v # w => wpc'[v] = wpc[v]
      BY <2>1, Zenon
    <2>3. UNCHANGED <<fileMap, readyToParse, wslot, lpc, fileIndex, spurious>>
      BY <1>1, Zenon DEF MainBlock, shared, listen
    <2>4. NothingSetBack
      BY <2>1, <2>2, <2>3, NothingBack, Zenon
    <2>5. LifeRank(w)' < LifeRank(w)
      BY <2>1, <2>2 DEF LifeRank
    <2> QED BY <2>4, <2>5, Zenon DEF SomethingAdvances
  <1>2. CASE MainConsume /\ fileIndex' = fileIndex + 1
    <2>1. UNCHANGED <<fileMap, readyToParse, wslot, wpc, lpc, spurious>>
      BY <1>2, Zenon DEF MainConsume, shared, workers, listen
    <2>2. NothingSetBack
      BY <1>2, <2>1, NothingBack, Zenon
    <2>3. fileIndex' > fileIndex
      BY <1>2
    <2> QED BY <2>2, <2>3, Zenon DEF SomethingAdvances
  <1>3. CASE ~(MainBlock /\ ~UNCHANGED wpc) /\ ~(MainConsume /\ fileIndex' = fileIndex + 1)
    <2>1. /\ UNCHANGED <<fileMap, readyToParse, wslot, wpc, lpc, spurious, fileIndex>>
          /\ \/ mpc \in {"lock", "woken"} /\ mpc' = "check"
             \/ mpc = "check" /\ mpc' \in {"waiting", "sleeping", "consume"}
             \/ mpc = "consume" /\ mpc' = "escaped"
             \/ mpc = "allRead" /\ mpc' \in {"sleeping", "done"}
             \/ mpc = "sleeping" /\ mpc' = "thrown"
      BY <1>3, Zenon DEF MainNext, MainLock, MainBlock, MainErrorLocked, MainTake, MainConsume,
         MainAllRead, MainThrow, shared, workers, listen
    <2>2. NothingSetBack
      BY <2>1, NothingBack, Zenon
    <2>3. MainRank' < MainRank
      BY <2>1 DEF MainRank
    <2>4. MainRank' <= MainRank
      BY <2>3, RankTypes
    <2>5. \A v \in Workers : WorkerRank(v)' = WorkerRank(v)
      BY <2>1, Zenon DEF WorkerRank
    <2>6. \A v \in Workers : WorkerRank(v)' <= WorkerRank(v)
      BY <2>5, RankTypes
    <2> QED BY <2>2, <2>3, <2>4, <2>6, Zenon DEF SomebodyCloser
  <1> QED BY <1>1, <1>2, <1>3, Zenon

\* A spurious wake-up, of which there are finitely many.
LEMMA SpuriousSteps ==
  ASSUME IInv, SpuriousWakeup
  PROVE  NothingSetBack /\ SomethingAdvances
  <1> USE DEF IInv, TypeOK
  <1>1. /\ UNCHANGED <<fileMap, readyToParse, wslot, lpc, fileIndex>>
        /\ \A v \in Workers : wpc'[v] = wpc[v] \/ (wpc[v] = "waiting" /\ wpc'[v] = "woken")
        /\ spurious' = spurious + 1
    BY Zenon DEF SpuriousWakeup, WaitingWorkers, shared, listen
  <1>2. NothingSetBack
    BY <1>1, NothingBack, Zenon
  <1>3. spurious' > spurious
    BY <1>1, ConstantsOK
  <1> QED BY <1>2, <1>3, Zenon DEF SomethingAdvances

\* No step is in vain: only finitely many steps are possible.
THEOREM ParseGetsCloser == Spec => NoIdleRound
  <1>1. IInv /\ [Next]_vars =>
          [NothingSetBack /\ (SomethingAdvances \/ SomebodyCloser)]_vars
    <2> SUFFICES ASSUME IInv, Next
                 PROVE  NothingSetBack /\ (SomethingAdvances \/ SomebodyCloser)
      BY Zenon
    <2>1. ASSUME NEW w \in Workers, WorkerNext(w)
          PROVE  NothingSetBack /\ (SomethingAdvances \/ SomebodyCloser)
      BY <2>1, FileSteps, WorkerSteps, WorkerEnds, Zenon DEF WorkerNext
    <2>2. CASE ListenerNext
      BY <2>2, FileArrives, ListenerSteps, Zenon DEF ListenerNext
    <2> QED BY <2>1, <2>2, MainSteps, SpuriousSteps, Zenon DEF Next
  <1> QED BY Invariance, <1>1, PTL DEF Spec, NoIdleRound
=============================================================================
