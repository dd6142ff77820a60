------------------------------ MODULE ParsePool ------------------------------
(***************************************************************************)
(* The threads that parse the input files of one ld64 invocation when      *)
(* ld64/src/ld/InputFiles.cpp is built for HAVE_PTHREADS and without       *)
(* HAVE_LIBDISPATCH (ParseDispatch models the build with libdispatch).     *)
(*                                                                         *)
(*   main      forEachInitialAtom: takes the files in command line order,  *)
(*             starts another worker whenever it is starved for input      *)
(*   workers   parseWorkerThread: scan for a file that is ready, parse it  *)
(*             without the lock, publish it in its slot                    *)
(*   listener  waitForInputFiles: with pipelined linking, marks the files  *)
(*             of the file list ready as their paths arrive on a fifo      *)
(*                                                                         *)
(* They share _parseLock and two condition variables.  A thread blocked in *)
(* pthread_cond_wait is in state "waiting"; a signal moves it to "woken",  *)
(* from where it still has to take the lock again.  Slots count from 0, as *)
(* in the code.  What a parse produces is named by the slot it was made    *)
(* for, so that publishing in the wrong slot is visible.                   *)
(***************************************************************************)
EXTENDS Integers, FiniteSets

CONSTANTS
  N,                \* number of input files
  Workers,          \* thread ids available for parser threads
  NCPU,             \* what sysctl(HW_NCPU) answers
  FromFileList,     \* slots that come from a -filelist
  PathOf,           \* slot -> path
  Pipelined,        \* LD_PIPELINE_FIFO is set
  MayFail,          \* the failures to explore: a subset of FailureKinds
  MaxSpurious       \* bound on spurious condition variable wake-ups

Slots == 0 .. N-1
NoFile == -1
NoSlot == -1
FailureKinds == {"parse", "listener", "handler", "addDylib"}
NoMsg == "none"
Min2(a, b) == IF a <= b THEN a ELSE b

ASSUME ConstantsOK ==
  /\ N \in Nat \ {0}
  /\ NCPU \in Nat \ {0}
  /\ FromFileList \subseteq Slots
  /\ DOMAIN PathOf = Slots
  /\ Pipelined \in BOOLEAN
  /\ MayFail \subseteq FailureKinds
  /\ MaxSpurious \in Nat
  /\ IsFiniteSet(Workers)
  /\ Cardinality(Workers) >= Min2(NCPU, N)
  /\ "main" \notin Workers
  /\ "free" \notin Workers
  /\ "listener" \notin Workers

VARIABLES
  inputFiles,           \* _inputFiles: slot -> parsed file or NoFile
  readyToParse,         \* the slots whose FileInfo::readyToParse is set
  availableInputFiles,  \* _availableInputFiles
  parseCursor,          \* _parseCursor
  remainingInputFiles,  \* _remainingInputFiles
  availableWorkers,     \* _availableWorkers
  idleWorkers,          \* _idleWorkers
  neededFileSlot,       \* _neededFileSlot
  exception,            \* _exception: NoMsg or who set it last
  parseLock,            \* _parseLock: "free" or the thread that holds it
  wpc,                  \* per worker: where it is
  wslot,                \* per worker: local variable slot
  wfile,                \* per worker: local variable file (NoFile: it failed)
  mpc,                  \* main thread: where it is
  fileIndex,            \* main thread: local variable fileIndex
  lpc,                  \* listener: where it is
  fileMap,              \* listener: slots whose path has not arrived yet
  spurious              \* wake-ups without a signal so far

shared  == <<inputFiles, readyToParse, availableInputFiles, parseCursor,
             remainingInputFiles>>
crew    == <<availableWorkers, idleWorkers>>
workers == <<wpc, wslot, wfile>>
main    == <<mpc, fileIndex, neededFileSlot>>
listen  == <<lpc, fileMap>>
vars    == <<shared, crew, workers, main, listen, exception, parseLock, spurious>>

-----------------------------------------------------------------------------
(* The two condition variables.  Only main waits for _newFileAvailable.    *)

WaitingWorkers == {w \in Workers : wpc[w] = "waiting"}

\* Mutant: the signal is forgotten.
MutNoSignalToMain == mpc' = mpc

SignalNewFileAvailable ==
  mpc' = IF mpc = "waiting" THEN "woken" ELSE mpc

\* Mutant: the signal is forgotten.
MutNoSignalToWorkers == wpc' = wpc

\* pthread_cond_signal(&_parseWorkReady): wakes one waiter if there is one.
SignalParseWorkReady ==
  IF WaitingWorkers = {} THEN wpc' = wpc
  ELSE \E w \in WaitingWorkers : wpc' = [wpc EXCEPT ![w] = "woken"]

Acquire(t) == parseLock = "free" /\ parseLock' = t
Release(t) == parseLock = t /\ parseLock' = "free"
-----------------------------------------------------------------------------
(* The constructor: slots, counters, the listener, and the first worker.   *)

InitiallyReady == {s \in Slots : s \notin FromFileList \/ ~Pipelined}

\* Of several entries with the same path the map keeps the last one.
MappedSlots == {s \in FromFileList :
                  \A t \in FromFileList : PathOf[t] = PathOf[s] => t <= s}

Init ==
  /\ inputFiles = [s \in Slots |-> NoFile]
  /\ readyToParse = InitiallyReady
  /\ availableInputFiles = Cardinality(InitiallyReady)
  /\ parseCursor = 0
  /\ remainingInputFiles = N
  /\ availableWorkers = Min2(NCPU, N) - 1
  /\ idleWorkers = 0
  /\ neededFileSlot = NoSlot
  /\ exception = NoMsg
  /\ parseLock = "free"
  /\ \E w \in Workers : wpc = [v \in Workers |-> IF v = w THEN "starting" ELSE "none"]
  /\ wslot = [w \in Workers |-> NoSlot]
  /\ wfile = [w \in Workers |-> NoFile]
  /\ mpc = "lock"
  /\ fileIndex = 0
  /\ lpc = IF Pipelined THEN "opening" ELSE "ended"
  /\ fileMap = IF Pipelined THEN MappedSlots ELSE {}
  /\ spurious = 0
-----------------------------------------------------------------------------
(* parseWorkerThread.  The loop tests _remainingInputFiles at its end only: *)
(* a worker that starts goes through the body at least once.               *)

WorkerStart(w) ==
  /\ wpc[w] = "starting"
  /\ Acquire(w)
  /\ wpc' = [wpc EXCEPT ![w] = "body"]
  /\ UNCHANGED <<shared, crew, wslot, wfile, main, listen, exception, spurious>>

WorkerWait(w) ==
  /\ wpc[w] = "body"
  /\ availableInputFiles = 0
  /\ idleWorkers' = idleWorkers + 1
  /\ Release(w)
  /\ wpc' = [wpc EXCEPT ![w] = "waiting"]
  /\ UNCHANGED <<shared, availableWorkers, wslot, wfile, main, listen,
                 exception, spurious>>

\* Mutant: _idleWorkers is not decremented after the wait.
MutWakeStaysIdle(w) ==
  /\ wpc[w] = "woken"
  /\ Acquire(w)
  /\ wpc' = [wpc EXCEPT ![w] = "test"]
  /\ UNCHANGED <<shared, crew, wslot, wfile, main, listen, exception, spurious>>

WorkerWake(w) ==
  /\ wpc[w] = "woken"
  /\ Acquire(w)
  /\ idleWorkers' = idleWorkers - 1
  /\ wpc' = [wpc EXCEPT ![w] = "test"]
  /\ UNCHANGED <<shared, availableWorkers, wslot, wfile, main, listen,
                 exception, spurious>>

\* Mutant: the scan forgets that an unparsed file may be in other hands.
MutParsableIgnoresReady(s) == inputFiles[s] = NoFile

\* The while loop over files: the first slot from the cursor on that is not
\* parsed yet and ready.
IsParsable(s) == inputFiles[s] = NoFile /\ s \in readyToParse
ParsableFromCursor == {s \in Slots : parseCursor <= s /\ IsParsable(s)}
IsFirst(s, S) == s \in S /\ \A t \in S : s <= t

\* If there is no such slot the code stops in assert(slot < files.size()), and
\* no step is possible here.
WorkerTake(w) ==
  /\ wpc[w] = "body"
  /\ availableInputFiles # 0
  /\ \E s \in Slots :
       /\ IsFirst(s, ParsableFromCursor)
       /\ wslot' = [wslot EXCEPT ![w] = s]
       /\ parseCursor' = s + 1
       /\ readyToParse' = readyToParse \ {s}
  /\ availableInputFiles' = availableInputFiles - 1
  /\ wpc' = [wpc EXCEPT ![w] = "parsing"]
  /\ Release(w)
  /\ UNCHANGED <<inputFiles, remainingInputFiles, crew, wfile, main, listen,
                 exception, spurious>>

\* Mutant: the file to parse is looked up again, through the shared cursor, after
\* the lock was released.
MutParseAtCursor(w) ==
  /\ wpc[w] = "parsing"
  /\ wfile' = [wfile EXCEPT ![w] = IF parseCursor > 0 THEN parseCursor - 1 ELSE 0]
  /\ wpc' = [wpc EXCEPT ![w] = "parsed"]
  /\ UNCHANGED <<shared, crew, wslot, main, listen, exception, parseLock, spurious>>

\* makeFile runs without the lock.  A file of another architecture or of an
\* unexpected kind becomes an IgnoredFile, which is a file like any other here.
WorkerMakeFile(w) ==
  /\ wpc[w] = "parsing"
  /\ \/ wfile' = [wfile EXCEPT ![w] = wslot[w]]
     \/ "parse" \in MayFail /\ wfile' = [wfile EXCEPT ![w] = NoFile]
  /\ wpc' = [wpc EXCEPT ![w] = "parsed"]
  /\ UNCHANGED <<shared, crew, wslot, main, listen, exception, parseLock, spurious>>

Decremented(n) == IF n > 0 THEN n - 1 ELSE n

WorkerPublish(w) ==
  /\ wpc[w] = "parsed"
  /\ wfile[w] # NoFile
  /\ Acquire(w)
  /\ remainingInputFiles' = Decremented(remainingInputFiles)
  /\ inputFiles' = [inputFiles EXCEPT ![wslot[w]] = wfile[w]]
  /\ IF neededFileSlot = wslot[w] THEN SignalNewFileAvailable ELSE mpc' = mpc
  /\ wpc' = [wpc EXCEPT ![w] = "test"]
  /\ UNCHANGED <<readyToParse, availableInputFiles, parseCursor, crew, wslot,
                 wfile, neededFileSlot, fileIndex, listen, exception, spurious>>

\* Mutant: the error is recorded, and the other workers are not stopped.
MutFailKeepsRemaining(w) ==
  /\ wpc[w] = "parsed"
  /\ wfile[w] = NoFile
  /\ Acquire(w)
  /\ exception' = "parse"
  /\ wpc' = [wpc EXCEPT ![w] = "test"]
  /\ UNCHANGED <<shared, crew, wslot, wfile, main, listen, spurious>>

WorkerFail(w) ==
  /\ wpc[w] = "parsed"
  /\ wfile[w] = NoFile
  /\ Acquire(w)
  /\ remainingInputFiles' = 0
  /\ exception' = "parse"
  /\ wpc' = [wpc EXCEPT ![w] = "test"]
  /\ UNCHANGED <<inputFiles, readyToParse, availableInputFiles, parseCursor, crew,
                 wslot, wfile, main, listen, spurious>>

\* Mutant: the loop ends when no file is available now.
MutNothingAvailable == availableInputFiles = 0

\* The loop's condition.
NothingLeft == remainingInputFiles = 0

WorkerLoop(w) ==
  /\ wpc[w] = "test"
  /\ parseLock = w
  /\ ~NothingLeft
  /\ wpc' = [wpc EXCEPT ![w] = "body"]
  /\ UNCHANGED <<shared, crew, wslot, wfile, main, listen, exception, parseLock,
                 spurious>>

\* Leaving the loop wakes every waiting worker, and main.
WorkerExit(w) ==
  /\ wpc[w] = "test"
  /\ NothingLeft
  /\ wpc' = [v \in Workers |-> IF v = w THEN "exited"
                               ELSE IF wpc[v] = "waiting" THEN "woken" ELSE wpc[v]]
  /\ SignalNewFileAvailable
  /\ Release(w)
  /\ UNCHANGED <<shared, crew, wslot, wfile, fileIndex, neededFileSlot, listen,
                 exception, spurious>>

WorkerNext(w) ==
  \/ WorkerStart(w) \/ WorkerWait(w) \/ WorkerWake(w) \/ WorkerTake(w)
  \/ WorkerMakeFile(w) \/ WorkerPublish(w) \/ WorkerFail(w)
  \/ WorkerLoop(w) \/ WorkerExit(w)
-----------------------------------------------------------------------------
(* waitForInputFiles.  Reading the fifo changes nothing that is shared, so *)
(* a path that arrives and the locked section it leads to are one step.    *)

ListenerOpen ==
  /\ lpc = "opening"
  /\ lpc' = "listening"
  /\ UNCHANGED <<shared, crew, workers, main, fileMap, exception, parseLock,
                 spurious>>

\* Mutant: the cursor is not moved back to a file that became ready behind it.
MutCursorStays(s) == parseCursor

CursorFor(s) == IF parseCursor > s THEN s ELSE parseCursor

ListenerFile(s) ==
  /\ lpc = "listening"
  /\ s \in fileMap
  /\ parseLock = "free"
  /\ IF idleWorkers > 0 THEN SignalParseWorkReady ELSE wpc' = wpc
  /\ readyToParse' = readyToParse \cup {s}
  /\ parseCursor' = CursorFor(s)
  /\ availableInputFiles' = availableInputFiles + 1
  /\ fileMap' = fileMap \ {s}
  /\ UNCHANGED <<inputFiles, remainingInputFiles, crew, wslot, wfile, main, lpc,
                 exception, parseLock, spurious>>

ListenerEnd ==
  /\ lpc = "listening"
  /\ fileMap = {}
  /\ lpc' = "ended"
  /\ UNCHANGED <<shared, crew, workers, main, fileMap, exception, parseLock,
                 spurious>>

\* The fifo cannot be opened, or it ends early or names a file that does not
\* exist or is not in the map (any more).  Workers are neither stopped nor woken.
ListenerFail ==
  /\ "listener" \in MayFail
  /\ lpc = "opening" \/ (lpc = "listening" /\ fileMap # {})
  /\ parseLock = "free"
  /\ exception' = "listener"
  /\ SignalNewFileAvailable
  /\ lpc' = "ended"
  /\ UNCHANGED <<shared, crew, workers, fileIndex, neededFileSlot, fileMap,
                 parseLock, spurious>>

ListenerNext ==
  \/ ListenerOpen \/ (\E s \in Slots : ListenerFile(s))
  \/ ListenerEnd \/ ListenerFail
-----------------------------------------------------------------------------
(* forEachInitialAtom.                                                     *)

MainLock ==
  /\ mpc \in {"lock", "woken"}
  /\ Acquire("main")
  /\ mpc' = "check"
  /\ UNCHANGED <<shared, crew, workers, fileIndex, neededFileSlot, listen,
                 exception, spurious>>

\* Starved for input: start a worker if that can help, then wait.
MainBlock ==
  /\ mpc = "check"
  /\ inputFiles[fileIndex] = NoFile
  /\ exception = NoMsg
  /\ IF availableInputFiles > 0 /\ availableWorkers > 0
     THEN /\ \E w \in Workers :
               /\ wpc[w] = "none"
               /\ wpc' = [wpc EXCEPT ![w] = "starting"]
          /\ availableWorkers' = availableWorkers - 1
     ELSE UNCHANGED <<wpc, availableWorkers>>
  /\ neededFileSlot' = fileIndex
  /\ Release("main")
  /\ mpc' = "waiting"
  /\ UNCHANGED <<shared, idleWorkers, wslot, wfile, fileIndex, listen, exception,
                 spurious>>

\* _exception is set: sleep(1) and throw, both with _parseLock held.
MainErrorLocked ==
  /\ mpc = "check"
  /\ exception # NoMsg
  /\ mpc' = "sleeping"
  /\ UNCHANGED <<shared, crew, workers, fileIndex, neededFileSlot, listen,
                 exception, parseLock, spurious>>

\* Mutant: a file that is there is taken although an error is pending.
MutTakeDespiteError ==
  /\ mpc = "check"
  /\ inputFiles[fileIndex] # NoFile
  /\ Release("main")
  /\ mpc' = "consume"
  /\ UNCHANGED <<shared, crew, workers, fileIndex, neededFileSlot, listen,
                 exception, spurious>>

MainTake ==
  /\ mpc = "check"
  /\ inputFiles[fileIndex] # NoFile
  /\ exception = NoMsg
  /\ Release("main")
  /\ mpc' = "consume"
  /\ UNCHANGED <<shared, crew, workers, fileIndex, neededFileSlot, listen,
                 exception, spurious>>

AfterFile(i) == IF i + 1 < N THEN "lock" ELSE "allRead"

\* The switch on the file's type and forEachAtom.  What forEachAtom throws is
\* stored in _exception, without the lock, and the loop goes on; what addDylib
\* throws leaves forEachInitialAtom at once.
MainConsume ==
  /\ mpc = "consume"
  /\ \/ /\ mpc' = AfterFile(fileIndex)
        /\ fileIndex' = fileIndex + 1
        /\ \/ exception' = exception
           \/ "handler" \in MayFail /\ exception' = "handler"
     \/ /\ "addDylib" \in MayFail
        /\ mpc' = "escaped"
        /\ UNCHANGED <<fileIndex, exception>>
  /\ UNCHANGED <<shared, crew, workers, neededFileSlot, listen, parseLock, spurious>>

\* After the loop: the second test of _exception, this time without the lock.
MainAllRead ==
  /\ mpc = "allRead"
  /\ mpc' = IF exception # NoMsg THEN "sleeping" ELSE "done"
  /\ UNCHANGED <<shared, crew, workers, fileIndex, neededFileSlot, listen,
                 exception, parseLock, spurious>>

\* sleep(1) has no effect on the shared state; other threads that do not need
\* the lock go on meanwhile.
MainThrow ==
  /\ mpc = "sleeping"
  /\ mpc' = "thrown"
  /\ UNCHANGED <<shared, crew, workers, fileIndex, neededFileSlot, listen,
                 exception, parseLock, spurious>>

MainNext ==
  \/ MainLock \/ MainBlock \/ MainErrorLocked \/ MainTake \/ MainConsume
  \/ MainAllRead \/ MainThrow
-----------------------------------------------------------------------------
\* POSIX lets pthread_cond_wait return without a signal.
SpuriousWakeup ==
  /\ spurious < MaxSpurious
  /\ spurious' = spurious + 1
  /\ \/ /\ mpc = "waiting"
        /\ mpc' = "woken"
        /\ wpc' = wpc
     \/ /\ \E w \in WaitingWorkers : wpc' = [wpc EXCEPT ![w] = "woken"]
        /\ mpc' = mpc
  /\ UNCHANGED <<shared, crew, wslot, wfile, fileIndex, neededFileSlot, listen,
                 exception, parseLock>>

Next ==
  \/ MainNext
  \/ \E w \in Workers : WorkerNext(w)
  \/ ListenerNext
  \/ SpuriousWakeup

\* Every thread that can run is scheduled, and the writer of the fifo goes on
\* until every path is written or the stream breaks.  Nothing is assumed about
\* which thread gets the lock, nor about spurious wake-ups.
Fairness ==
  /\ WF_vars(MainNext)
  /\ \A w \in Workers : WF_vars(WorkerNext(w))
  /\ WF_vars(ListenerNext)

Spec == Init /\ [][Next]_vars
FairSpec == Spec /\ Fairness
-----------------------------------------------------------------------------
(* Properties.                                                             *)

WorkerStates == {"none", "starting", "body", "waiting", "woken", "parsing",
                 "parsed", "test", "exited"}
MainStates == {"lock", "check", "waiting", "woken", "consume", "allRead",
               "sleeping", "thrown", "escaped", "done"}

\* Type invariant of the shared state, the locals of the threads and where
\* each thread is.
TypeOK ==
  /\ inputFiles \in [Slots -> Slots \cup {NoFile}]
  /\ readyToParse \subseteq Slots
  /\ availableInputFiles \in Nat
  /\ parseCursor \in 0 .. N
  /\ remainingInputFiles \in 0 .. N
  /\ availableWorkers \in Nat
  /\ idleWorkers \in Nat
  /\ neededFileSlot \in Slots \cup {NoSlot}
  /\ exception \in {NoMsg, "parse", "listener", "handler"}
  /\ parseLock \in Workers \cup {"free", "main"}
  /\ wpc \in [Workers -> WorkerStates]
  /\ wslot \in [Workers -> Slots \cup {NoSlot}]
  /\ wfile \in [Workers -> Slots \cup {NoFile}]
  /\ mpc \in MainStates
  /\ fileIndex \in 0 .. N
  /\ lpc \in {"opening", "listening", "ended"}
  /\ fileMap \subseteq Slots
  /\ spurious \in 0 .. MaxSpurious

\* parseWorkerThread: assert(slot < files.size()) never fails, whatever the
\* order in which workers move _parseCursor forward and the listener moves it
\* back.
AssertHolds ==
  \A w \in Workers : wpc[w] = "body" /\ availableInputFiles # 0 =>
    ParsableFromCursor # {}

Holding(w) == wpc[w] \in {"parsing", "parsed"}

\* No file is parsed twice: a slot that a worker is parsing is neither ready
\* for another worker, nor published, nor in another worker's hands.
ParsedOnce ==
  \A w \in Workers : Holding(w) =>
    /\ inputFiles[wslot[w]] = NoFile
    /\ wslot[w] \notin readyToParse
    /\ \A v \in Workers : Holding(v) /\ wslot[v] = wslot[w] => v = w

Idle == {w \in Workers : wpc[w] \in {"waiting", "woken"}}
Unpublished == {s \in Slots : inputFiles[s] = NoFile}

\* The three counters agree with what they count: _availableInputFiles with
\* the ready flags, _idleWorkers with the workers inside cond_wait, and, as
\* long as nothing failed, _remainingInputFiles with the empty slots.
CountersExact ==
  /\ availableInputFiles = Cardinality(readyToParse)
  /\ idleWorkers = Cardinality(Idle)
  /\ \/ exception # NoMsg
     \/ remainingInputFiles = Cardinality(Unpublished)

\* A slot only ever holds the file made for it, and what the main thread may
\* already be reading without the lock is never replaced.
SlotsWrittenOnce ==
  [][\A s \in Slots : inputFiles'[s] # inputFiles[s] =>
        inputFiles[s] = NoFile /\ inputFiles'[s] = s]_inputFiles

\* Workers give up only when there is nothing left to do: if no error is
\* pending, the last file is published before any worker leaves the loop.
NoEarlyExit ==
  (\E w \in Workers : wpc[w] = "exited") =>
    exception # NoMsg \/ Unpublished = {}

\* No wake-up of the main thread is lost: while it waits for a file, that file
\* is not there and no error is pending, except inside the critical section of
\* the worker that is about to signal.
NoLostWakeup ==
  mpc = "waiting" =>
    \/ inputFiles[fileIndex] = NoFile /\ exception = NoMsg
    \/ \E w \in Workers : parseLock = w /\ wpc[w] = "test" /\ remainingInputFiles = 0

\* No wake-up of the workers is lost: as long as a file is ready and no error
\* is pending, some worker is on its way to it or busy with another file.
WorkIsAttended ==
  availableInputFiles > 0 /\ exception = NoMsg =>
    \E w \in Workers : wpc[w] \notin {"none", "waiting", "exited"}

\* What the next step of each thread needs: the lock, a file to take, or a thread
\* that can still be started.
MainCanGo ==
  \/ mpc \in {"lock", "woken"} /\ parseLock = "free"
  \/ mpc = "check" /\ exception # NoMsg
  \/ mpc = "check" /\ parseLock = "main" /\ inputFiles[fileIndex] # NoFile
  \/ /\ mpc = "check" /\ parseLock = "main"
     /\ availableInputFiles > 0 /\ availableWorkers > 0 => \E w \in Workers : wpc[w] = "none"
  \/ mpc \in {"consume", "allRead", "sleeping"}
WorkerCanGo(w) ==
  \/ wpc[w] \in {"starting", "woken", "parsed"} /\ parseLock = "free"
  \/ wpc[w] = "parsing"
  \/ /\ wpc[w] = "body" /\ parseLock = w
     /\ availableInputFiles = 0 \/ \E s \in Slots : IsFirst(s, ParsableFromCursor)
  \/ wpc[w] = "test" /\ parseLock = w
ListenerCanGo ==
  \/ lpc = "opening"
  \/ lpc = "listening" /\ (fileMap = {} \/ parseLock = "free")

\* Slots that no path on the fifo makes ready: their path is listed again later.
DroppedSlots == IF Pipelined THEN FromFileList \ MappedSlots ELSE {}

\* Until forEachInitialAtom ends some thread can go on without a spurious wake-up:
\* main, the workers and the listener never all wait for each other.  The one
\* exception is a path that is in the file list twice: its first slot is never
\* parsed, and main may wait for it.
NeverStuck ==
  mpc \notin {"done", "thrown", "escaped"} =>
    \/ MainCanGo \/ ListenerCanGo \/ \E w \in Workers : WorkerCanGo(w)
    \/ mpc = "waiting" /\ fileIndex \in DroppedSlots

\* How far a slot is from being published, and how much of its life a worker and
\* the listener have before them.
SlotRank(s) ==
  IF s \in fileMap THEN 4
  ELSE IF s \in readyToParse THEN 3
  ELSE IF \E w \in Workers : wpc[w] = "parsing" /\ wslot[w] = s THEN 2
  ELSE IF \E w \in Workers : wpc[w] = "parsed" /\ wslot[w] = s THEN 1 ELSE 0
LifeRank(w) == IF wpc[w] = "none" THEN 2 ELSE IF wpc[w] = "exited" THEN 0 ELSE 1
ListenerRank == IF lpc = "opening" THEN 2 ELSE IF lpc = "listening" THEN 1 ELSE 0

\* How far a worker and main are from waiting, or from what comes after it.
WorkerRank(w) ==
  IF wpc[w] \in {"starting", "woken"} THEN 4
  ELSE IF wpc[w] = "test" THEN 3
  ELSE IF wpc[w] = "body" THEN 2
  ELSE IF wpc[w] = "waiting" THEN 1 ELSE 0
MainRank ==
  IF mpc \in {"lock", "woken"} THEN 5
  ELSE IF mpc = "check" THEN 4
  ELSE IF mpc = "consume" THEN 3
  ELSE IF mpc = "allRead" THEN 2
  ELSE IF mpc = "sleeping" THEN 1 ELSE 0

NothingSetBack ==
  /\ \A s \in Slots : SlotRank(s)' <= SlotRank(s)
  /\ \A w \in Workers : LifeRank(w)' <= LifeRank(w)
  /\ ListenerRank' <= ListenerRank
  /\ fileIndex' >= fileIndex
  /\ spurious' >= spurious
SomethingAdvances ==
  \/ \E s \in Slots : SlotRank(s)' < SlotRank(s)
  \/ \E w \in Workers : LifeRank(w)' < LifeRank(w)
  \/ ListenerRank' < ListenerRank
  \/ fileIndex' > fileIndex
  \/ spurious' > spurious
SomebodyCloser ==
  /\ \A w \in Workers : WorkerRank(w)' <= WorkerRank(w)
  /\ MainRank' <= MainRank
  /\ (\E w \in Workers : WorkerRank(w)' < WorkerRank(w)) \/ MainRank' < MainRank

\* No step is in vain, and nobody wakes and blocks in turn for ever: every step
\* advances a file, main's index or the life of a thread and sets none of these
\* back, or brings a thread closer to waiting.  All of these are bounded, so that
\* with finitely many spurious wake-ups only finitely many steps are possible.
NoIdleRound == [][NothingSetBack /\ (SomethingAdvances \/ SomebodyCloser)]_vars

\* forEachInitialAtom ends: every file was delivered, or the error is thrown.
MainTerminates == <>(mpc \in {"done", "thrown", "escaped"})

\* An error, whoever meets it, is thrown by the main thread in the end (or
\* another one that addDylib met first).
ErrorReported == (exception # NoMsg) ~> (mpc \in {"thrown", "escaped"})
-----------------------------------------------------------------------------
(* The inductive invariant from which the invariants above are proved.     *)

\* Who holds the lock, as seen from where each thread is.
LockInv ==
  /\ \A w \in Workers : wpc[w] \in {"body", "test"} <=> parseLock = w
  /\ mpc = "check" => parseLock = "main"
  /\ parseLock = "main" => mpc \in {"check", "sleeping", "thrown"}

\* A slot is in the listener's map, ready, in one worker's hands, or published,
\* and never in two of these; no ready slot is behind the cursor.
SlotInv ==
  /\ \A s \in readyToParse : parseCursor <= s /\ inputFiles[s] = NoFile
  /\ \A s \in fileMap : s \notin readyToParse /\ inputFiles[s] = NoFile
  /\ \A w \in Workers : Holding(w) =>
       /\ wslot[w] \in Slots \ fileMap
       /\ wpc[w] = "parsed" => wfile[w] \in {NoFile, wslot[w]}
  /\ ParsedOnce

\* Where the main thread is in its loop, and what a waiting one waits for.
MainInv ==
  /\ mpc \in {"lock", "check", "waiting", "woken", "consume"} => fileIndex \in Slots
  /\ mpc = "allRead" => fileIndex = N
  /\ mpc = "waiting" => neededFileSlot = fileIndex
  /\ mpc \in {"sleeping", "thrown"} => exception # NoMsg
  /\ NoLostWakeup

\* Some worker was started, and none leaves early.
CrewInv ==
  /\ \E w \in Workers : wpc[w] # "none"
  /\ NoEarlyExit
  /\ WorkIsAttended

IInv == TypeOK /\ LockInv /\ SlotInv /\ CountersExact /\ MainInv /\ CrewInv

\* As long as nothing failed no slot gets lost between the listener, the workers
\* and main, the listener stays until its map is empty, and there are as many
\* threads left as main may start.
Unstarted == {w \in Workers : wpc[w] = "none"}
HasSlot(s) == \E w \in Workers : Holding(w) /\ wslot[w] = s
Pending(s) == s \in fileMap \/ s \in readyToParse \/ HasSlot(s) \/ s \in DroppedSlots
SupplyInv ==
  /\ exception = NoMsg => \A s \in Unpublished : Pending(s)
  /\ lpc = "ended" /\ exception = NoMsg => fileMap = {}
  /\ availableWorkers <= Cardinality(Unstarted)
-----------------------------------------------------------------------------
(* Refinement.  A file counts as delivered when main has read its slot     *)
(* under the lock; from then on it only works on it.                       *)

Delivered == IF mpc \in {"consume", "escaped"} THEN fileIndex + 1 ELSE fileIndex

OD == INSTANCE OrderedDelivery WITH
        parsed <- Slots \ Unpublished,
        delivered <- Delivered,
        failed <- (exception # NoMsg \/ mpc = "escaped"),
        outcome <- IF mpc = "done" THEN "done"
                   ELSE IF mpc \in {"thrown", "escaped"} THEN "thrown" ELSE "running"

\* The pool of threads delivers the files as OrderedDelivery says.
DeliversInOrder == OD!Spec
-----------------------------------------------------------------------------
(* What the documentation says of file lists.                              *)

\* ld-classic.1:242, -filelist: "Specifies that the linker should link the files
\* listed in file": once every path arrived without error, the link gets past
\* its input.
ListedFilesAreLinked == [](lpc = "ended" /\ exception = NoMsg) ~> (mpc = "done")
=============================================================================
