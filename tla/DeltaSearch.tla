---------------------------- MODULE DeltaSearch ----------------------------
(***************************************************************************)
(* The threads with which git pack-objects looks for deltas                *)
(* (Git/src/git/builtin/pack-objects.c).                                   *)
(*                                                                         *)
(*   main      ll_find_deltas: splits the list of objects, starts one      *)
(*             thread per part, and then gives every thread that runs out  *)
(*             of work half of what the busiest thread has left, or        *)
(*             nothing, which ends the thread                              *)
(*   threads   threaded_find_deltas and find_deltas: take the objects of   *)
(*             their part one by one, report that they are idle, wait      *)
(*                                                                         *)
(* progress_mutex protects the parts and the flags working, and goes with  *)
(* progress_cond, on which main waits.  Each thread has a mutex and a      *)
(* condition variable of its own for data_ready.  A step is what happens   *)
(* under one lock, or between two.  The search for a delta of one object   *)
(* changes nothing that another thread reads, and is part of the step that *)
(* takes the object.  Objects are named by their index in the list.        *)
(***************************************************************************)
EXTENDS Integers, FiniteSets

CONSTANTS
  N,        \* list_size: number of objects
  T,        \* delta_search_threads
  W,        \* window, as ll_find_deltas gets it: pack.window + 1
  Hashes    \* the name hashes to explore: object -> hash, 0 for none

Objects == 0 .. N-1
Threads == 0 .. T-1

ASSUME ConstantsOK ==
  /\ N \in Nat
  /\ T \in Nat \ {0, 1}    \* with one thread main searches by itself
  /\ W \in Nat \ {0, 1}
  /\ Hashes \subseteq [Objects -> Nat]

VARIABLES
  hash,            \* object -> hash; never changes
  list,            \* p[t].list
  listSize,        \* p[t].list_size
  remaining,       \* p[t].remaining
  working,         \* p[t].working
  dataReady,       \* p[t].data_ready
  wpc,             \* thread: where it is
  cursor,          \* thread: the local variable list of find_deltas
  times,           \* object -> how often a thread took it
  mpc,             \* main: where it is
  mi,              \* main: i, in the loops before threads run
  mlist,           \* main: the start of the part of the list not given out
  target,          \* main: target
  activeThreads    \* main: active_threads

parts    == <<list, listSize, remaining>>
flags    == <<working, dataReady>>
searcher == <<cursor, times>>
setup    == <<mi, mlist>>
main     == <<mpc, setup, target, activeThreads>>
vars     == <<hash, parts, flags, wpc, searcher, main>>

Init ==
  /\ hash \in Hashes
  /\ list = [t \in Threads |-> 0]
  /\ listSize = [t \in Threads |-> 0]
  /\ remaining = [t \in Threads |-> 0]
  /\ working = [t \in Threads |-> 0]
  /\ dataReady = [t \in Threads |-> 0]
  /\ wpc = [t \in Threads |-> "new"]
  /\ cursor = [t \in Threads |-> 0]
  /\ times = [o \in Objects |-> 0]
  /\ mpc = "partition"
  /\ mi = 0
  /\ mlist = 0
  /\ target = 0
  /\ activeThreads = 0
-----------------------------------------------------------------------------
(* Main, before it waits.                                                  *)

\* Two neighbours of the list that should stay in one part.
SamePath(o) == hash[o] # 0 /\ hash[o] = hash[o - 1]

\* The part of a thread: its share of what is left, nothing if that is less than
\* two windows and more threads follow, and then up to the next path boundary.
Share(left, i) ==
  LET s == left \div (T - i) IN
    IF s < 2 * W /\ i + 1 < T THEN 0 ELSE s

PartEnds(i) ==
  LET s == Share(N - mlist, i) IN
    {e \in mlist + s .. N :
       /\ s = 0 => e = mlist
       /\ s > 0 /\ e < N => ~SamePath(e)
       /\ s > 0 => \A x \in mlist + s .. e - 1 : SamePath(x)}

Partition ==
  /\ mpc = "partition"
  /\ \E e \in PartEnds(mi) :
       /\ list' = [list EXCEPT ![mi] = mlist]
       /\ listSize' = [listSize EXCEPT ![mi] = e - mlist]
       /\ remaining' = [remaining EXCEPT ![mi] = e - mlist]
       /\ mlist' = e
  /\ working' = [working EXCEPT ![mi] = 1]
  /\ mi' = IF mi + 1 < T THEN mi + 1 ELSE 0
  /\ mpc' = IF mi + 1 < T THEN "partition" ELSE "start"
  /\ UNCHANGED <<hash, dataReady, wpc, searcher, target, activeThreads>>

\* pthread_create for the threads that have something to do.
StartThread ==
  /\ mpc = "start"
  /\ wpc' = [wpc EXCEPT ![mi] = IF listSize[mi] > 0 THEN "test" ELSE "new"]
  /\ activeThreads' = IF listSize[mi] > 0 THEN activeThreads + 1 ELSE activeThreads
  /\ mi' = mi + 1
  /\ mpc' = IF mi + 1 < T THEN "start" ELSE IF activeThreads' > 0 THEN "scan" ELSE "done"
  /\ UNCHANGED <<hash, parts, flags, searcher, mlist, target>>

\* die() ends the process, and with it every thread.
CreateFails ==
  /\ mpc = "start"
  /\ listSize[mi] > 0
  /\ mpc' = "died"
  /\ UNCHANGED <<hash, parts, flags, wpc, searcher, setup, target, activeThreads>>
-----------------------------------------------------------------------------
(* Main, giving out work.                                                  *)

IdleThreads == {t \in Threads : working[t] = 0}
IsFirstOf(t, S) == t \in S /\ \A u \in S : t <= u

\* pthread_cond_wait(&progress_cond, &progress_mutex)
Wait ==
  /\ mpc = "scan"
  /\ IdleThreads = {}
  /\ mpc' = "waiting"
  /\ UNCHANGED <<hash, parts, flags, wpc, searcher, setup, target, activeThreads>>

\* The first of the threads with the most objects left, if that is worth it.
Candidates == {v \in Threads : remaining[v] > 2 * W}
IsVictim(v) ==
  LET most == {u \in Candidates : \A x \in Candidates : remaining[x] <= remaining[u]} IN
    IsFirstOf(v, most)

\* Mutant: counts from the start of the part what is left of it.
MutEndOf(v) == list[v] + remaining[v]

EndOf(v) == list[v] + listSize[v]

\* Where the stolen half begins: at the first path boundary in it, or at its
\* start if it has none.
IsSplit(v, q) ==
  LET half == EndOf(v) - remaining[v] \div 2 IN
    \/ /\ q \in half .. EndOf(v) - 1
       /\ ~SamePath(q)
       /\ \A x \in half .. q - 1 : SamePath(x)
    \/ /\ q = half
       /\ \A x \in half .. EndOf(v) - 1 : SamePath(x)

Steal(t, v, q) ==
  LET stolen == EndOf(v) - q IN
    /\ list' = [list EXCEPT ![t] = q]
    /\ listSize' = [listSize EXCEPT ![v] = @ - stolen, ![t] = stolen]
    /\ remaining' = [remaining EXCEPT ![v] = @ - stolen, ![t] = stolen]

\* Mutant: the thread that is picked stays marked as idle.
MutGiveWork ==
  /\ mpc = "scan"
  /\ \E t \in IdleThreads :
       /\ IsFirstOf(t, IdleThreads)
       /\ \/ \E v \in Threads :
               IsVictim(v) /\ \E q \in Objects : IsSplit(v, q) /\ Steal(t, v, q)
          \/ /\ Candidates = {}
             /\ listSize' = [listSize EXCEPT ![t] = 0]
             /\ remaining' = [remaining EXCEPT ![t] = 0]
             /\ UNCHANGED list
       /\ target' = t
  /\ mpc' = "hand"
  /\ UNCHANGED <<hash, flags, wpc, searcher, setup, activeThreads>>

\* The rest of the critical section of main: target, victim, split.
GiveWork ==
  /\ mpc = "scan"
  /\ \E t \in IdleThreads :
       /\ IsFirstOf(t, IdleThreads)
       /\ \/ \E v \in Threads :
               IsVictim(v) /\ \E q \in Objects : IsSplit(v, q) /\ Steal(t, v, q)
          \/ /\ Candidates = {}
             /\ listSize' = [listSize EXCEPT ![t] = 0]
             /\ remaining' = [remaining EXCEPT ![t] = 0]
             /\ UNCHANGED list
       /\ working' = [working EXCEPT ![t] = 1]
       /\ target' = t
  /\ mpc' = "hand"
  /\ UNCHANGED <<hash, dataReady, wpc, searcher, setup, activeThreads>>

\* data_ready, and pthread_cond_signal(&target->cond)
HandOver ==
  /\ mpc = "hand"
  /\ dataReady' = [dataReady EXCEPT ![target] = 1]
  /\ wpc' = [wpc EXCEPT ![target] = IF @ = "blocked" THEN "woken" ELSE @]
  /\ mpc' = IF remaining[target] = 0 THEN "join" ELSE "scan"
  /\ UNCHANGED <<hash, parts, working, searcher, setup, target, activeThreads>>

Join ==
  /\ mpc = "join"
  /\ wpc[target] = "exited"
  /\ activeThreads' = activeThreads - 1
  /\ mpc' = IF activeThreads' > 0 THEN "scan" ELSE "done"
  /\ UNCHANGED <<hash, parts, flags, wpc, searcher, setup, target>>

MainNext ==
  Partition \/ StartThread \/ CreateFails \/ Wait \/ GiveWork \/ HandOver \/ Join
-----------------------------------------------------------------------------
(* A thread.                                                               *)

Goto(t, l) == wpc' = [wpc EXCEPT ![t] = l]
Alive == mpc \notin {"died", "done"}

\* while (me->remaining)
Test(t) ==
  /\ Alive
  /\ wpc[t] = "test"
  /\ Goto(t, IF remaining[t] > 0 THEN "enter" ELSE "exited")
  /\ UNCHANGED <<hash, parts, flags, searcher, main>>

\* me->list is read for the call of find_deltas, without the lock.
Enter(t) ==
  /\ Alive
  /\ wpc[t] = "enter"
  /\ cursor' = [cursor EXCEPT ![t] = list[t]]
  /\ Goto(t, "search")
  /\ UNCHANGED <<hash, parts, flags, times, main>>

TakeObject(t) ==
  /\ Alive
  /\ wpc[t] = "search"
  /\ remaining[t] > 0
  /\ times' = [times EXCEPT ![cursor[t]] = @ + 1]
  /\ cursor' = [cursor EXCEPT ![t] = @ + 1]
  /\ remaining' = [remaining EXCEPT ![t] = @ - 1]
  /\ UNCHANGED <<hash, list, listSize, flags, wpc, main>>

\* find_deltas has left its loop and released the lock.
ListEmpty(t) ==
  /\ Alive
  /\ wpc[t] = "search"
  /\ remaining[t] = 0
  /\ Goto(t, "report")
  /\ UNCHANGED <<hash, parts, flags, searcher, main>>

\* Mutant: reports to main without a signal.
MutReport(t) ==
  /\ Alive
  /\ wpc[t] = "report"
  /\ working' = [working EXCEPT ![t] = 0]
  /\ Goto(t, "await")
  /\ UNCHANGED <<hash, parts, dataReady, searcher, main>>

\* working, and pthread_cond_signal(&progress_cond)
Report(t) ==
  /\ Alive
  /\ wpc[t] = "report"
  /\ working' = [working EXCEPT ![t] = 0]
  /\ mpc' = IF mpc = "waiting" THEN "scan" ELSE mpc
  /\ Goto(t, "await")
  /\ UNCHANGED <<hash, parts, dataReady, searcher, setup, target, activeThreads>>

\* while (!me->data_ready) pthread_cond_wait(&me->cond, &me->mutex)
Await(t) ==
  /\ Alive
  /\ wpc[t] \in {"await", "woken"}
  /\ dataReady' = [dataReady EXCEPT ![t] = 0]
  /\ Goto(t, IF dataReady[t] = 1 THEN "test" ELSE "blocked")
  /\ UNCHANGED <<hash, parts, working, searcher, main>>

ThreadNext(t) ==
  Test(t) \/ Enter(t) \/ TakeObject(t) \/ ListEmpty(t) \/ Report(t) \/ Await(t)

\* pthread_cond_wait may return without a signal.
SpuriousWakeup ==
  \/ /\ mpc = "waiting"
     /\ mpc' = "scan"
     /\ UNCHANGED <<hash, parts, flags, wpc, searcher, setup, target, activeThreads>>
  \/ \E t \in Threads :
       /\ Alive
       /\ wpc[t] = "blocked"
       /\ Goto(t, "woken")
       /\ UNCHANGED <<hash, parts, flags, searcher, main>>

Next == MainNext \/ (\E t \in Threads : ThreadNext(t)) \/ SpuriousWakeup

\* Every thread is scheduled; nobody relies on spurious wake-ups.
Fairness == WF_vars(MainNext) /\ \A t \in Threads : WF_vars(ThreadNext(t))

Spec == Init /\ [][Next]_vars
FairSpec == Spec /\ Fairness
-----------------------------------------------------------------------------
(* Properties.                                                             *)

\* What a thread has left, from First(t) on.
First(t) == IF wpc[t] = "search" THEN cursor[t] ELSE list[t]
Has(t, o) == First(t) <= o /\ o < First(t) + remaining[t]

AwaitsWork(t) == wpc[t] \in {"await", "blocked", "woken"}

\* Type invariant of the parts, the flags and the program counters.
TypeOK ==
  /\ hash \in [Objects -> Nat]
  /\ list \in [Threads -> 0 .. N]
  /\ listSize \in [Threads -> 0 .. N]
  /\ remaining \in [Threads -> 0 .. N]
  /\ working \in [Threads -> {0, 1}]
  /\ dataReady \in [Threads -> {0, 1}]
  /\ wpc \in [Threads -> {"new", "test", "enter", "search", "report", "await",
                          "blocked", "woken", "exited"}]
  /\ cursor \in [Threads -> 0 .. N]
  /\ times \in [Objects -> {0, 1}]
  /\ mpc \in {"partition", "start", "scan", "waiting", "hand", "join", "done", "died"}
  /\ mi \in 0 .. T
  /\ mlist \in 0 .. N
  /\ target \in Threads
  /\ activeThreads \in Nat

\* However often parts are split while their owners work on them, no object is
\* searched twice, and when ll_find_deltas returns every one has been searched.
SearchedOnce ==
  \A o \in Objects : times[o] <= 1 /\ (mpc = "done" => times[o] = 1)

\* Main hands over only to a thread that waits for work: never to one that was
\* not created, or that has ended and whose mutex is destroyed.
HandsToWaiting == mpc = "hand" => AwaitsWork(target)

\* When ll_find_deltas destroys the mutexes and frees p, no thread is left that
\* could use them.
NobodyLeftBehind == mpc = "done" => \A t \in Threads : wpc[t] \in {"new", "exited"}

\* me->list is read without the lock, and no part is taken away from a thread,
\* or given to it, between the test of me->remaining and that read.
ReadOutsideLock ==
  [][\A t \in Threads : wpc[t] = "enter" => list'[t] = list[t]]_vars

\* What the next step of main needs: where the part ends, and whom to give which
\* part, must be there to be found, and the thread it joins must have ended.
MainCanGo ==
  \/ mpc \in {"start", "hand"}
  \/ mpc = "partition" /\ PartEnds(mi) # {}
  \/ mpc = "scan" /\ IdleThreads = {}
  \/ /\ mpc = "scan"
     /\ \E t \in IdleThreads : IsFirstOf(t, IdleThreads)
     /\ \/ Candidates = {}
        \/ \E v \in Threads : IsVictim(v) /\ \E q \in Objects : IsSplit(v, q)
  \/ mpc = "join" /\ wpc[target] = "exited"
ThreadCanGo(t) == Alive /\ wpc[t] \in {"test", "enter", "search", "report", "await", "woken"}

\* Until the search ends somebody can go on without a spurious wake-up: main and
\* the threads never all wait for each other, main never joins a thread that
\* waits for main, and main never looks for a part that is not there.
NeverStuck == Alive => MainCanGo \/ \E t \in Threads : ThreadCanGo(t)

\* How far a thread is from the next object it takes, or from its end.
Rank(t) ==
  IF wpc[t] = "search" THEN (IF remaining[t] = 0 THEN 10 ELSE 1)
  ELSE IF wpc[t] = "report" THEN 9
  ELSE IF wpc[t] \in {"await", "woken"}
       THEN (IF working[t] = 0 THEN 8 ELSE IF dataReady[t] = 0 THEN 6 ELSE 4)
  ELSE IF wpc[t] = "blocked" THEN (IF working[t] = 0 THEN 7 ELSE 5)
  ELSE IF wpc[t] = "new" THEN 4
  ELSE IF wpc[t] = "test" THEN 3
  ELSE IF wpc[t] = "enter" THEN 2 ELSE 0

\* How far main is from waiting for a thread.
MainRank ==
  IF mpc = "partition" THEN 3 + 2 * T - mi
  ELSE IF mpc = "start" THEN 3 + T - mi
  ELSE IF mpc = "join" THEN 2
  ELSE IF mpc = "scan" THEN 1 ELSE 0

Unsearched == {o \in Objects : times[o] = 0}

\* An object is taken; or no thread is set back, and one of them comes closer to
\* the next object or to its end, or main comes closer to waiting.
Closer ==
  \/ Unsearched' \subseteq Unsearched /\ Unsearched' # Unsearched
  \/ /\ Unsearched' = Unsearched
     /\ \A t \in Threads : Rank(t)' <= Rank(t)
     /\ (\E t \in Threads : Rank(t)' < Rank(t)) \/ MainRank' < MainRank

\* No step of the threads and of ll_find_deltas is in vain, and there is no round
\* in which they hand parts back and forth: every step brings the search closer to
\* its end.  What Closer compares is bounded from below, so that only finitely many
\* steps are possible.  Spurious wake-ups alone may go on for ever.
NoIdleRound == [][MainNext \/ (\E t \in Threads : ThreadNext(t)) => Closer]_vars

\* The search ends: no wake-up is lost between the threads and main.
SearchEnds == <>(mpc \in {"done", "died"})
-----------------------------------------------------------------------------
(* The inductive invariant.                                                *)

\* What is in no part any more was searched, and what is in one was not; parts
\* do not overlap, and what main has not given out yet is in none.
PartsInv ==
  /\ \A t \in Threads : remaining[t] > 0 => First(t) + remaining[t] <= mlist
  /\ \A t, u \in Threads : t # u => \A o \in Objects : ~(Has(t, o) /\ Has(u, o))
  /\ \A o \in Objects : times[o] = 0 <=> o >= mlist \/ \E t \in Threads : Has(t, o)
  /\ \A t \in Threads :
       IF wpc[t] = "search"
       THEN cursor[t] + remaining[t] = list[t] + listSize[t] /\ list[t] <= cursor[t]
       ELSE remaining[t] = 0 \/ remaining[t] = listSize[t]

\* A thread is marked idle from its report until main picks it.  From then until
\* it goes on, either main is about to tell it or data_ready is set.
IdleInv ==
  \A t \in Threads :
    LET picked == mpc = "hand" /\ target = t IN
      /\ ~AwaitsWork(t) => dataReady[t] = 0 /\ ~picked
      /\ ~AwaitsWork(t) /\ mpc # "partition" => working[t] = 1
      /\ AwaitsWork(t) =>
           /\ working[t] = 0 => dataReady[t] = 0 /\ ~picked
           /\ working[t] = 1 => (dataReady[t] = 1 <=> ~picked)
      /\ wpc[t] = "blocked" => dataReady[t] = 0
      /\ wpc[t] = "report" \/ (AwaitsWork(t) /\ working[t] = 0) => remaining[t] = 0

\* A thread runs out of work for good only when main is about to join it.
ExitInv ==
  \A t \in Threads :
    LET joining == mpc = "join" /\ target = t IN
      /\ joining => remaining[t] = 0 /\ wpc[t] \in {"test", "exited", "await", "woken"}
      /\ joining /\ AwaitsWork(t) => dataReady[t] = 1
      /\ wpc[t] = "test" /\ remaining[t] = 0 => joining
      /\ AwaitsWork(t) /\ dataReady[t] = 1 /\ remaining[t] = 0 => joining
      /\ wpc[t] = "enter" => remaining[t] > 0
      /\ wpc[t] = "exited" => remaining[t] = 0

\* The loops before threads run, and the number of threads not joined yet.
Unjoined ==
  {t \in Threads : wpc[t] \notin {"new", "exited"} \/ (mpc = "join" /\ target = t)}
MainInv ==
  /\ mpc \in {"partition", "start"} => mi \in Threads
  /\ mpc = "partition" =>
       /\ \A t \in Threads : wpc[t] = "new" /\ (t >= mi => remaining[t] = 0)
       /\ \A t \in Threads : t < mi => working[t] = 1
  /\ mpc # "partition" => mlist = N
  /\ mpc = "start" => \A t \in Threads : t >= mi => wpc[t] = "new"
  /\ \A t \in Threads : wpc[t] = "new" =>
       /\ remaining[t] = listSize[t]
       /\ mpc \notin {"partition", "died"} /\ (mpc = "start" => t < mi) => remaining[t] = 0
  /\ activeThreads = Cardinality(Unjoined)
  /\ mpc = "done" => activeThreads = 0

IInv == TypeOK /\ PartsInv /\ IdleInv /\ ExitInv /\ MainInv

\* Main sleeps only when nobody is idle, and looks for idle threads only as long
\* as a thread is left.
WaitInv ==
  /\ mpc = "waiting" => IdleThreads = {}
  /\ mpc \in {"scan", "waiting", "hand"} => activeThreads > 0
=============================================================================
