------------------------ MODULE DeltaSearch_proofs ------------------------
(***************************************************************************)
(* Proofs about DeltaSearch for any number of objects and threads, every   *)
(* window and every assignment of name hashes.                             *)
(***************************************************************************)
EXTENDS DeltaSearch, FiniteSetTheorems, WellFoundedInduction, TLAPS

\* The threads, and every set of them, are finite.
LEMMA FiniteThreads == \A S \in SUBSET Threads : IsFiniteSet(S) /\ Cardinality(S) \in Nat
  <1>1. IsFiniteSet(Threads)
    BY ConstantsOK, FS_Interval DEF Threads
  <1> QED BY <1>1, FS_Subset, FS_CardinalityType, Zenon

\* Initially no object is given out and no thread was created.
LEMMA InitIInv == Init => IInv
  <1> SUFFICES ASSUME Init PROVE IInv
    BY Zenon
  <1> USE ConstantsOK DEF Init, Objects, Threads
  <1>1. TypeOK
    BY DEF TypeOK
  <1>2. PartsInv
    BY DEF PartsInv, First, Has
  <1>3. IdleInv /\ ExitInv
    BY Zenon DEF IdleInv, ExitInv, AwaitsWork
  <1>4. MainInv
    <2>1. Unjoined = {}
      BY Zenon DEF Unjoined
    <2> QED BY <2>1, FS_EmptySet DEF MainInv
  <1> QED BY <1>1, <1>2, <1>3, <1>4, Zenon DEF IInv

\* What the type invariant says of one thread.
LEMMA ThreadTypes ==
  ASSUME TypeOK, NEW t \in Threads
  PROVE  /\ N \in Nat /\ T \in Nat /\ W \in Nat /\ mlist \in 0 .. N /\ t \in Int
         /\ list[t] \in 0 .. N /\ listSize[t] \in 0 .. N /\ remaining[t] \in 0 .. N
         /\ cursor[t] \in 0 .. N /\ First(t) \in 0 .. N
  BY ConstantsOK DEF TypeOK, First, Threads

\* Main gives a thread its part.
LEMMA PartitionStep == ASSUME IInv, Partition PROVE IInv'
  <1>0. /\ mi \in Threads /\ mpc = "partition" /\ mi \in 0 .. T - 1 /\ T \in Nat /\ N \in Nat
        /\ \A t \in Threads : wpc[t] = "new" /\ (t >= mi => remaining[t] = 0)
        /\ \A t \in Threads : t < mi => working[t] = 1
    BY ConstantsOK, Zenon DEF Partition, IInv, MainInv, Threads
  <1>k. PICK k \in Threads : k = mi
    BY <1>0, Zenon
  <1>1. PICK e \in PartEnds(mi) :
          /\ list' = [list EXCEPT ![mi] = mlist]
          /\ listSize' = [listSize EXCEPT ![mi] = e - mlist]
          /\ remaining' = [remaining EXCEPT ![mi] = e - mlist]
          /\ mlist' = e
    BY Zenon DEF Partition
  <1>2. /\ working' = [working EXCEPT ![mi] = 1]
        /\ mi + 1 < T => mi' = mi + 1 /\ mpc' = "partition"
        /\ ~(mi + 1 < T) => mi' = 0 /\ mpc' = "start"
        /\ UNCHANGED <<hash, dataReady, wpc, cursor, times, target, activeThreads>>
    BY Zenon DEF Partition, searcher
  <1>3. e \in mlist .. N /\ (mi + 1 = T => e = N) /\ mlist \in 0 .. N
    <2>1. mlist \in 0 .. N /\ N - mlist \in Nat /\ mi \in 0 .. T - 1
      BY <1>0 DEF TypeOK, IInv
    <2>2. mi + 1 # T => Share(N - mlist, mi) \in Nat
      BY <1>0, <2>1 DEF Share
    <2>3. mi + 1 = T => Share(N - mlist, mi) = N - mlist
      BY <1>0, <2>1 DEF Share
    <2> QED BY <1>0, <2>1, <2>2, <2>3, <1>1 DEF PartEnds
  <1>4. TypeOK'
    <2>1. e \in 0 .. N /\ e - mlist \in 0 .. N
      BY <1>0, <1>3
    <2>2. list' \in [Threads -> 0 .. N]
      BY <1>1, <1>3, Zenon DEF TypeOK, IInv
    <2>3. listSize' \in [Threads -> 0 .. N] /\ remaining' \in [Threads -> 0 .. N]
      BY <1>1, <2>1, Zenon DEF TypeOK, IInv
    <2>4. working' \in [Threads -> {0, 1}]
      BY <1>2, Zenon DEF TypeOK, IInv
    <2>5. mi' \in 0 .. T /\ mpc' \in {"partition", "start"} /\ mlist' \in 0 .. N
      BY <1>0, <1>1, <1>2, <2>1
    <2> QED BY <1>2, <2>2, <2>3, <2>4, <2>5, Zenon DEF TypeOK, IInv
  <1>5. /\ \A t \in Threads : t # k => First(t)' = First(t) /\ remaining'[t] = remaining[t]
        /\ \A t \in Threads : t # k => listSize'[t] = listSize[t]
        /\ First(k)' = mlist /\ remaining'[k] = e - mlist /\ remaining[k] = 0
        /\ listSize'[k] = e - mlist
    <2>1. \A t \in Threads : t # k =>
            list'[t] = list[t] /\ listSize'[t] = listSize[t] /\ remaining'[t] = remaining[t]
      BY <1>1, <1>k, Zenon DEF TypeOK, IInv
    <2>2. list'[k] = mlist /\ listSize'[k] = e - mlist /\ remaining'[k] = e - mlist
      BY <1>0, <1>k, <1>1, Zenon DEF TypeOK, IInv
    <2>3. \A t \in Threads : First(t) = list[t] /\ First(t)' = list'[t]
      BY <1>0, <1>k, <1>2, Zenon DEF First
    <2>4. remaining[k] = 0
      BY <1>0, <1>k
    <2> QED BY <1>0, <1>k, <2>1, <2>2, <2>3, <2>4
  <1>6. PartsInv'
    <2>1. /\ \A t \in Threads, o \in Objects : t # k => (Has(t, o)' <=> Has(t, o))
          /\ \A o \in Objects : Has(k, o)' <=> mlist <= o /\ o < e
          /\ \A o \in Objects : ~Has(k, o)
      BY <1>0, <1>k, <1>3, <1>5, ThreadTypes DEF Has, Objects, IInv
    <2>2. \A t \in Threads, o \in Objects : Has(t, o) => o < mlist
      BY ThreadTypes DEF Has, Objects, IInv, PartsInv
    <2>3. \A t \in Threads : remaining'[t] > 0 => First(t)' + remaining'[t] <= mlist'
      BY <1>0, <1>k, <1>1, <1>3, <1>5, ThreadTypes DEF PartsInv, IInv
    <2>4. \A t, u \in Threads : t # u => \A o \in Objects : ~(Has(t, o)' /\ Has(u, o)')
      BY <1>0, <1>k, <1>3, <2>1, <2>2 DEF PartsInv, IInv, Objects
    <2>5. \A o \in Objects : times'[o] = 0 <=> o >= mlist' \/ \E t \in Threads : Has(t, o)'
      <3> SUFFICES ASSUME NEW o \in Objects
                   PROVE  times[o] = 0 <=> o >= e \/ \E t \in Threads : Has(t, o)'
        BY <1>1, <1>2, Zenon
      <3>1. times[o] = 0 <=> o >= mlist \/ \E t \in Threads : Has(t, o)
        BY Zenon DEF PartsInv, IInv
      <3>2. mlist <= o /\ o < e => Has(k, o)' /\ k \in Threads
        BY <1>0, <1>k, <2>1, Zenon
      <3> QED BY <1>0, <1>k, <1>3, <2>1, <3>1, <3>2 DEF Objects
    <2>6. \A t \in Threads : wpc'[t] = "new" /\ (remaining'[t] = 0 \/ remaining'[t] = listSize'[t])
      BY <1>0, <1>k, <1>2, <1>5 DEF PartsInv, IInv
    <2> QED BY <2>3, <2>4, <2>5, <2>6, Zenon DEF PartsInv
  <1>7. IdleInv' /\ ExitInv'
    <2>1. mpc' \in {"partition", "start"} /\ \A t \in Threads : wpc'[t] = "new" /\ dataReady'[t] = 0
      BY <1>0, <1>2, Zenon DEF IdleInv, AwaitsWork, IInv
    <2>2. mpc' = "start" => \A t \in Threads : working'[t] = 1
      BY <1>0, <1>2 DEF Threads, TypeOK, IInv
    <2> QED BY <2>1, <2>2, Zenon DEF IdleInv, ExitInv, AwaitsWork
  <1>8. MainInv'
    <2>1. Unjoined' = Unjoined
      BY <1>0, <1>k, <1>2, Zenon DEF Unjoined
    <2>2. \A t \in Threads : t >= mi + 1 => remaining'[t] = 0
      BY <1>0, <1>k, <1>5 DEF Threads
    <2>3. \A t \in Threads : wpc'[t] = "new" /\ remaining'[t] = listSize'[t]
      BY <1>0, <1>k, <1>2, <1>5, Zenon DEF MainInv, IInv
    <2>4. \A t \in Threads : t < mi + 1 => working'[t] = 1
      BY <1>0, <1>k, <1>2 DEF Threads, TypeOK, IInv
    <2>5. mi' \in Threads /\ (mpc' = "start" => mlist' = N)
      BY <1>0, <1>k, <1>1, <1>2, <1>3 DEF Threads
    <2>6. activeThreads' = Cardinality(Unjoined') /\ mpc' # "done"
      BY <1>2, <2>1, Zenon DEF MainInv, IInv
    <2> QED BY <1>0, <1>k, <1>2, <2>2, <2>3, <2>4, <2>5, <2>6 DEF MainInv, Threads
  <1> QED BY <1>4, <1>6, <1>7, <1>8, Zenon DEF IInv

\* A step that leaves the parts alone, and no thread begins or ends a search.
LEMMA PartsKept ==
  ASSUME PartsInv, UNCHANGED <<parts, searcher, mlist>>,
         \A t \in Threads : wpc'[t] = "search" <=> wpc[t] = "search"
  PROVE  PartsInv'
  <1>1. \A t \in Threads : First(t)' = First(t)
    BY Zenon DEF First, parts, searcher
  <1>2. \A t \in Threads, o \in Objects : Has(t, o)' <=> Has(t, o)
    BY <1>1, Zenon DEF Has, parts
  <1> QED BY <1>1, <1>2, Zenon DEF PartsInv, parts, searcher

\* A step of main alone that is not about work: creation of threads, waiting.
LEMMA StartStep == ASSUME IInv, StartThread PROVE IInv'
  <1>0. /\ mi \in Threads /\ mpc = "start" /\ mi \in 0 .. T - 1 /\ T \in Nat /\ N \in Nat
        /\ \A t \in Threads : t >= mi => wpc[t] = "new"
        /\ wpc[mi] = "new"
    BY ConstantsOK DEF StartThread, IInv, MainInv, Threads
  <1>1. PICK k \in Threads : k = mi
    BY <1>0, Zenon
  <1>2. /\ wpc' = [wpc EXCEPT ![k] = IF listSize[k] > 0 THEN "test" ELSE "new"]
        /\ activeThreads' = IF listSize[k] > 0 THEN activeThreads + 1 ELSE activeThreads
        /\ mi' = mi + 1
        /\ mi + 1 < T => mpc' = "start"
        /\ ~(mi + 1 < T) => mpc' = IF activeThreads' > 0 THEN "scan" ELSE "done"
        /\ UNCHANGED <<hash, parts, flags, searcher, mlist, target>>
        /\ UNCHANGED <<list, listSize, remaining, working, dataReady, cursor, times>>
    BY <1>1, Zenon DEF StartThread, parts, flags, searcher
  <1>3. /\ mpc' \in {"start", "scan", "done"} /\ activeThreads \in Nat /\ activeThreads' \in Nat
        /\ wpc'[k] \in {"test", "new"} /\ \A t \in Threads : t # k => wpc'[t] = wpc[t]
        /\ mi' \in 0 .. T
    BY <1>0, <1>1, <1>2 DEF IInv, TypeOK
  <1>4. TypeOK'
    BY <1>2, <1>3, Zenon DEF IInv, TypeOK
  <1>5. PartsInv'
    BY <1>0, <1>1, <1>2, <1>3, PartsKept, Zenon DEF IInv
  <1>6. IdleInv'
    BY <1>0, <1>1, <1>2, <1>3, Zenon DEF IInv, IdleInv, AwaitsWork
  <1>7. remaining[k] = listSize[k] /\ remaining[k] \in 0 .. N
    BY <1>0, <1>1, ThreadTypes, Zenon DEF IInv, MainInv
  <1>8. ExitInv'
    <2>1. wpc'[k] = "test" => remaining'[k] > 0
      BY <1>1, <1>2, <1>3, <1>7, Zenon DEF IInv, TypeOK
    <2> QED BY <1>0, <1>1, <1>2, <1>3, <2>1 DEF IInv, ExitInv, AwaitsWork
  <1>9. activeThreads' = Cardinality(Unjoined')
    <2>1. k \notin Unjoined /\ Unjoined \subseteq Threads /\ activeThreads = Cardinality(Unjoined)
      BY <1>0, <1>1, Zenon DEF Unjoined, IInv, MainInv
    <2>2. CASE listSize[k] > 0
      <3>1. Unjoined' = Unjoined \cup {k}
        BY <1>0, <1>2, <1>3, <2>2, Zenon DEF Unjoined, IInv, TypeOK
      <3> QED BY <1>2, <2>1, <2>2, <3>1, FiniteThreads, FS_AddElement, Zenon
    <2>3. CASE ~(listSize[k] > 0)
      <3>1. Unjoined' = Unjoined
        BY <1>0, <1>1, <1>2, <1>3, <2>3, Zenon DEF Unjoined, IInv, TypeOK
      <3> QED BY <1>2, <2>1, <2>3, <3>1, Zenon
    <2> QED BY <2>2, <2>3, Zenon
  <1>10. MainInv'
    <2>1. mpc' = "start" => mi' \in Threads
      BY <1>0, <1>2, <1>3 DEF Threads
    <2>2. mpc' = "start" => \A t \in Threads : t >= mi' => wpc'[t] = "new"
      BY <1>0, <1>1, <1>2, <1>3 DEF Threads
    <2>3. \A t \in Threads : wpc'[t] = "new" => remaining'[t] = listSize'[t]
      BY <1>0, <1>1, <1>2, <1>3, Zenon DEF IInv, MainInv
    <2>4. wpc'[k] = "new" => remaining'[k] = 0
      BY <1>2, <1>3, <1>7 DEF IInv, TypeOK
    <2>5. \A t \in Threads : wpc'[t] = "new" /\ t < mi' => remaining'[t] = 0
      BY <1>0, <1>1, <1>2, <1>3, <2>4 DEF IInv, MainInv, Threads
    <2>6. mpc' # "start" => mi' = T /\ \A t \in Threads : t < mi'
      BY <1>0, <1>1, <1>2 DEF Threads
    <2>7. mlist' = N /\ (mpc' = "done" => activeThreads' = 0)
      BY <1>0, <1>2, <1>3 DEF IInv, MainInv
    <2> QED BY <1>3, <1>9, <2>1, <2>2, <2>3, <2>5, <2>6, <2>7, Zenon DEF MainInv
  <1> QED BY <1>4, <1>5, <1>6, <1>8, <1>10, Zenon DEF IInv

\* Main waits, is woken without a signal, or gives up.
LEMMA PauseStep ==
  ASSUME IInv, mpc \in {"start", "scan", "waiting"}, mpc' \in {"died", "scan", "waiting"},
         mpc = "start" <=> mpc' = "died",
         UNCHANGED <<hash, parts, flags, wpc, searcher, setup, target, activeThreads>>
  PROVE  IInv'
  <1> USE DEF IInv, parts, flags, searcher, setup
  <1>1. TypeOK'
    BY Zenon DEF TypeOK
  <1>2. PartsInv'
    BY PartsKept, Zenon
  <1>3. IdleInv' /\ ExitInv'
    BY Zenon DEF IdleInv, ExitInv, AwaitsWork
  <1>4. Unjoined' = Unjoined
    BY Zenon DEF Unjoined
  <1>5. MainInv'
    BY <1>4, Zenon DEF MainInv
  <1> QED BY <1>1, <1>2, <1>3, <1>5, Zenon

\* A thread that waits is told that there is work, or none.
LEMMA HandOverStep == ASSUME IInv, HandOver PROVE IInv'
  <1> USE DEF IInv
  <1>1. PICK k \in Threads : k = target
    BY Zenon DEF TypeOK
  <1>2. /\ mpc = "hand" /\ mpc' = IF remaining[k] = 0 THEN "join" ELSE "scan"
        /\ dataReady' = [dataReady EXCEPT ![k] = 1]
        /\ wpc' = [wpc EXCEPT ![k] = IF @ = "blocked" THEN "woken" ELSE @]
        /\ UNCHANGED <<hash, parts, working, searcher, mi, mlist, target, activeThreads>>
        /\ UNCHANGED <<list, listSize, remaining, cursor, times>>
    BY <1>1, Zenon DEF HandOver, parts, searcher, setup
  <1>3. AwaitsWork(k) /\ working[k] = 1 /\ dataReady[k] = 0 /\ remaining[k] \in 0 .. N
    BY <1>1, <1>2, ThreadTypes, Zenon DEF IdleInv, TypeOK
  <1>4. /\ dataReady'[k] = 1 /\ wpc'[k] \in {"await", "woken"}
        /\ \A t \in Threads : t # k => dataReady'[t] = dataReady[t] /\ wpc'[t] = wpc[t]
        /\ mpc' \in {"join", "scan"}
    BY <1>2, <1>3, Zenon DEF AwaitsWork, TypeOK
  <1>5. TypeOK'
    BY <1>2, <1>4, Zenon DEF TypeOK
  <1>6. PartsInv'
    BY <1>2, <1>3, <1>4, PartsKept, Zenon DEF AwaitsWork
  <1>7. IdleInv'
    BY <1>1, <1>2, <1>3, <1>4 DEF IdleInv, AwaitsWork
  <1>8. ExitInv'
    <2>1. ASSUME NEW t \in Threads, t # k
          PROVE  /\ wpc[t] = "test" => remaining[t] # 0
                 /\ AwaitsWork(t) /\ dataReady[t] = 1 => remaining[t] # 0
      BY <1>2, Zenon DEF ExitInv
    <2> QED BY <1>1, <1>2, <1>3, <1>4, <2>1 DEF ExitInv, AwaitsWork
  <1>9. Unjoined' = Unjoined
    BY <1>1, <1>2, <1>3, <1>4, Zenon DEF Unjoined, AwaitsWork
  <1>10. MainInv'
    BY <1>2, <1>3, <1>4, <1>9, ZenonT(40) DEF MainInv, AwaitsWork
  <1> QED BY <1>5, <1>6, <1>7, <1>8, <1>10

\* Main joins a thread that has ended.
LEMMA JoinStep == ASSUME IInv, Join PROVE IInv'
  <1> USE DEF IInv
  <1>1. PICK k \in Threads : k = target
    BY DEF TypeOK
  <1>2. /\ mpc = "join" /\ wpc[k] = "exited" /\ activeThreads' = activeThreads - 1
        /\ mpc' = IF activeThreads' > 0 THEN "scan" ELSE "done"
        /\ UNCHANGED <<hash, parts, flags, wpc, searcher, mi, mlist, target>>
        /\ UNCHANGED <<list, listSize, remaining, working, dataReady, cursor, times>>
    BY <1>1, Zenon DEF Join, parts, flags, searcher, setup
  <1>3. Unjoined' = Unjoined \ {k} /\ k \in Unjoined /\ Unjoined \subseteq Threads
    BY <1>1, <1>2, Zenon DEF Unjoined
  <1>4. activeThreads' \in Nat /\ activeThreads' = Cardinality(Unjoined')
    <2>1. Unjoined' \in SUBSET Threads
      BY <1>3, Zenon
    <2>2. activeThreads = Cardinality(Unjoined) /\ IsFiniteSet(Unjoined)
      BY <1>3, FiniteThreads, Zenon DEF MainInv
    <2>3. Cardinality(Unjoined \ {k}) = Cardinality(Unjoined) - 1
      BY <1>3, <2>2, FS_RemoveElement, Zenon
    <2> QED BY <1>2, <1>3, <2>1, <2>2, <2>3, FiniteThreads, Zenon
  <1>5. mpc' \in {"scan", "done"} /\ (mpc' = "done" => activeThreads' = 0)
    <2>1. activeThreads' \in Nat /\ mpc' = IF activeThreads' > 0 THEN "scan" ELSE "done"
      BY <1>2, <1>4, Zenon
    <2> QED BY <2>1
  <1>6. TypeOK'
    BY <1>2, <1>4, <1>5, Zenon DEF TypeOK
  <1>7. PartsInv'
    BY <1>2, PartsKept, Zenon
  <1>8. IdleInv' /\ ExitInv'
    <2>1. \A t \in Threads : wpc[t] = "test" \/ (AwaitsWork(t) /\ dataReady[t] = 1) => remaining[t] # 0
      BY <1>1, <1>2, Zenon DEF ExitInv, AwaitsWork
    <2>2. IdleInv'
      BY <1>1, <1>2, <1>5, Zenon DEF IdleInv, AwaitsWork
    <2>3. ExitInv'
      BY <1>2, <1>5, <2>1, Zenon DEF ExitInv, AwaitsWork
    <2> QED BY <2>2, <2>3, Zenon
  <1>9. MainInv'
    BY <1>2, <1>4, <1>5, Zenon DEF MainInv
  <1> QED BY <1>6, <1>7, <1>8, <1>9, Zenon

\* Where the end of a part is, for a thread that has objects left.
LEMMA EndOfPart ==
  ASSUME IInv, NEW v \in Threads, remaining[v] > 0
  PROVE  EndOf(v) = First(v) + remaining[v] /\ EndOf(v) <= mlist
  BY ThreadTypes DEF IInv, PartsInv, EndOf, First

\* The stolen half begins after the victim's first object, and is not empty.
LEMMA SplitInside ==
  ASSUME IInv, NEW v \in Threads, v \in Candidates, NEW q \in Objects, IsSplit(v, q)
  PROVE  q > First(v) /\ q < EndOf(v) /\ q \in Int
  <1>1. remaining[v] > 2 * W /\ W \in Nat /\ W > 1 /\ remaining[v] \in 0 .. N /\ First(v) \in 0 .. N
    BY ConstantsOK, ThreadTypes DEF Candidates, IInv
  <1>2. EndOf(v) = First(v) + remaining[v]
    BY <1>1, EndOfPart
  <1>3. remaining[v] \div 2 \in 1 .. remaining[v] - 1
    BY <1>1
  <1> DEFINE half == EndOf(v) - remaining[v] \div 2
  <1>4. half > First(v) /\ half < EndOf(v) /\ half \in Int
    BY <1>1, <1>2, <1>3
  <1>5. q = half \/ q \in half .. EndOf(v) - 1
    BY Zenon DEF IsSplit
  <1> QED BY <1>1, <1>2, <1>4, <1>5

\* Taking the second half from a thread's part and giving it to an idle thread
\* keeps the parts disjoint, and loses no object.
LEMMA StealParts ==
  ASSUME IInv, NEW k \in Threads, remaining[k] = 0, wpc[k] # "search",
         NEW v \in Threads, v \in Candidates, NEW q \in Objects, IsSplit(v, q), Steal(k, v,
         q),
         UNCHANGED <<wpc, searcher, mlist>>
  PROVE  /\ PartsInv'
         /\ list' \in [Threads -> 0 .. N] /\ listSize' \in [Threads -> 0 .. N]
         /\ remaining' \in [Threads -> 0 .. N]
         /\ remaining'[k] > 0 /\ remaining'[v] > 0 /\ v # k /\ remaining[v] > 0
         /\ \A t \in Threads : t # k /\ t # v =>
              remaining'[t] = remaining[t] /\ listSize'[t] = listSize[t]
  <1>1. /\ remaining[v] > 0 /\ v # k
        /\ First(v) \in 0 .. N /\ remaining[v] \in 0 .. N /\ listSize[v] \in 0 .. N
        /\ N \in Nat /\ q \in 0 .. N - 1 /\ mlist \in 0 .. N /\ list[v] \in 0 .. N
    BY ConstantsOK, ThreadTypes DEF Candidates, IInv, Objects
  <1>2. EndOf(v) = First(v) + remaining[v] /\ EndOf(v) <= mlist /\ q > First(v) /\ q < EndOf(v)
    BY <1>1, EndOfPart, SplitInside, Zenon
  <1>3. EndOf(v) = list[v] + listSize[v]
    BY Zenon DEF EndOf
  <1> DEFINE stolen == EndOf(v) - q
  <1>4. stolen \in 1 .. N /\ stolen < remaining[v] /\ remaining[v] <= listSize[v]
    <2>1. wpc[v] # "search" => remaining[v] = listSize[v]
      BY <1>1 DEF IInv, PartsInv
    <2>2. wpc[v] = "search" => cursor[v] + remaining[v] = list[v] + listSize[v] /\ First(v) = cursor[v]
      BY Zenon DEF IInv, PartsInv, First
    <2>3. wpc[v] = "search" => list[v] <= cursor[v]
      BY Zenon DEF IInv, PartsInv
    <2> QED BY <1>1, <1>2, <1>3, <2>1, <2>2, <2>3
  <1>5. /\ list' = [list EXCEPT ![k] = q]
        /\ listSize' = [listSize EXCEPT ![v] = @ - stolen, ![k] = stolen]
        /\ remaining' = [remaining EXCEPT ![v] = @ - stolen, ![k] = stolen]
    BY Zenon DEF Steal
  <1>6. /\ list[v] \in Int /\ listSize[v] - stolen \in 0 .. N /\ remaining[v] - stolen \in 1 .. N
        /\ stolen \in 0 .. N /\ q \in 0 .. N
    BY <1>1, <1>4
  <1> HIDE DEF stolen
  <1>7. /\ list' \in [Threads -> 0 .. N] /\ listSize' \in [Threads -> 0 .. N]
        /\ remaining' \in [Threads -> 0 .. N]
    <2>1. list \in [Threads -> 0 .. N] /\ listSize \in [Threads -> 0 .. N]
          /\ remaining \in [Threads -> 0 .. N]
      BY Zenon DEF IInv, TypeOK
    <2>2. list' \in [Threads -> 0 .. N]
      BY <1>5, <1>6, <2>1, Zenon
    <2>3. listSize' \in [Threads -> 0 .. N]
      BY <1>5, <1>6, <1>1, <2>1, Zenon
    <2>4. remaining' \in [Threads -> 0 .. N]
      BY <1>5, <1>6, <1>1, <2>1
    <2> QED BY <2>2, <2>3, <2>4, Zenon
  <1>8. /\ list'[k] = q /\ remaining'[k] = stolen /\ listSize'[k] = stolen
        /\ list'[v] = list[v] /\ remaining'[v] = remaining[v] - stolen
        /\ listSize'[v] = listSize[v] - stolen
        /\ \A t \in Threads : t # k /\ t # v =>
             list'[t] = list[t] /\ remaining'[t] = remaining[t] /\ listSize'[t] = listSize[t]
    BY <1>1, <1>5, Zenon DEF IInv, TypeOK
  <1>9. /\ First(k)' = q /\ First(v)' = First(v)
        /\ \A t \in Threads : t # k => First(t)' = First(t)
    BY <1>1, <1>8, Zenon DEF First, searcher
  <1>10. /\ \A o \in Objects : Has(k, o)' <=> Has(v, o) /\ o >= q
         /\ \A o \in Objects : Has(v, o)' <=> Has(v, o) /\ o < q
         /\ \A o \in Objects : ~Has(k, o)
         /\ \A t \in Threads, o \in Objects : t # k /\ t # v => (Has(t, o)' <=> Has(t, o))
    <2>1. First(k) \in Int /\ stolen \in Int /\ stolen = First(v) + remaining[v] - q
      BY <1>2, <1>6, ThreadTypes DEF IInv, stolen
    <2> QED BY <1>1, <1>2, <1>6, <1>8, <1>9, <2>1 DEF Has, Objects
  <1>11. PartsInv'
    <2>1. \A t \in Threads : remaining'[t] > 0 => First(t)' + remaining'[t] <= mlist'
      <3>1. First(k)' + remaining'[k] <= mlist /\ First(v)' + remaining'[v] <= mlist
        BY <1>1, <1>2, <1>6, <1>8, <1>9 DEF stolen
      <3> QED BY <1>8, <1>9, <3>1, Zenon DEF IInv, PartsInv
    <2>2. \A t, u \in Threads : t # u => \A o \in Objects : ~(Has(t, o)' /\ Has(u, o)')
      <3> SUFFICES ASSUME NEW t \in Threads, NEW u \in Threads, t # u, NEW o \in Objects
                   PROVE  ~(Has(t, o)' /\ Has(u, o)')
        BY Zenon
      <3>1. \A x, y \in Threads : x # y => ~(Has(x, o) /\ Has(y, o))
        BY Zenon DEF IInv, PartsInv
      <3>2. ~(o >= q /\ o < q)
        BY <1>1 DEF Objects
      <3> QED BY <1>1, <1>10, <3>1, <3>2, Zenon
    <2>3. \A o \in Objects : times'[o] = 0 <=> o >= mlist' \/ \E t \in Threads : Has(t, o)'
      <3> SUFFICES ASSUME NEW o \in Objects
                   PROVE  (\E t \in Threads : Has(t, o)') <=> (\E t \in Threads : Has(t, o))
        BY Zenon DEF IInv, PartsInv, searcher
      <3>1. o >= q \/ o < q
        BY <1>1 DEF Objects
      <3>2. Has(v, o) => Has(v, o)' \/ Has(k, o)'
        BY <1>10, <3>1, Zenon
      <3> QED BY <1>10, <3>2, Zenon
    <2>4. \A t \in Threads :
            IF wpc'[t] = "search"
            THEN cursor'[t] + remaining'[t] = list'[t] + listSize'[t] /\ list'[t] <= cursor'[t]
            ELSE remaining'[t] = 0 \/ remaining'[t] = listSize'[t]
      <3> SUFFICES ASSUME NEW t \in Threads
                   PROVE  IF wpc[t] = "search"
                          THEN cursor[t] + remaining'[t] = list'[t] + listSize'[t] /\ list'[t] <= cursor[t]
                          ELSE remaining'[t] = 0 \/ remaining'[t] = listSize'[t]
        BY Zenon DEF searcher
      <3>1. cursor[v] \in Int
        BY ThreadTypes DEF IInv
      <3> QED BY <1>1, <1>6, <1>8, <3>1 DEF IInv, PartsInv
    <2> QED BY <2>1, <2>2, <2>3, <2>4, Zenon DEF PartsInv
  <1> QED BY <1>1, <1>4, <1>6, <1>7, <1>8, <1>11 DEF stolen

\* Main picks an idle thread and takes from another one half of its part, never
\* all of it.
LEMMA GiveWorkFacts ==
  ASSUME IInv, GiveWork
  PROVE  \E k \in Threads :
           /\ mpc = "scan" /\ mpc' = "hand" /\ target' = k
           /\ UNCHANGED <<hash, dataReady, wpc, cursor, times, mi, mlist, activeThreads>>
           /\ working[k] = 0 /\ AwaitsWork(k) /\ remaining[k] = 0 /\ dataReady[k] = 0
           /\ wpc[k] # "search"
           /\ working' = [working EXCEPT ![k] = 1]
           /\ PartsInv'
           /\ list' \in [Threads -> 0 .. N] /\ listSize' \in [Threads -> 0 .. N]
           /\ remaining' \in [Threads -> 0 .. N]
           /\ \A t \in Threads : t # k => (remaining'[t] = 0 <=> remaining[t] = 0)
           /\ \A t \in Threads : t # k /\ remaining[t] = 0 => listSize'[t] = listSize[t]
  <1> USE DEF IInv
  <1>1. PICK k \in IdleThreads :
          /\ \/ \E v \in Threads :
                  IsVictim(v) /\ \E q \in Objects : IsSplit(v, q) /\ Steal(k, v, q)
             \/ /\ Candidates = {}
                /\ listSize' = [listSize EXCEPT ![k] = 0]
                /\ remaining' = [remaining EXCEPT ![k] = 0]
                /\ UNCHANGED list
          /\ working' = [working EXCEPT ![k] = 1]
          /\ target' = k
    BY Zenon DEF GiveWork
  <1>2. /\ mpc = "scan" /\ mpc' = "hand"
        /\ UNCHANGED <<hash, dataReady, wpc, searcher, setup, activeThreads>>
        /\ UNCHANGED <<cursor, times, mi, mlist>>
    BY Zenon DEF GiveWork, searcher, setup
  <1>3. /\ k \in Threads /\ working[k] = 0 /\ AwaitsWork(k) /\ remaining[k] = 0 /\ dataReady[k] = 0
        /\ wpc[k] # "search"
    BY <1>1, <1>2 DEF IdleThreads, IdleInv, AwaitsWork
  <1>4. /\ PartsInv'
        /\ list' \in [Threads -> 0 .. N] /\ listSize' \in [Threads -> 0 .. N]
        /\ remaining' \in [Threads -> 0 .. N]
        /\ \A t \in Threads : t # k => (remaining'[t] = 0 <=> remaining[t] = 0)
        /\ \A t \in Threads : t # k /\ remaining[t] = 0 => listSize'[t] = listSize[t]
    <2>1. CASE \E v \in Threads : IsVictim(v) /\ \E q \in Objects : IsSplit(v, q) /\ Steal(k, v, q)
      <3>1. PICK v \in Threads, q \in Objects : IsVictim(v) /\ IsSplit(v, q) /\ Steal(k, v, q)
        BY <2>1, Zenon
      <3>2. v \in Candidates
        BY <3>1, Zenon DEF IsVictim, IsFirstOf
      <3>3. /\ PartsInv'
            /\ list' \in [Threads -> 0 .. N] /\ listSize' \in [Threads -> 0 .. N]
            /\ remaining' \in [Threads -> 0 .. N]
            /\ remaining'[k] > 0 /\ remaining'[v] > 0 /\ v # k /\ remaining[v] > 0
            /\ \A t \in Threads : t # k /\ t # v =>
                 remaining'[t] = remaining[t] /\ listSize'[t] = listSize[t]
        BY <1>2, <1>3, <3>1, <3>2, StealParts, Zenon
      <3>4. remaining'[v] # 0 /\ remaining[v] # 0
        BY <3>3
      <3> QED BY <3>3, <3>4, Zenon
    <2>2. CASE /\ listSize' = [listSize EXCEPT ![k] = 0]
               /\ remaining' = [remaining EXCEPT ![k] = 0]
               /\ UNCHANGED list
      <3>1. /\ list \in [Threads -> 0 .. N] /\ listSize \in [Threads -> 0 .. N]
            /\ remaining \in [Threads -> 0 .. N] /\ 0 \in 0 .. N
        BY ConstantsOK DEF TypeOK
      <3>2. /\ list' \in [Threads -> 0 .. N] /\ listSize' \in [Threads -> 0 .. N]
            /\ remaining' = remaining
            /\ \A t \in Threads : t # k => listSize'[t] = listSize[t]
        BY <1>3, <2>2, <3>1, Zenon
      <3>3. \A t \in Threads : First(t)' = First(t)
        BY <1>2, <2>2, Zenon DEF First
      <3>4. \A t \in Threads, o \in Objects : Has(t, o)' <=> Has(t, o)
        BY <3>2, <3>3, Zenon DEF Has
      <3>5. PartsInv'
        BY <1>2, <1>3, <2>2, <3>2, <3>3, <3>4, Zenon DEF PartsInv
      <3> QED BY <3>1, <3>2, <3>5, Zenon
    <2> QED BY <1>1, <2>1, <2>2, Zenon
  <1> QED BY <1>1, <1>2, <1>3, <1>4, Zenon

\* Main picks an idle thread and gives it half of another's part, or nothing.
LEMMA GiveWorkStep == ASSUME IInv, GiveWork PROVE IInv'
  <1> USE DEF IInv
  <1>1. PICK k \in Threads :
           /\ mpc = "scan" /\ mpc' = "hand" /\ target' = k
           /\ UNCHANGED <<hash, dataReady, wpc, cursor, times, mi, mlist, activeThreads>>
           /\ working[k] = 0 /\ AwaitsWork(k) /\ remaining[k] = 0 /\ dataReady[k] = 0
           /\ wpc[k] # "search"
           /\ working' = [working EXCEPT ![k] = 1]
           /\ PartsInv'
           /\ list' \in [Threads -> 0 .. N] /\ listSize' \in [Threads -> 0 .. N]
           /\ remaining' \in [Threads -> 0 .. N]
           /\ \A t \in Threads : t # k => (remaining'[t] = 0 <=> remaining[t] = 0)
           /\ \A t \in Threads : t # k /\ remaining[t] = 0 => listSize'[t] = listSize[t]
    BY GiveWorkFacts, Zenon
  <1>2. TypeOK'
    BY <1>1, Zenon DEF TypeOK
  <1>3. working'[k] = 1 /\ \A t \in Threads : t # k => working'[t] = working[t]
    BY <1>1, Zenon DEF TypeOK
  <1>4. IdleInv'
    BY <1>1, <1>3 DEF IdleInv, AwaitsWork
  <1>5. ExitInv'
    <2> SUFFICES ASSUME NEW t \in Threads
                 PROVE  /\ wpc[t] = "test" => remaining'[t] # 0
                        /\ AwaitsWork(t) /\ dataReady[t] = 1 => remaining'[t] # 0
                        /\ wpc[t] = "enter" => remaining'[t] > 0
                        /\ wpc[t] = "exited" => remaining'[t] = 0
      BY <1>1, Zenon DEF ExitInv, AwaitsWork
    <2>1. CASE t = k
      BY <1>1, <2>1 DEF AwaitsWork
    <2>2. CASE t # k
      <3>1. remaining'[t] \in 0 .. N /\ (remaining'[t] = 0 <=> remaining[t] = 0) /\ N \in Nat
            /\ remaining[t] \in 0 .. N
        BY <1>1, <2>2, ThreadTypes, Zenon
      <3> QED BY <1>1, <3>1 DEF ExitInv
    <2> QED BY <2>1, <2>2, Zenon
  <1>6. Unjoined' = Unjoined
    BY <1>1, Zenon DEF Unjoined
  <1>7. MainInv'
    BY <1>1, <1>6, Zenon DEF MainInv, AwaitsWork
  <1> QED BY <1>1, <1>2, <1>4, <1>5, <1>7, Zenon

\* A thread tests whether it has objects left, and ends if not.
LEMMA TestStep == ASSUME IInv, NEW k \in Threads, Test(k) PROVE IInv'
  <1> USE DEF IInv
  <1>1. /\ wpc[k] = "test" /\ wpc' = [wpc EXCEPT ![k] = IF remaining[k] > 0 THEN "enter" ELSE "exited"]
        /\ UNCHANGED <<hash, parts, flags, searcher, mpc, mi, mlist, target, activeThreads>>
        /\ UNCHANGED <<list, listSize, remaining, working, dataReady, cursor, times>>
    BY Zenon DEF Test, Goto, parts, flags, searcher, main, setup
  <1>2. /\ remaining[k] > 0 => wpc'[k] = "enter"
        /\ remaining[k] = 0 => wpc'[k] = "exited" /\ mpc = "join" /\ target = k
        /\ remaining[k] > 0 \/ remaining[k] = 0
        /\ \A t \in Threads : t # k => wpc'[t] = wpc[t]
    BY <1>1, ThreadTypes DEF ExitInv, TypeOK
  <1>3. TypeOK'
    BY <1>1, <1>2, Zenon DEF TypeOK
  <1>4. PartsInv'
    BY <1>1, <1>2, PartsKept, Zenon
  <1>5. IdleInv'
    <2>1. \A t \in Threads : AwaitsWork(t)' <=> AwaitsWork(t)
      BY <1>1, <1>2, Zenon DEF AwaitsWork
    <2>2. \A t \in Threads : /\ wpc'[t] = "blocked" => wpc[t] = "blocked"
                             /\ wpc'[t] = "report" => wpc[t] = "report"
      BY <1>1, <1>2, Zenon
    <2> QED BY <1>1, <2>1, <2>2, Zenon DEF IdleInv
  <1>6. ExitInv'
    BY <1>1, <1>2, Zenon DEF ExitInv, AwaitsWork
  <1>7. Unjoined' = Unjoined
    BY <1>1, <1>2, Zenon DEF Unjoined
  <1>8. MainInv'
    BY <1>1, <1>2, <1>7, Zenon DEF MainInv
  <1> QED BY <1>3, <1>4, <1>5, <1>6, <1>8, Zenon

\* A thread begins with its part.
LEMMA EnterStep == ASSUME IInv, NEW k \in Threads, Enter(k) PROVE IInv'
  <1> USE DEF IInv
  <1>1. /\ wpc[k] = "enter" /\ wpc' = [wpc EXCEPT ![k] = "search"]
        /\ cursor' = [cursor EXCEPT ![k] = list[k]]
        /\ UNCHANGED <<hash, list, listSize, remaining, working, dataReady, times, mpc, mi, mlist,
                       target, activeThreads>>
    BY Zenon DEF Enter, Goto, parts, flags, main, setup
  <1>2. /\ wpc'[k] = "search" /\ cursor'[k] = list[k]
        /\ \A t \in Threads : t # k => wpc'[t] = wpc[t] /\ cursor'[t] = cursor[t]
        /\ remaining[k] > 0
    BY <1>1, Zenon DEF ExitInv, TypeOK
  <1>3. TypeOK'
    BY <1>1, <1>2, Zenon DEF TypeOK
  <1>4. PartsInv'
    <2>1. \A t \in Threads : First(t)' = First(t)
      BY <1>1, <1>2, Zenon DEF First
    <2>2. \A t \in Threads, o \in Objects : Has(t, o)' <=> Has(t, o)
      BY <1>1, <2>1, Zenon DEF Has
    <2>3. remaining[k] = listSize[k] /\ list[k] \in Int
      BY <1>1, <1>2, ThreadTypes DEF PartsInv
    <2>4. \A t \in Threads : remaining'[t] > 0 => First(t)' + remaining'[t] <= mlist'
      BY <1>1, <2>1, Zenon DEF PartsInv
    <2>5. \A t, u \in Threads : t # u => \A o \in Objects : ~(Has(t, o)' /\ Has(u, o)')
      BY <2>2, Zenon DEF PartsInv
    <2>6. \A o \in Objects :
            times'[o] = 0 <=> o >= mlist' \/ \E t \in Threads : Has(t, o)'
      BY <1>1, <2>2, Zenon DEF PartsInv
    <2>7. ASSUME NEW t \in Threads
          PROVE  IF wpc'[t] = "search"
                 THEN /\ cursor'[t] + remaining'[t] = list'[t] + listSize'[t]
                      /\ list'[t] <= cursor'[t]
                 ELSE remaining'[t] = 0 \/ remaining'[t] = listSize'[t]
      <3>1. CASE t = k
        BY <1>1, <1>2, <2>3, <3>1
      <3>2. CASE t # k
        BY <1>1, <1>2, <3>2, Zenon DEF PartsInv
      <3> QED BY <3>1, <3>2, Zenon
    <2> QED BY <2>4, <2>5, <2>6, <2>7, Zenon DEF PartsInv
  <1>5. IdleInv' /\ ExitInv'
    <2>1. IdleInv'
      BY <1>1, <1>2, ZenonT(40) DEF IdleInv, AwaitsWork
    <2>2. ExitInv'
      BY <1>1, <1>2, ZenonT(40) DEF ExitInv, AwaitsWork
    <2> QED BY <2>1, <2>2, Zenon
  <1>6. Unjoined' = Unjoined
    BY <1>1, <1>2, Zenon DEF Unjoined
  <1>7. MainInv'
    BY <1>1, <1>2, <1>6, ZenonT(40) DEF MainInv
  <1> QED BY <1>3, <1>4, <1>5, <1>7, Zenon

\* A thread takes the next object of its part, which nobody has taken before.
LEMMA TakeStep == ASSUME IInv, NEW k \in Threads, TakeObject(k) PROVE IInv'
  <1> USE DEF IInv
  <1>0. PICK c \in 0 .. N : c = cursor[k]
    BY Zenon DEF TypeOK
  <1>1. /\ wpc[k] = "search" /\ remaining[k] > 0
        /\ times' = [times EXCEPT ![c] = @ + 1]
        /\ cursor' = [cursor EXCEPT ![k] = c + 1]
        /\ remaining' = [remaining EXCEPT ![k] = @ - 1]
        /\ UNCHANGED <<hash, list, listSize, working, dataReady, wpc, mpc, mi, mlist,
                       target, activeThreads>>
    BY <1>0, Zenon DEF TakeObject, flags, main, setup
  <1>2. /\ First(k) = c /\ remaining[k] \in 1 .. N /\ c + remaining[k] <= mlist /\ mlist \in 0 .. N
        /\ N \in Nat
    BY <1>0, <1>1, ThreadTypes DEF First, PartsInv
  <1>3. c \in Objects /\ c + 1 \in 0 .. N /\ remaining[k] - 1 \in 0 .. N
    BY <1>2 DEF Objects
  <1>4. /\ cursor'[k] = c + 1 /\ remaining'[k] = remaining[k] - 1
        /\ \A t \in Threads : t # k => cursor'[t] = cursor[t] /\ remaining'[t] = remaining[t]
    BY <1>1, Zenon DEF TypeOK
  <1>5. Has(k, c) /\ times[c] = 0
    BY <1>2, <1>3 DEF Has, PartsInv
  <1>6. times' \in [Objects -> {0, 1}] /\ times'[c] = 1
        /\ \A o \in Objects : o # c => times'[o] = times[o]
    BY <1>1, <1>3, <1>5 DEF TypeOK
  <1>7. TypeOK'
    BY <1>1, <1>3, <1>6, Zenon DEF TypeOK
  <1>8. First(k)' = c + 1 /\ \A t \in Threads : t # k => First(t)' = First(t)
    BY <1>1, <1>4, Zenon DEF First
  <1>9. /\ \A o \in Objects : Has(k, o)' <=> Has(k, o) /\ o # c
        /\ \A t \in Threads, o \in Objects : t # k => (Has(t, o)' <=> Has(t, o))
    BY <1>2, <1>4, <1>8 DEF Has, Objects
  <1>10. PartsInv'
    <2>1. ASSUME NEW t \in Threads, remaining'[t] > 0
          PROVE  First(t)' + remaining'[t] <= mlist'
      <3>1. CASE t = k
        BY <1>1, <1>2, <1>4, <1>8, <2>1, <3>1 DEF PartsInv
      <3>2. CASE t # k
        BY <1>1, <1>4, <1>8, <2>1, <3>2, ZenonT(40) DEF PartsInv
      <3> QED BY <3>1, <3>2, Zenon
    <2>2. \A t, u \in Threads : t # u => \A o \in Objects : ~(Has(t, o)' /\ Has(u, o)')
      BY <1>9, Zenon DEF PartsInv
    <2>3. \A o \in Objects : times'[o] = 0 <=> o >= mlist' \/ \E t \in Threads : Has(t, o)'
      <3>1. \A t \in Threads : ~Has(t, c)'
        BY <1>3, <1>5, <1>9, Zenon DEF PartsInv
      <3>2. ~(c >= mlist)
        BY <1>2
      <3>3. \A o \in Objects, t \in Threads : o # c => (Has(t, o)' <=> Has(t, o))
        BY <1>9, Zenon
      <3> QED BY <1>1, <1>6, <3>1, <3>2, <3>3 DEF PartsInv
    <2>4. \A t \in Threads :
            IF wpc'[t] = "search"
            THEN cursor'[t] + remaining'[t] = list'[t] + listSize'[t] /\ list'[t] <= cursor'[t]
            ELSE remaining'[t] = 0 \/ remaining'[t] = listSize'[t]
      <3>1. list[k] \in Int /\ listSize[k] \in Int /\ list[k] <= c
            /\ c + remaining[k] = list[k] + listSize[k]
        BY <1>0, <1>1, ThreadTypes DEF PartsInv
      <3> QED BY <1>1, <1>2, <1>4, <3>1 DEF PartsInv
    <2> QED BY <2>1, <2>2, <2>3, <2>4, Zenon DEF PartsInv
  <1>11. IdleInv' /\ ExitInv'
    BY <1>1, <1>4, ZenonT(40) DEF IdleInv, ExitInv, AwaitsWork
  <1>12. Unjoined' = Unjoined
    BY <1>1, Zenon DEF Unjoined
  <1>13. MainInv'
    <2>1. mpc # "partition" /\ mpc' = mpc
      BY <1>1, Zenon DEF MainInv
    <2> QED BY <1>1, <1>4, <1>12, <2>1, Zenon DEF MainInv
  <1> QED BY <1>7, <1>10, <1>11, <1>13, Zenon

\* A thread whose part is empty leaves find_deltas.
LEMMA EmptyStep == ASSUME IInv, NEW k \in Threads, ListEmpty(k) PROVE IInv'
  <1> USE DEF IInv
  <1>1. /\ wpc[k] = "search" /\ remaining[k] = 0 /\ wpc' = [wpc EXCEPT ![k] = "report"]
        /\ UNCHANGED <<hash, list, listSize, remaining, working, dataReady, cursor, times, mpc, mi,
                       mlist, target, activeThreads>>
    BY Zenon DEF ListEmpty, Goto, parts, flags, searcher, main, setup
  <1>2. wpc'[k] = "report" /\ \A t \in Threads : t # k => wpc'[t] = wpc[t]
    BY <1>1, Zenon DEF TypeOK
  <1>3. TypeOK'
    BY <1>1, <1>2, Zenon DEF TypeOK
  <1>4. PartsInv'
    <2>1. \A t \in Threads : t # k => First(t)' = First(t)
      BY <1>1, <1>2, Zenon DEF First
    <2>2. \A o \in Objects : ~Has(k, o) /\ ~Has(k, o)'
      <3>1. First(k) \in Int /\ First(k)' \in Int
        BY <1>1, <1>2, ThreadTypes DEF First
      <3> QED BY <1>1, <3>1 DEF Has, Objects
    <2>3. \A t \in Threads, o \in Objects : Has(t, o)' <=> Has(t, o)
      BY <1>1, <2>1, <2>2, Zenon DEF Has
    <2>4. \A t \in Threads : remaining'[t] > 0 => First(t)' + remaining'[t] <= mlist'
      BY <1>1, <2>1 DEF PartsInv
    <2>5. /\ \A t, u \in Threads : t # u => \A o \in Objects : ~(Has(t, o)' /\ Has(u, o)')
          /\ \A o \in Objects :
               times'[o] = 0 <=> o >= mlist' \/ \E t \in Threads : Has(t, o)'
      BY <1>1, <2>3, Zenon DEF PartsInv
    <2>6. \A t \in Threads :
            IF wpc'[t] = "search"
            THEN /\ cursor'[t] + remaining'[t] = list'[t] + listSize'[t]
                 /\ list'[t] <= cursor'[t]
            ELSE remaining'[t] = 0 \/ remaining'[t] = listSize'[t]
      BY <1>1, <1>2, Zenon DEF PartsInv
    <2> QED BY <2>4, <2>5, <2>6, Zenon DEF PartsInv
  <1>5. IdleInv' /\ ExitInv'
    BY <1>1, <1>2 DEF IdleInv, ExitInv, AwaitsWork
  <1>6. Unjoined' = Unjoined
    BY <1>1, <1>2, Zenon DEF Unjoined
  <1>7. MainInv'
    BY <1>1, <1>2, <1>6, Zenon DEF MainInv
  <1> QED BY <1>3, <1>4, <1>5, <1>7

\* A thread reports that it is idle.
LEMMA ReportStep == ASSUME IInv, NEW k \in Threads, Report(k) PROVE IInv'
  <1> USE DEF IInv
  <1>1. /\ wpc[k] = "report" /\ wpc' = [wpc EXCEPT ![k] = "await"]
        /\ working' = [working EXCEPT ![k] = 0]
        /\ mpc' = IF mpc = "waiting" THEN "scan" ELSE mpc
        /\ UNCHANGED <<hash, parts, dataReady, searcher, mi, mlist, target, activeThreads>>
        /\ UNCHANGED <<list, listSize, remaining, cursor, times>>
    BY Zenon DEF Report, Goto, parts, searcher, setup
  <1>2. /\ wpc'[k] = "await" /\ working'[k] = 0 /\ remaining[k] = 0 /\ dataReady[k] = 0
        /\ \A t \in Threads : t # k => wpc'[t] = wpc[t] /\ working'[t] = working[t]
        /\ ~(mpc = "hand" /\ target = k) /\ ~(mpc = "join" /\ target = k)
    BY <1>1, Zenon DEF IdleInv, ExitInv, AwaitsWork, TypeOK
  <1>3. mpc' = mpc \/ (mpc = "waiting" /\ mpc' = "scan")
    BY <1>1, Zenon
  <1>4. TypeOK'
    BY <1>1, <1>3, Zenon DEF TypeOK
  <1>5. PartsInv'
    BY <1>1, <1>2, PartsKept, Zenon
  <1>6. IdleInv'
    BY <1>1, <1>2, <1>3 DEF IdleInv, AwaitsWork
  <1>7. ExitInv'
    BY <1>1, <1>2, <1>3 DEF ExitInv, AwaitsWork
  <1>8. Unjoined' = Unjoined
    BY <1>1, <1>2, <1>3, Zenon DEF Unjoined
  <1>9. MainInv'
    <2>1. mpc # "partition"
      BY <1>1, Zenon DEF MainInv
    <2> QED BY <1>1, <1>2, <1>3, <1>8, <2>1, ZenonT(40) DEF MainInv
  <1> QED BY <1>4, <1>5, <1>6, <1>7, <1>9, Zenon

\* A thread that waits goes on if data_ready is set, and else blocks; or it is
\* woken without a signal.
LEMMA AwaitStep ==
  ASSUME IInv, NEW k \in Threads,
         \/ Await(k)
         \/ wpc[k] = "blocked" /\ Goto(k, "woken") /\ UNCHANGED <<hash, parts, flags, searcher, main>>
  PROVE  IInv'
  <1> USE DEF IInv
  <1>1. /\ AwaitsWork(k)
        /\ UNCHANGED <<hash, list, listSize, remaining, working, cursor, times, mpc, mi, mlist,
                       target, activeThreads>>
        /\ UNCHANGED <<parts, searcher>>
    BY Zenon DEF Await, AwaitsWork, Goto, parts, flags, searcher, main, setup
  <1>2. /\ \/ dataReady[k] = 1 /\ wpc[k] # "blocked" /\ wpc'[k] = "test" /\ dataReady'[k] = 0
           \/ dataReady[k] = 0 /\ wpc'[k] \in {"blocked", "woken"} /\ dataReady'[k] = 0
        /\ \A t \in Threads : t # k => wpc'[t] = wpc[t] /\ dataReady'[t] = dataReady[t]
        /\ dataReady' \in [Threads -> {0, 1}] /\ wpc' = [wpc EXCEPT ![k] = wpc'[k]]
    <2>1. CASE Await(k)
      BY <2>1, Zenon DEF Await, Goto, TypeOK
    <2>2. CASE wpc[k] = "blocked" /\ Goto(k, "woken") /\ UNCHANGED <<hash, parts, flags, searcher, main>>
      BY <2>2, Zenon DEF Goto, TypeOK, IdleInv, flags
    <2> QED BY <2>1, <2>2, Zenon
  <1>3. TypeOK'
    BY <1>1, <1>2 DEF TypeOK
  <1>4. PartsInv'
    BY <1>1, <1>2, PartsKept, Zenon DEF AwaitsWork
  <1>5. dataReady[k] = 1 => working[k] = 1 /\ ~(mpc = "hand" /\ target = k)
    BY <1>1, Zenon DEF IdleInv, TypeOK
  <1>6. IdleInv'
    <2>1. ASSUME NEW t \in Threads, t # k
          PROVE  AwaitsWork(t)' <=> AwaitsWork(t)
      BY <1>2, <2>1, ZenonT(40) DEF AwaitsWork
    <2>2. CASE wpc'[k] = "test"
      BY <1>1, <1>2, <1>5, <2>1, <2>2 DEF IdleInv, AwaitsWork
    <2>3. CASE wpc'[k] # "test"
      BY <1>1, <1>2, <1>5, <2>1, <2>3 DEF IdleInv, AwaitsWork
    <2> QED BY <2>2, <2>3, Zenon
  <1>7. ExitInv'
    <2>1. CASE wpc'[k] = "test"
      BY <1>1, <1>2, <1>5, <2>1, Zenon DEF ExitInv, AwaitsWork
    <2>2. CASE wpc'[k] # "test"
      BY <1>1, <1>2, <1>5, <2>2 DEF ExitInv, AwaitsWork
    <2> QED BY <2>1, <2>2, Zenon
  <1>8. Unjoined' = Unjoined
    BY <1>1, <1>2, Zenon DEF Unjoined, AwaitsWork
  <1>9. MainInv'
    BY <1>1, <1>2, <1>8, Zenon DEF MainInv, AwaitsWork
  <1> QED BY <1>3, <1>4, <1>6, <1>7, <1>9, Zenon

\* The inductive invariant holds in every reachable state.
THEOREM Invariance == Spec => []IInv
  <1>1. IInv /\ [Next]_vars => IInv'
    <2> SUFFICES ASSUME IInv, [Next]_vars PROVE IInv'
      BY Zenon
    <2>1. CASE MainNext
      <3>1. CASE CreateFails \/ Wait
        BY <3>1, PauseStep, Zenon DEF CreateFails, Wait
      <3> QED BY <2>1, <3>1, PartitionStep, StartStep, GiveWorkStep, HandOverStep,
         JoinStep, Zenon DEF MainNext
    <2>2. ASSUME NEW t \in Threads, ThreadNext(t) PROVE IInv'
      BY <2>2, TestStep, EnterStep, TakeStep, EmptyStep, ReportStep,
         AwaitStep, Zenon DEF ThreadNext
    <2>3. CASE SpuriousWakeup
      BY <2>3, PauseStep, AwaitStep, Zenon DEF SpuriousWakeup
    <2>4. CASE UNCHANGED vars
      <3> USE <2>4 DEF vars, parts, flags, searcher, main, setup
      <3>1. TypeOK'
        BY Zenon DEF IInv, TypeOK
      <3>2. \A t \in Threads, o \in Objects : First(t)' = First(t) /\ Has(t, o)' = Has(t, o)
        BY Zenon DEF First, Has
      <3>3. \A t \in Threads : First(t)' = First(t) /\ AwaitsWork(t)' = AwaitsWork(t)
        BY Zenon DEF First, AwaitsWork
      <3>4. PartsInv'
        BY <3>2, <3>3, ZenonT(40) DEF IInv, PartsInv
      <3>5. IdleInv' /\ ExitInv'
        BY <3>3, Zenon DEF IInv, IdleInv, ExitInv
      <3>6. MainInv'
        BY Zenon DEF IInv, MainInv, Unjoined
      <3> QED BY <3>1, <3>4, <3>5, <3>6, Zenon DEF IInv
    <2> QED BY <2>1, <2>2, <2>3, <2>4, Zenon DEF Next
  <1> QED BY InitIInv, <1>1, PTL DEF Spec

\* Type correctness.
THEOREM TypeCorrect == Spec => []TypeOK
  BY Invariance, PTL DEF IInv

\* No object is searched twice, and all are when ll_find_deltas returns.
THEOREM EachObjectOnce == Spec => []SearchedOnce
  <1>1. IInv => SearchedOnce
    <2> SUFFICES ASSUME IInv, NEW o \in Objects
                 PROVE  times[o] <= 1 /\ (mpc = "done" => times[o] = 1)
      BY Zenon DEF SearchedOnce
    <2>1. times[o] \in {0, 1}
      BY Zenon DEF IInv, TypeOK
    <2>2. ASSUME mpc = "done" PROVE times[o] # 0
      <3>1. mlist = N /\ Cardinality(Unjoined) = 0 /\ Unjoined \in SUBSET Threads
        BY <2>2, Zenon DEF IInv, MainInv, Unjoined
      <3>2. Unjoined = {}
        BY <3>1, FiniteThreads, FS_EmptySet, Zenon
      <3>3. \A t \in Threads : wpc[t] \in {"new", "exited"}
        BY <3>2, Zenon DEF Unjoined
      <3>4. \A t \in Threads : remaining[t] = 0
        BY <2>2, <3>3, Zenon DEF IInv, MainInv, ExitInv
      <3>5. \A t \in Threads : ~Has(t, o)
        BY <3>4, ThreadTypes DEF Has, IInv, Objects
      <3>6. ~(o >= mlist)
        BY <3>1, ConstantsOK DEF Objects
      <3> QED BY <3>5, <3>6, Zenon DEF IInv, PartsInv
    <2> QED BY <2>1, <2>2
  <1> QED BY Invariance, <1>1, PTL

\* Main hands over only to a thread that waits for it.
THEOREM HandsOnlyToWaiting == Spec => []HandsToWaiting
  <1>1. IInv => HandsToWaiting
    BY Zenon DEF HandsToWaiting, IInv, IdleInv, TypeOK
  <1> QED BY Invariance, <1>1, PTL

\* No thread outlives what ll_find_deltas frees.
THEOREM NobodyIsLeftBehind == Spec => []NobodyLeftBehind
  <1>1. IInv => NobodyLeftBehind
    <2> SUFFICES ASSUME IInv, mpc = "done" PROVE \A t \in Threads : wpc[t] \in {"new", "exited"}
      BY Zenon DEF NobodyLeftBehind
    <2>1. Cardinality(Unjoined) = 0 /\ Unjoined \in SUBSET Threads
      BY Zenon DEF IInv, MainInv, Unjoined
    <2>2. Unjoined = {}
      BY <2>1, FiniteThreads, FS_EmptySet, Zenon
    <2> QED BY <2>2, Zenon DEF Unjoined
  <1> QED BY Invariance, <1>1, PTL

\* The read of me->list without the lock sees what main meant it to see.
THEOREM ListReadIsStable == Spec => ReadOutsideLock
  <1>1. IInv /\ [Next]_vars => [\A t \in Threads : wpc[t] = "enter" => list'[t] = list[t]]_vars
    <2> SUFFICES ASSUME IInv, [Next]_vars, NEW t \in Threads, wpc[t] = "enter"
                 PROVE  list'[t] = list[t]
      BY Zenon
    <2>1. CASE Partition
      BY <2>1, Zenon DEF Partition, IInv, MainInv
    <2>2. CASE GiveWork
      <3>1. working[t] = 1 /\ list \in [Threads -> 0 .. N]
        BY <2>2, Zenon DEF GiveWork, IInv, IdleInv, AwaitsWork, TypeOK
      <3>2. PICK k \in IdleThreads : list' = list \/ \E v \in Threads, q \in Objects : Steal(k, v, q)
        BY <2>2, Zenon DEF GiveWork
      <3>3. k # t /\ k \in Threads
        BY <3>1 DEF IdleThreads
      <3>4. list' = list \/ \E q \in Objects : list' = [list EXCEPT ![k] = q]
        BY <3>2, Zenon DEF Steal
      <3> QED BY <3>1, <3>3, <3>4, Zenon
    <2>3. CASE UNCHANGED list
      BY <2>3, Zenon
    <2> QED BY <2>1, <2>2, <2>3, Zenon DEF Next, MainNext, ThreadNext, SpuriousWakeup,
       vars, parts,
          StartThread, CreateFails, Wait, HandOver, Join, Test, Enter, TakeObject,
          ListEmpty,
          Report, Await
  <1> QED BY Invariance, <1>1, PTL DEF Spec, ReadOutsideLock
-----------------------------------------------------------------------------
(* Nobody waits for ever.                                                  *)

\* A set of numbers has a least one.
LEMMA Least ==
  ASSUME NEW S, S \subseteq Nat, S # {}
  PROVE  \E x \in S : \A y \in S : x <= y
  <1>1. PICK x \in S : \A y \in S : ~(<<y, x>> \in OpToRel(<, Nat))
    BY NatLessThanWellFounded, WFMin, Zenon
  <1>2. \A y \in S : ~(y < x)
    BY <1>1, Zenon DEF OpToRel
  <1> QED BY <1>2

\* Where threads are looked for in order, there is a first one.
LEMMA FirstExists ==
  ASSUME NEW S \in SUBSET Threads, S # {}
  PROVE  \E t \in S : IsFirstOf(t, S)
  <1>1. S \subseteq Nat
    BY ConstantsOK DEF Threads
  <1> QED BY <1>1, Least, Zenon DEF IsFirstOf

\* A run of neighbours with one path ends at a boundary or at the end of the list.
LEMMA BoundaryExists ==
  ASSUME NEW lo \in Nat, NEW hi \in Nat, lo <= hi
  PROVE  \E e \in lo .. hi : (e < hi => ~SamePath(e)) /\ \A x \in lo .. e - 1 : SamePath(x)
  <1> DEFINE S == {e \in lo .. hi : e = hi \/ ~SamePath(e)}
  <1>1. S \subseteq Nat /\ hi \in S
    OBVIOUS
  <1>2. PICK e \in S : \A y \in S : e <= y
    BY <1>1, Least, Zenon
  <1>3. \A x \in lo .. e - 1 : x \in lo .. hi /\ ~(e <= x)
    BY <1>2
  <1> QED BY <1>2, <1>3

\* A part has an end.
LEMMA PartEndExists ==
  ASSUME IInv, mpc = "partition"
  PROVE  PartEnds(mi) # {}
  <1> DEFINE s == Share(N - mlist, mi)
  <1>1. mlist \in 0 .. N /\ N \in Nat /\ mi \in 0 .. T - 1 /\ T \in Nat
    BY ConstantsOK DEF IInv, TypeOK, MainInv, Threads
  <1>2. N - mlist \in Nat /\ T - mi \in Nat \ {0}
    BY <1>1
  <1>3. (N - mlist) \div (T - mi) \in 0 .. N - mlist
    BY <1>2
  <1>4. s \in 0 .. N - mlist
    BY <1>2, <1>3 DEF Share
  <1> HIDE DEF s
  <1>5. CASE s = 0
    <2>1. mlist \in mlist + s .. N
      BY <1>1, <1>5
    <2> QED BY <1>1, <1>5, <2>1 DEF PartEnds, s
  <1>6. CASE s # 0
    <2>1. mlist + s \in Nat /\ mlist + s <= N /\ s > 0
      BY <1>1, <1>4, <1>6
    <2>2. PICK e \in mlist + s .. N :
            (e < N => ~SamePath(e)) /\ \A x \in mlist + s .. e - 1 : SamePath(x)
      BY <1>1, <2>1, BoundaryExists, Zenon
    <2> QED BY <1>6, <2>2, Zenon DEF PartEnds, s
  <1> QED BY <1>5, <1>6, Zenon

\* Of the threads with enough objects left there is one that has the most.
LEMMA VictimExists ==
  ASSUME TypeOK, Candidates # {}
  PROVE  \E v \in Threads : IsVictim(v)
  <1> DEFINE S == {N - remaining[u] : u \in Candidates}
             most == {u \in Candidates : \A x \in Candidates : remaining[x] <= remaining[u]}
  <1>1. \A u \in Candidates : u \in Threads /\ remaining[u] \in 0 .. N /\ N \in Nat
    BY ThreadTypes, Zenon DEF Candidates
  <1>2. S \subseteq Nat
    BY <1>1
  <1>3. PICK m \in S : \A y \in S : m <= y
    BY <1>2, Least, Zenon
  <1>4. PICK u \in Candidates : m = N - remaining[u]
    BY <1>3, Zenon
  <1>5. \A x \in Candidates : m <= N - remaining[x]
    BY <1>3, Zenon
  <1>6. u \in most
    BY <1>1, <1>4, <1>5
  <1>7. most \in SUBSET Threads
    BY <1>1, Zenon
  <1>8. PICK v \in most : IsFirstOf(v, most)
    BY <1>6, <1>7, FirstExists, Zenon
  <1> QED BY <1>7, <1>8, Zenon DEF IsVictim

\* What is taken from it begins at one of the objects.
LEMMA SplitExists ==
  ASSUME IInv, NEW v \in Threads, remaining[v] > 2 * W
  PROVE  \E q \in Objects : IsSplit(v, q)
  <1> DEFINE half == EndOf(v) - remaining[v] \div 2
  <1>1. W \in Nat /\ W > 1 /\ remaining[v] \in 0 .. N /\ First(v) \in 0 .. N /\ N \in Nat
        /\ mlist \in 0 .. N
    BY ConstantsOK, ThreadTypes DEF IInv
  <1>2. EndOf(v) = First(v) + remaining[v] /\ EndOf(v) <= mlist
    BY <1>1, EndOfPart
  <1>3. remaining[v] \div 2 \in 1 .. remaining[v] - 1
    BY <1>1
  <1>4. half \in Nat /\ EndOf(v) \in Nat /\ half < EndOf(v) /\ EndOf(v) <= N
    BY <1>1, <1>2, <1>3
  <1> HIDE DEF half
  <1>5. PICK e \in half .. EndOf(v) :
          (e < EndOf(v) => ~SamePath(e)) /\ \A x \in half .. e - 1 : SamePath(x)
    <2>1. half <= EndOf(v)
      BY <1>4
    <2> QED BY <1>4, <2>1, BoundaryExists, Zenon
  <1>6. CASE e < EndOf(v)
    <2>1. e \in half .. EndOf(v) - 1 /\ e \in Objects
      BY <1>1, <1>4, <1>6 DEF Objects
    <2> QED BY <1>5, <1>6, <2>1, Zenon DEF IsSplit, half
  <1>7. CASE ~(e < EndOf(v))
    <2>1. e = EndOf(v) /\ half \in Objects
      BY <1>1, <1>4, <1>7 DEF Objects
    <2> QED BY <1>5, <2>1, Zenon DEF IsSplit, half
  <1> QED BY <1>6, <1>7, Zenon

\* A wait of main is ended by the report that makes a thread idle, and the count
\* of threads is tested before main looks for idle ones.
LEMMA WaitInvariance == Spec => []WaitInv
  <1>1. Init => WaitInv
    BY Zenon DEF Init, WaitInv
  <1>2. IInv /\ WaitInv /\ [Next]_vars => WaitInv'
    <2> SUFFICES ASSUME IInv, WaitInv, [Next]_vars PROVE WaitInv'
      BY Zenon
    <2>1. CASE Partition \/ CreateFails
      BY <2>1, Zenon DEF Partition, CreateFails, WaitInv
    <2>2. CASE StartThread
      BY <2>2, Zenon DEF StartThread, WaitInv
    <2>3. CASE Wait
      BY <2>3, Zenon DEF Wait, WaitInv, flags, IdleThreads
    <2>4. CASE GiveWork
      BY <2>4, Zenon DEF GiveWork, WaitInv
    <2>5. CASE HandOver
      BY <2>5, Zenon DEF HandOver, WaitInv
    <2>6. CASE Join
      BY <2>6, Zenon DEF Join, WaitInv
    <2>7. ASSUME NEW t \in Threads, ThreadNext(t) PROVE WaitInv'
      <3>1. CASE Report(t)
        BY <3>1, Zenon DEF Report, WaitInv
      <3>2. CASE ~Report(t)
        BY <2>7, <3>2, Zenon DEF ThreadNext, Test, Enter, TakeObject, ListEmpty, Await,
           WaitInv, main, flags, IdleThreads
      <3> QED BY <3>1, <3>2, Zenon
    <2>8. CASE SpuriousWakeup
      BY <2>8, Zenon DEF SpuriousWakeup, WaitInv, main, flags, IdleThreads
    <2>9. CASE UNCHANGED vars
      BY <2>9, Zenon DEF vars, WaitInv, main, flags, IdleThreads
    <2> QED BY <2>1, <2>2, <2>3, <2>4, <2>5, <2>6, <2>7, <2>8, <2>9, Zenon DEF Next, MainNext
  <1> QED BY <1>1, <1>2, Invariance, PTL DEF Spec

\* Main and the threads never all wait for each other.
THEOREM SomebodyGoesOn == Spec => []NeverStuck
  <1>1. IInv /\ WaitInv => NeverStuck
    <2> SUFFICES ASSUME IInv, WaitInv, Alive
                 PROVE  MainCanGo \/ \E t \in Threads : ThreadCanGo(t)
      BY Zenon DEF NeverStuck
    <2>1. mpc \in {"partition", "start", "scan", "waiting", "hand", "join"}
      BY Zenon DEF Alive, IInv, TypeOK
    <2>2. CASE mpc = "partition"
      BY <2>2, PartEndExists, Zenon DEF MainCanGo
    <2>3. CASE mpc = "scan"
      <3>1. IdleThreads \in SUBSET Threads
        BY Zenon DEF IdleThreads
      <3>2. ASSUME Candidates # {}
            PROVE  \E v \in Threads : IsVictim(v) /\ \E q \in Objects : IsSplit(v, q)
        <4>1. PICK v \in Threads : IsVictim(v)
          BY <3>2, VictimExists, Zenon DEF IInv
        <4>2. remaining[v] > 2 * W
          BY <4>1, Zenon DEF IsVictim, IsFirstOf, Candidates
        <4> QED BY <4>1, <4>2, SplitExists, Zenon
      <3> QED BY <2>3, <3>1, <3>2, FirstExists, Zenon DEF MainCanGo
    <2>4. CASE mpc = "waiting"
      <3>1. \A t \in Threads : working[t] = 1
        BY <2>4, Zenon DEF WaitInv, IdleThreads, IInv, TypeOK
      <3>2. activeThreads > 0 /\ activeThreads = Cardinality(Unjoined)
        BY <2>4, Zenon DEF WaitInv, IInv, MainInv
      <3>3. Unjoined # {}
        BY <3>2, FS_EmptySet
      <3>4. PICK t \in Threads : wpc[t] \notin {"new", "exited"}
        BY <2>4, <3>3, Zenon DEF Unjoined
      <3>5. wpc[t] # "blocked"
        BY <2>4, <3>1 DEF IInv, IdleInv, AwaitsWork, TypeOK
      <3> QED BY <3>4, <3>5, Zenon DEF ThreadCanGo, IInv, TypeOK
    <2>5. CASE mpc = "join"
      <3>1. target \in Threads /\ wpc[target] \in {"test", "exited", "await", "woken"}
        BY <2>5, Zenon DEF IInv, ExitInv, TypeOK
      <3> QED BY <2>5, <3>1, Zenon DEF MainCanGo, ThreadCanGo
    <2> QED BY <2>1, <2>2, <2>3, <2>4, <2>5, Zenon DEF MainCanGo
  <1> QED BY Invariance, WaitInvariance, <1>1, PTL
-----------------------------------------------------------------------------
(* The search comes to an end.                                             *)

\* The rank of a thread is a number.
LEMMA RankType == ASSUME TypeOK, NEW t \in Threads PROVE Rank(t) \in Nat
  BY DEF TypeOK, Rank

\* A thread whose place and flags a step does not touch keeps its rank, also when
\* some of its objects are taken away.
LEMMA RankKept ==
  ASSUME NEW t \in Threads, wpc'[t] = wpc[t], working'[t] = working[t],
         dataReady'[t] = dataReady[t],
         wpc[t] = "search" => (remaining'[t] = 0 <=> remaining[t] = 0)
  PROVE  Rank(t)' = Rank(t)
  BY DEF Rank

\* A step that lowers the rank of one thread, and touches no other, is progress.
LEMMA OneCloser ==
  ASSUME TypeOK, NEW k \in Threads, Rank(k)' \in Nat, Rank(k)' < Rank(k), times' = times,
         \A t \in Threads : t # k =>
           /\ wpc'[t] = wpc[t] /\ working'[t] = working[t] /\ dataReady'[t] = dataReady[t]
           /\ wpc[t] = "search" => (remaining'[t] = 0 <=> remaining[t] = 0)
  PROVE  Closer
  <1>1. \A t \in Threads : t # k => Rank(t)' = Rank(t)
    BY RankKept, Zenon
  <1>2. \A t \in Threads : Rank(t)' <= Rank(t)
    BY <1>1, RankType
  <1>3. Unsearched' = Unsearched
    BY Zenon DEF Unsearched
  <1> QED BY <1>2, <1>3, Zenon DEF Closer

\* So is a step of main that touches no thread and lowers the rank of main.
LEMMA MainCloser ==
  ASSUME TypeOK, MainRank' < MainRank, times' = times,
         \A t \in Threads :
           /\ wpc'[t] = wpc[t] /\ working'[t] = working[t] /\ dataReady'[t] = dataReady[t]
           /\ wpc[t] = "search" => (remaining'[t] = 0 <=> remaining[t] = 0)
  PROVE  Closer
  <1>1. \A t \in Threads : Rank(t)' = Rank(t)
    BY RankKept, Zenon
  <1>2. \A t \in Threads : Rank(t)' <= Rank(t)
    BY <1>1, RankType
  <1>3. Unsearched' = Unsearched
    BY Zenon DEF Unsearched
  <1> QED BY <1>2, <1>3, Zenon DEF Closer

\* The steps of main.
LEMMA MainComesCloser == ASSUME IInv, MainNext PROVE Closer
  <1> USE DEF IInv
  <1>0. T \in Nat /\ mi \in 0 .. T
    BY ConstantsOK DEF TypeOK
  <1>1. CASE Partition
    <2>1. \A t \in Threads : wpc[t] = "new"
      BY <1>1, Zenon DEF Partition, MainInv
    <2>2. \A t \in Threads : Rank(t) = 4 /\ Rank(t)' = 4
      <3>1. wpc' = wpc
        BY <1>1, Zenon DEF Partition
      <3> QED BY <2>1, <3>1 DEF Rank
    <2>3. MainRank' < MainRank
      <3>1. /\ mpc = "partition" /\ mi' = IF mi + 1 < T THEN mi + 1 ELSE 0
            /\ mpc' = IF mi + 1 < T THEN "partition" ELSE "start"
            /\ mi \in 0 .. T - 1
        BY <1>1, Zenon DEF Partition, MainInv, Threads
      <3> QED BY <1>0, <3>1 DEF MainRank
    <2>4. Unsearched' = Unsearched
      BY <1>1, Zenon DEF Partition, searcher, Unsearched
    <2>5. \A t \in Threads : Rank(t)' <= Rank(t)
      BY <2>2
    <2> QED BY <2>3, <2>4, <2>5, Zenon DEF Closer
  <1>2. CASE StartThread
    <2>1. /\ mi \in Threads /\ wpc[mi] = "new" /\ mpc = "start" /\ times' = times
          /\ wpc' = [wpc EXCEPT ![mi] = IF listSize[mi] > 0 THEN "test" ELSE "new"]
          /\ UNCHANGED <<remaining, working, dataReady>>
      <3>1. mi <= mi
        BY <1>0
      <3> QED BY <1>2, <3>1 DEF StartThread, MainInv, parts, flags, searcher
    <2>2. \A t \in Threads : t # mi => wpc'[t] = wpc[t]
      BY <2>1, Zenon DEF TypeOK
    <2>3. CASE listSize[mi] > 0
      <3>1. PICK k \in Threads : k = mi
        BY <2>1, Zenon
      <3>2. wpc[k] = "new" /\ wpc'[k] = "test"
        BY <2>1, <2>3, <3>1, Zenon DEF TypeOK
      <3>3. Rank(k)' \in Nat /\ Rank(k)' < Rank(k)
        BY <3>2 DEF Rank
      <3> QED BY <2>1, <2>2, <3>1, <3>3, OneCloser, Zenon
    <2>4. CASE ~(listSize[mi] > 0)
      <3>1. \A t \in Threads : wpc'[t] = wpc[t]
        BY <2>1, <2>4, Zenon DEF TypeOK
      <3>2. MainRank' < MainRank
        BY <1>0, <1>2, <2>1 DEF StartThread, MainRank, Threads
      <3> QED BY <2>1, <3>1, <3>2, MainCloser, Zenon
    <2> QED BY <2>3, <2>4, Zenon
  <1>3. CASE CreateFails \/ Wait \/ Join
    <2>1. MainRank' < MainRank
      BY <1>0, <1>3 DEF CreateFails, Wait, Join, MainRank
    <2>2. UNCHANGED <<remaining, working, dataReady, wpc, times>>
      BY <1>3, Zenon DEF CreateFails, Wait, Join, parts, flags, searcher
    <2> QED BY <2>1, <2>2, MainCloser, Zenon
  <1>4. CASE GiveWork
    <2>1. PICK k \in Threads :
            /\ UNCHANGED <<wpc, dataReady, times>>
            /\ working[k] = 0 /\ AwaitsWork(k) /\ dataReady[k] = 0
            /\ working' = [working EXCEPT ![k] = 1]
            /\ \A t \in Threads : t # k => (remaining'[t] = 0 <=> remaining[t] = 0)
      BY <1>4, GiveWorkFacts, Zenon
    <2>2. working'[k] = 1 /\ \A t \in Threads : t # k => working'[t] = working[t]
      BY <2>1, Zenon DEF TypeOK
    <2>3. Rank(k)' \in Nat /\ Rank(k)' < Rank(k)
      BY <2>1, <2>2 DEF Rank, AwaitsWork
    <2> QED BY <2>1, <2>2, <2>3, OneCloser, Zenon
  <1>5. CASE HandOver
    <2>1. PICK k \in Threads : k = target
      BY Zenon DEF TypeOK
    <2>2. AwaitsWork(k) /\ working[k] = 1 /\ dataReady[k] = 0
      BY <1>5, <2>1, Zenon DEF HandOver, IdleInv, TypeOK
    <2>3. /\ dataReady' = [dataReady EXCEPT ![k] = 1]
          /\ wpc' = [wpc EXCEPT ![k] = IF @ = "blocked" THEN "woken" ELSE @]
          /\ UNCHANGED <<remaining, working, times>>
      BY <1>5, <2>1, Zenon DEF HandOver, parts, searcher
    <2>4. /\ dataReady'[k] = 1 /\ wpc'[k] \in {"await", "woken"}
          /\ \A t \in Threads : t # k => dataReady'[t] = dataReady[t] /\ wpc'[t] = wpc[t]
      BY <2>2, <2>3, Zenon DEF AwaitsWork, TypeOK
    <2>5. Rank(k)' \in Nat /\ Rank(k)' < Rank(k)
      BY <2>2, <2>3, <2>4 DEF Rank, AwaitsWork
    <2> QED BY <2>3, <2>4, <2>5, OneCloser, Zenon
  <1> QED BY <1>1, <1>2, <1>3, <1>4, <1>5, Zenon DEF MainNext

\* The steps of a thread.
LEMMA ThreadComesCloser == ASSUME IInv, NEW k \in Threads, ThreadNext(k) PROVE Closer
  <1> USE DEF IInv
  <1>1. CASE TakeObject(k)
    <2>1. PICK c \in 0 .. N : c = cursor[k]
      BY Zenon DEF TypeOK
    <2>2. /\ First(k) = c /\ remaining[k] \in 1 .. N /\ c + remaining[k] <= mlist /\ mlist \in 0 .. N
          /\ N \in Nat
      BY <1>1, <2>1, ThreadTypes DEF TakeObject, First, PartsInv
    <2>3. c \in Objects
      BY <2>2 DEF Objects
    <2>4. times[c] = 0
      BY <2>2, <2>3 DEF Has, PartsInv
    <2>5. times' = [times EXCEPT ![c] = @ + 1]
      BY <1>1, <2>1, Zenon DEF TakeObject
    <2>6. times'[c] = 1 /\ \A o \in Objects : o # c => times'[o] = times[o]
      BY <2>3, <2>4, <2>5 DEF TypeOK
    <2>7. c \in Unsearched /\ c \notin Unsearched'
      BY <2>3, <2>4, <2>6 DEF Unsearched
    <2>8. Unsearched' \subseteq Unsearched
      BY <2>6, <2>7, Zenon DEF Unsearched
    <2> QED BY <2>7, <2>8, Zenon DEF Closer
  <1>2. CASE ~TakeObject(k)
    <2>1. /\ UNCHANGED <<remaining, times>>
          /\ \A t \in Threads : t # k => wpc'[t] = wpc[t]
          /\ \A t \in Threads : t # k => working'[t] = working[t] /\ dataReady'[t] = dataReady[t]
      BY <1>2, Zenon DEF ThreadNext, Test, Enter, ListEmpty, Report, Await, Goto, parts,
         flags, searcher, TypeOK
    <2>2. Rank(k)' \in Nat /\ Rank(k)' < Rank(k)
      <3>1. CASE Test(k)
        <4>1. wpc[k] = "test" /\ wpc'[k] \in {"enter", "exited"}
          BY <3>1, Zenon DEF Test, Goto, TypeOK
        <4> QED BY <4>1 DEF Rank
      <3>2. CASE Enter(k)
        <4>1. wpc[k] = "enter" /\ wpc'[k] = "search" /\ remaining'[k] # 0
          <5>1. wpc[k] = "enter" /\ remaining[k] > 0
            BY <3>2, Zenon DEF Enter, ExitInv
          <5>2. remaining'[k] # 0
            BY <2>1, <5>1
          <5> QED BY <3>2, <5>1, <5>2, Zenon DEF Enter, Goto, TypeOK
        <4> QED BY <4>1 DEF Rank
      <3>3. CASE ListEmpty(k)
        <4>1. wpc[k] = "search" /\ remaining[k] = 0 /\ wpc'[k] = "report"
          BY <3>3, Zenon DEF ListEmpty, Goto, TypeOK
        <4> QED BY <4>1 DEF Rank
      <3>4. CASE Report(k)
        <4>1. wpc[k] = "report" /\ wpc'[k] = "await" /\ working'[k] = 0
          BY <3>4, Zenon DEF Report, Goto, TypeOK
        <4> QED BY <4>1 DEF Rank
      <3>5. CASE Await(k)
        <4>1. CASE dataReady[k] = 1
          <5>1. wpc[k] \in {"await", "woken"} /\ wpc'[k] = "test"
            BY <3>5, <4>1, Zenon DEF Await, Goto, TypeOK
          <5>2. working[k] = 1
            BY <4>1, <5>1 DEF IdleInv, AwaitsWork, TypeOK
          <5> QED BY <4>1, <5>1, <5>2 DEF Rank
        <4>2. CASE dataReady[k] # 1
          <5>1. wpc[k] \in {"await", "woken"} /\ wpc'[k] = "blocked" /\ working' = working
            BY <3>5, <4>2, Zenon DEF Await, Goto, TypeOK
          <5>2. dataReady[k] = 0 /\ working[k] \in {0, 1}
            BY <4>2, Zenon DEF TypeOK
          <5> QED BY <5>1, <5>2 DEF Rank
        <4> QED BY <4>1, <4>2, Zenon
      <3> QED BY <1>2, <3>1, <3>2, <3>3, <3>4, <3>5, Zenon DEF ThreadNext
    <2> QED BY <2>1, <2>2, OneCloser, Zenon
  <1> QED BY <1>1, <1>2, Zenon

\* No step is in vain: without spurious wake-ups only finitely many are possible.
THEOREM SearchGetsCloser == Spec => NoIdleRound
  <1>1. IInv /\ [Next]_vars => [MainNext \/ (\E t \in Threads : ThreadNext(t)) => Closer]_vars
    BY MainComesCloser, ThreadComesCloser, Zenon
  <1> QED BY Invariance, <1>1, PTL DEF Spec, NoIdleRound
=============================================================================
