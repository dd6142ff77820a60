---------------------------- MODULE RefStore_inv ----------------------------
(***************************************************************************)
(* The inductive invariant of RefStore, and the steps that change no file. *)
(*                                                                         *)
(* The frame lemmas say what a step of one process may change without      *)
(* breaking the invariant; QuietStep combines them.  They assume that no   *)
(* command writes a value that was there before (FreshValues) only where   *)
(* a value is written, in RefStore_proofs.                                  *)
(***************************************************************************)
EXTENDS RefStore, TLAPS

Locked == {"lockPacked", "commitRefs", "commitPacked", "unlink"}
Before == {"lockRef", "verify", "lockPacked", "commitRefs", "commitPacked"}
Reads  == {"stat", "open", "packedRead"}

\* A packer that has not rewritten packed-refs yet, and one that has.
Scanning(q) == pc[q] \in {"packScan", "packResolve"}
Pruner(q) == kind[q] = "pack" /\ pc[q] \notin {"packScan", "packResolve"}

\* Which locks a process has, by where it is, and what its transaction is about.
LockInv(p) ==
  /\ \A r \in verified[p] : refLock[r] = p
  /\ pc[p] \in Reads \cup {"verify", "packResolve"} => cur[p] \in Refs
  /\ pc[p] = "verify" => refLock[cur[p]] = p
  /\ pc[p] # "unlockRefs" => \A r \in upd[p] \cup del[p] :
       r \in todo[p] \/ r \in verified[p] \/ (pc[p] = "verify" /\ r = cur[p])
  /\ pc[p] \in Locked => todo[p] = {}
  /\ upd[p] \cap del[p] = {}
  /\ upd[p] # {} => kind[p] = "update"
  /\ pc[p] \in {"packScan", "packResolve", "packUnlock", "deletePacked", "deleteUnlock",
                "unlockPacked"} => packedLock = p
  /\ pc[p] \in {"commitRefs", "commitPacked", "unlink"} /\ del[p] # {} /\ ~Pruning(p)
       => packedLock = p
  /\ pc[p] = "commitPacked" => ~Pruning(p) /\ del[p] # {}
  /\ pc[p] \in {"packScan", "packResolve", "packUnlock", "prune"} => kind[p] = "pack"
  /\ pc[p] \in {"deletePacked", "deleteUnlock", "deleteNext"} => kind[p] = "delete"
  /\ pc[p] \in {"idle", "done", "crashed"} \cup Reads
       => upd[p] = {} /\ del[p] = {} /\ verified[p] = {}
  /\ pc[p] \in {"packScan", "packResolve", "packUnlock", "prune", "deletePacked",
                "deleteUnlock", "deleteNext", "unlockPacked"}
       => upd[p] = {} /\ del[p] = {} /\ verified[p] = {}

\* Where values are: all of them are in the history, and those to be written not.
ValueInv(r) ==
  /\ loose[r] \in had[r] \cup {None} /\ packed[r] \in had[r] \cup {None}
  /\ \A q \in Procs : got[q][r] \in had[r] \cup {None}
  /\ \A p \in Procs : pc[p] = "idle" => Writes[p] \cap had[r] = {}
  /\ \A p \in Procs : r \in upd[p] => val[p] \in Writes[p] \ had[r]

\* What packers know: a pruner's value that is still loose is in packed-refs, and
\* a packer that is at work has it too; what a packer has read and is no longer
\* loose is in packed-refs already; unless a deletion has been there.
PackInv(r) ==
  /\ \A q \in Procs : pc[q] = "idle" => got[q][r] = None
  /\ \A q \in Procs : got[q][r] # None => kind[q] = "pack"
  /\ \A q \in Procs : r \in del[q] /\ Pruning(q) => got[q][r] # None
  /\ \A q \in Procs : r \in queue[q] /\ Pruner(q) => got[q][r] # None
  /\ \A a \in Procs : Pruner(a) /\ got[a][r] # None /\ loose[r] = got[a][r] =>
       /\ packed[r] = loose[r] \/ (r \in unsettled /\ packed[r] = None)
       /\ \A q \in Procs : Scanning(q) /\ got[q][r] # None => got[q][r] = loose[r]
  /\ \A q \in Procs : Scanning(q) /\ got[q][r] # None /\ loose[r] = None =>
       packed[r] = got[q][r] \/ (r \in unsettled /\ packed[r] = None)

\* What a transaction has read under a lock is so until it changes it.
Stable(p, r) ==
  /\ pc[p] \in Before => StillAsRead(p, r)
  /\ pc[p] = "unlink" /\ loose[r] # None => StillAsRead(p, r)
  /\ (pc[p] \in Before \/ pc[p] = "unlink") /\ r \in inPacked[p] => loose[r] = None
  /\ Pruning(p) => old[p][r] = got[p][r]
  /\ pc[p] = "unlink" /\ ~Pruning(p) /\ r \in del[p] => packed[r] = None
  /\ pc[p] \in Before /\ old[p][r] # None /\ loose[r] = None /\ packed[r] = None =>
       \A q \in Procs : Scanning(q) => got[q][r] = None

StableInv(r) == \A p \in Procs : r \in verified[p] => Stable(p, r)

IInv ==
  /\ TypeOK
  /\ \A p \in Procs : LockInv(p)
  /\ \A r \in Refs : ValueInv(r) /\ PackInv(r) /\ StableInv(r)
-----------------------------------------------------------------------------
(* What a step may change without harm.  Untouched and KeepsLocks are about *)
(* the processes that do not take the step, the others about the one that   *)
(* does, and about a reference r.                                           *)

Untouched(q) ==
  /\ pc'[q] = pc[q] /\ kind'[q] = kind[q] /\ queue'[q] = queue[q]
  /\ todo'[q] = todo[q] /\ upd'[q] = upd[q] /\ del'[q] = del[q] /\ val'[q] = val[q]
  /\ verified'[q] = verified[q] /\ old'[q] = old[q] /\ inPacked'[q] = inPacked[q]
  /\ cur'[q] = cur[q] /\ got'[q] = got[q]

KeepsLocks(q) ==
  /\ \A r \in Refs : refLock[r] = q => refLock'[r] = q
  /\ packedLock = q => packedLock' = q

\* The files of r are as before, or closer to being settled by a deletion.
SameFiles(r) ==
  /\ loose'[r] = loose[r] /\ packed'[r] = packed[r]
  /\ r \in unsettled => r \in unsettled'

\* The process has no new value of r but one that nobody has written yet.
NoNewValue(p, r) ==
  /\ got'[p][r] \in had[r] \cup {None}
  /\ pc'[p] # "idle"
  /\ r \in upd'[p] => val'[p] \in Writes[p] \ had[r]

\* The process, as a packer, knows no more about r than before.
SamePacker(p, r) ==
  /\ pc'[p] # "idle"
  /\ got'[p][r] # None =>
       /\ got'[p][r] = got[p][r] /\ kind'[p] = kind[p]
       /\ Scanning(p)' <=> Scanning(p)
  /\ r \in del'[p] /\ kind'[p] = "pack" => got'[p][r] # None
  /\ r \in queue'[p] /\ Pruner(p)' => got'[p][r] # None

\* The transaction of k goes on from where it was, or ends.
SameTransaction(k, r) ==
  /\ pc'[k] \in Before => pc[k] \in Before
  /\ pc'[k] = "unlink" => pc[k] = "unlink" \/ (pc[k] \in Before /\ kind[k] = "pack")
  /\ kind'[k] = kind[k]
  /\ old'[k][r] = old[k][r] /\ got'[k][r] = got[k][r]
  /\ r \in inPacked'[k] => r \in inPacked[k]
  /\ r \in del'[k] => r \in del[k]

\* A process that keeps its state and its locks keeps LockInv.
LEMMA LockFrame ==
  ASSUME NEW q \in Procs, TypeOK, LockInv(q), Untouched(q), KeepsLocks(q)
  PROVE  LockInv(q)'
<1>1. \A r \in verified[q] : r \in Refs
  BY Zenon DEF TypeOK
<1>2. pc[q] = "verify" => cur[q] \in Refs
  BY Zenon DEF LockInv
<1>3. QED
  BY <1>1, <1>2, Zenon DEF LockInv, Untouched, KeepsLocks, Pruning

\* A step that writes no new value keeps ValueInv.
LEMMA ValueFrame ==
  ASSUME NEW r \in Refs, NEW p \in Procs, ValueInv(r), NoNewValue(p, r),
         \A q \in Procs \ {p} : Untouched(q),
         loose'[r] \in had[r] \cup {None}, packed'[r] \in had[r] \cup {None},
         had[r] \subseteq had'[r], had'[r] \subseteq had[r] \cup {None}
  PROVE  ValueInv(r)'
<1>1. \A q \in Procs : None \notin Writes[q]
  BY ConstantsOK, Zenon
<1>2. ASSUME NEW q \in Procs
      PROVE  /\ got'[q][r] \in had'[r] \cup {None}
             /\ pc'[q] = "idle" => Writes[q] \cap had'[r] = {}
             /\ r \in upd'[q] => val'[q] \in Writes[q] \ had'[r]
  <2>1. CASE q = p
    BY <1>1, <2>1, Zenon DEF NoNewValue
  <2>2. CASE q # p
    <3>1. got'[q] = got[q] /\ pc'[q] = pc[q] /\ upd'[q] = upd[q] /\ val'[q] = val[q]
      BY <2>2, Zenon DEF Untouched
    <3>2. QED
      BY <1>1, <3>1, Zenon DEF ValueInv
  <2>3. QED
    BY <2>1, <2>2, Zenon
<1>3. QED
  BY <1>2, Zenon DEF ValueInv

\* A step that changes neither the files nor what packers know keeps PackInv.
LEMMA PackFrame ==
  ASSUME NEW r \in Refs, NEW p \in Procs, PackInv(r), SameFiles(r), SamePacker(p, r),
         \A q \in Procs \ {p} : Untouched(q)
  PROVE  PackInv(r)'
<1>1. ASSUME NEW q \in Procs
      PROVE  /\ pc'[q] = "idle" => got'[q][r] = None
             /\ got'[q][r] # None => kind'[q] = "pack" /\ got'[q][r] = got[q][r]
             /\ r \in del'[q] /\ Pruning(q)' => got'[q][r] # None
             /\ r \in queue'[q] /\ Pruner(q)' => got'[q][r] # None
             /\ got'[q][r] # None /\ Pruner(q)' => Pruner(q)
             /\ got'[q][r] # None /\ Scanning(q)' => Scanning(q)
  <2>1. CASE q = p
    BY <2>1, Zenon DEF PackInv, SamePacker, Pruner, Pruning, Scanning
  <2>2. CASE q # p
    <3>1. Untouched(q)
      BY <2>2, Zenon
    <3>2. QED
      BY <3>1 DEF Untouched, PackInv, Pruner, Pruning, Scanning
  <2>3. QED
    BY <2>1, <2>2, Zenon
<1>2. QED
  BY <1>1, Zenon DEF PackInv, SameFiles

\* A step that changes nothing of the files, and of no packer what it knows of r,
\* leaves what the transaction of k has read as it is.
LEMMA StableFrame ==
  ASSUME NEW r \in Refs, NEW k \in Procs, NEW p \in Procs, Stable(k, r), SameFiles(r),
         SamePacker(p, r), \A q \in Procs \ {p} : Untouched(q), SameTransaction(k, r)
  PROVE  Stable(k, r)'
<1>1. StillAsRead(k, r) => StillAsRead(k, r)'
  BY Zenon DEF SameFiles, SameTransaction, StillAsRead, Visible, Resolve
<1>2. ASSUME NEW q \in Procs, Scanning(q)', got'[q][r] # None
      PROVE  Scanning(q) /\ got[q][r] # None
  <2>1. CASE q = p
    BY <1>2, <2>1, Zenon DEF SamePacker
  <2>2. CASE q # p
    BY <1>2, <2>2, Zenon DEF Untouched, Scanning
  <2>3. QED
    BY <2>1, <2>2, Zenon
<1>3. QED
  BY <1>1, <1>2, Zenon DEF Stable, SameFiles, SameTransaction, Pruning, Before

\* A process that does not take the step goes on with its transaction.
LEMMA OtherTransaction ==
  ASSUME NEW r \in Refs, NEW k \in Procs, Untouched(k)
  PROVE  SameTransaction(k, r) /\ verified'[k] = verified[k]
BY Zenon DEF Untouched, SameTransaction

\* A step of p that changes no file keeps the invariant, if it does what the frame
\* lemmas ask of p.
LEMMA QuietStep ==
  ASSUME NEW p \in Procs, IInv, TypeOK', LockInv(p)',
         \A q \in Procs \ {p} : Untouched(q) /\ KeepsLocks(q),
         \A r \in Refs : SameFiles(r) /\ NoNewValue(p, r) /\ SamePacker(p, r),
         \A r \in Refs : r \in verified'[p] => r \in verified[p] /\ SameTransaction(p, r),
         UNCHANGED had
  PROVE  IInv'
<1>1. \A q \in Procs : LockInv(q)'
  BY LockFrame, Zenon DEF IInv
<1>2. ASSUME NEW r \in Refs
      PROVE  ValueInv(r)' /\ PackInv(r)'
  <2>1. ValueInv(r) /\ PackInv(r)
    BY Zenon DEF IInv
  <2>2. loose'[r] \in had[r] \cup {None} /\ packed'[r] \in had[r] \cup {None}
    BY <2>1, Zenon DEF ValueInv, SameFiles
  <2>3. had[r] \subseteq had'[r] /\ had'[r] \subseteq had[r] \cup {None}
    BY Zenon
  <2>4. ValueInv(r)'
    BY <2>1, <2>2, <2>3, ValueFrame, Zenon
  <2>5. PackInv(r)'
    BY <2>1, PackFrame, Zenon
  <2>6. QED
    BY <2>4, <2>5, Zenon
<1>3. ASSUME NEW r \in Refs, NEW k \in Procs, r \in verified'[k]
      PROVE  Stable(k, r)'
  <2>1. r \in verified[k] /\ SameTransaction(k, r)
    <3>1. CASE k = p
      BY <1>3, <3>1, Zenon
    <3>2. CASE k # p
      BY <1>3, <3>2, OtherTransaction, Zenon
    <3>3. QED
      BY <3>1, <3>2, Zenon
  <2>2. Stable(k, r)
    BY <2>1, Zenon DEF IInv, StableInv
  <2>3. QED
    BY <2>1, <2>2, StableFrame, Zenon
<1>4. QED
  BY <1>1, <1>2, <1>3, Zenon DEF IInv, StableInv
\* Only the holder of packed-refs.lock reads loose files to pack them.
LEMMA NobodyScans ==
  ASSUME IInv, NEW p \in Procs, packedLock = p,
         \A q \in Procs \ {p} : Untouched(q) /\ KeepsLocks(q),
         pc'[p] \notin {"packScan", "packResolve"}
  PROVE  \A q \in Procs : ~Scanning(q)'
<1>1. \A q \in Procs \ {p} : pc[q] \notin {"packScan", "packResolve"}
  <2>1. \A q \in Procs : LockInv(q)
    BY Zenon DEF IInv
  <2>2. QED
    BY <2>1, Zenon DEF LockInv
<1>2. \A q \in Procs \ {p} : pc'[q] = pc[q]
  BY Zenon DEF Untouched
<1>3. QED
  BY <1>1, <1>2, Zenon DEF Scanning

\* A change of the files keeps the types.
LEMMA StoreTypes ==
  ASSUME IInv, NEW l \in [Refs -> Oid], NEW k \in [Refs -> Oid], NEW u \in SUBSET Refs,
         Store(l, k, u)
  PROVE  /\ loose' \in [Refs -> Oid] /\ packed' \in [Refs -> Oid]
         /\ had' \in [Refs -> SUBSET Oid] /\ seen' \in [Procs -> SUBSET Oid]
         /\ unsettled' \subseteq Refs
<1>1. \A r \in Refs : Resolve(l, k, r) \in Oid
  BY Zenon DEF Resolve
<1>2. had' \in [Refs -> SUBSET Oid]
  <2>1. had \in [Refs -> SUBSET Oid]
    BY Zenon DEF IInv, TypeOK
  <2>2. QED
    BY <1>1, <2>1, Zenon DEF Store
<1>3. seen' \in [Procs -> SUBSET Oid]
  <2>1. seen \in [Procs -> SUBSET Oid]
    BY Zenon DEF IInv, TypeOK
  <2>2. \A q \in Procs : pc[q] \in {"stat", "open", "packedRead"} => cur[q] \in Refs
    BY Zenon DEF IInv, LockInv, Reads
  <2>3. \A q \in Procs : pc[q] \in {"stat", "open", "packedRead"} =>
          Resolve(l, k, cur[q]) \in Oid
    BY <1>1, <2>2, Zenon
  <2>4. \A q \in Procs : pc[q] \in {"stat", "open", "packedRead"} =>
          MayReappear(cur[q], u) \subseteq Oid
    BY <2>2, Zenon DEF IInv, TypeOK, MayReappear, Oid
  <2>5. QED
    BY <2>1, <2>3, <2>4, Zenon DEF Store
<1>4. QED
  BY <1>2, <1>3, Zenon DEF Store
-----------------------------------------------------------------------------
(* The steps that change no file keep the invariant.                       *)

\* The start of a transaction keeps the invariant.
LEMMA StartUpdateKeeps ==
  ASSUME IInv, NEW p \in Procs, StartUpdate(p)
  PROVE  IInv'
<1>1. TypeOK /\ LockInv(p)
  BY Zenon DEF IInv
<1>2. PICK u \in SUBSET Refs, d \in SUBSET Refs, v \in Writes[p] :
         /\ pc[p] = "idle"
         /\ pc' = [pc EXCEPT ![p] = "lockRef"]
         /\ kind' = [kind EXCEPT ![p] = "update"]
         /\ u \cap d = {}
         /\ upd' = [upd EXCEPT ![p] = u]
         /\ del' = [del EXCEPT ![p] = d]
         /\ todo' = [todo EXCEPT ![p] = u \cup d]
         /\ val' = [val EXCEPT ![p] = IF u = {} THEN None ELSE v]
         /\ UNCHANGED <<loose, packed, refLock, packedLock, queue, verified, old,
                        inPacked, cur, got, had, unsettled>>
  BY Zenon DEF StartUpdate, store, locks, txn, reading, history, Goto
<1>3. TypeOK'
  <2>1. Writes[p] \subseteq Values
    BY ConstantsOK, Zenon
  <2>2. UNCHANGED <<reading, seen>>
    BY Zenon DEF StartUpdate, history
  <2>3. QED
    BY <1>1, <1>2, <2>1, <2>2, Zenon DEF TypeOK, Places, AllKinds, Oid, reading
<1>4. \A q \in Procs \ {p} : Untouched(q) /\ KeepsLocks(q)
  <2>1. \A q \in Procs \ {p} : Untouched(q)
    BY <1>1, <1>2, Zenon DEF Untouched, TypeOK
  <2>2. \A q \in Procs \ {p} : KeepsLocks(q)
    BY <1>1, <1>2, ConstantsOK, Zenon DEF KeepsLocks
  <2>3. QED
    BY <2>1, <2>2, Zenon
<1>5. /\ pc'[p] = "lockRef"
      /\ kind'[p] = "update"
      /\ upd'[p] = u
      /\ del'[p] = d
      /\ todo'[p] = u \cup d
      /\ val'[p] = IF u = {} THEN None ELSE v
  BY <1>1, <1>2, Zenon DEF TypeOK
<1>6. LockInv(p)'
  BY <1>1, <1>2, <1>5, Zenon DEF LockInv, Reads, Locked, Pruning
<1>7. ASSUME NEW r \in Refs
      PROVE  SameFiles(r) /\ NoNewValue(p, r) /\ SamePacker(p, r)
  <2>1. ValueInv(r) /\ PackInv(r)
    BY Zenon DEF IInv
  <2>2. SameFiles(r)
    BY <1>2, Zenon DEF SameFiles
  <2>3. NoNewValue(p, r)
    BY <2>1, <1>2, <1>5, ConstantsOK, ZenonT(40) DEF NoNewValue, ValueInv
  <2>4. SamePacker(p, r)
    BY <2>1, <1>2, <1>5, Zenon DEF SamePacker, PackInv, Scanning, Pruner, Pruning
  <2>5. QED
    BY <2>2, <2>3, <2>4, Zenon
<1>8. ASSUME NEW r \in Refs, r \in verified'[p]
      PROVE  r \in verified[p] /\ SameTransaction(p, r)
  BY <1>1, <1>2, <1>5, <1>8, Zenon DEF SameTransaction, LockInv, Reads, Before
<1>9. QED
  BY <1>3, <1>4, <1>6, <1>7, <1>8, <1>2, QuietStep, Zenon

\* Taking the lock of a reference (lock_raw_ref) keeps the invariant.
LEMMA LockRefKeeps ==
  ASSUME IInv, NEW p \in Procs, NEW x \in Refs, LockRef(p, x)
  PROVE  IInv'
<1>1. TypeOK /\ LockInv(p)
  BY Zenon DEF IInv
<1>2. /\ pc[p] = "lockRef"
      /\ pc' = [pc EXCEPT ![p] = "verify"]
      /\ x \in todo[p] /\ refLock[x] = None
      /\ refLock' = [refLock EXCEPT ![x] = p]
      /\ todo' = [todo EXCEPT ![p] = todo[p] \ {x}]
      /\ cur' = [cur EXCEPT ![p] = x]
      /\ UNCHANGED <<loose, packed, packedLock, kind, queue, upd, del, val, verified,
                     old, inPacked, got, had, unsettled>>
  BY Zenon DEF LockRef, store, locks, txn, reading, history, Goto
<1>3. TypeOK'
  <2>1. UNCHANGED <<tries, result, seen>>
    BY Zenon DEF LockRef, reading, history
  <2>2. pc' \in [Procs -> Places]
    BY <1>1, <1>2, Zenon DEF TypeOK, Places
  <2>3. QED
    BY <1>1, <1>2, <2>1, <2>2, Zenon DEF TypeOK
<1>4. \A q \in Procs \ {p} : Untouched(q) /\ KeepsLocks(q)
  <2>1. \A q \in Procs \ {p} : Untouched(q)
    BY <1>1, <1>2, Zenon DEF Untouched, TypeOK
  <2>2. \A q \in Procs \ {p} : KeepsLocks(q)
    BY <1>1, <1>2, ConstantsOK, Zenon DEF KeepsLocks, TypeOK
  <2>3. QED
    BY <2>1, <2>2, Zenon
<1>5. /\ pc'[p] = "verify"
      /\ todo'[p] = todo[p] \ {x}
      /\ cur'[p] = x
  BY <1>1, <1>2, Zenon DEF TypeOK
<1>6. LockInv(p)'
  BY <1>1, <1>2, <1>5, Zenon DEF LockInv, Reads, Locked, Pruning, TypeOK
<1>7. ASSUME NEW r \in Refs
      PROVE  SameFiles(r) /\ NoNewValue(p, r) /\ SamePacker(p, r)
  <2>1. ValueInv(r) /\ PackInv(r)
    BY Zenon DEF IInv
  <2>2. SameFiles(r)
    BY <1>2, Zenon DEF SameFiles
  <2>3. NoNewValue(p, r)
    BY <2>1, <1>2, <1>5, Zenon DEF NoNewValue, ValueInv
  <2>4. SamePacker(p, r)
    BY <2>1, <1>2, <1>5, ZenonT(40) DEF SamePacker, PackInv, Scanning, Pruner, Pruning
  <2>5. QED
    BY <2>2, <2>3, <2>4, Zenon
<1>8. ASSUME NEW r \in Refs, r \in verified'[p]
      PROVE  r \in verified[p] /\ SameTransaction(p, r)
  BY <1>1, <1>2, <1>5, <1>8, Zenon DEF SameTransaction, LockInv, Reads, Before
<1>9. QED
  BY <1>3, <1>4, <1>6, <1>7, <1>8, <1>2, QuietStep, Zenon

\* Taking packed-refs.lock for a deletion (files_transaction_prepare) keeps the invariant.
LEMMA LockPackedKeeps ==
  ASSUME IInv, NEW p \in Procs, LockPacked(p)
  PROVE  IInv'
<1>1. TypeOK /\ LockInv(p)
  BY DEF IInv
<1>2. /\ pc[p] = "lockPacked"
      /\ pc' = [pc EXCEPT ![p] = "commitRefs"]
      /\ packedLock = None /\ packedLock' = p
      /\ UNCHANGED <<loose, packed, refLock, kind, queue, todo, upd, del, val, verified,
                     old, inPacked, cur, got, had, unsettled>>
  BY Zenon DEF LockPacked, store, locks, txn, reading, history, Goto
<1>3. TypeOK'
  <2>1. UNCHANGED <<tries, result, seen>>
    BY Zenon DEF LockPacked, reading, history
  <2>2. pc' \in [Procs -> Places]
    BY <1>1, <1>2, Zenon DEF TypeOK, Places
  <2>3. QED
    BY <1>1, <1>2, <2>1, <2>2, Zenon DEF TypeOK
<1>4. \A q \in Procs \ {p} : Untouched(q) /\ KeepsLocks(q)
  <2>1. \A q \in Procs \ {p} : Untouched(q)
    BY <1>1, <1>2, Zenon DEF Untouched, TypeOK
  <2>2. \A q \in Procs \ {p} : KeepsLocks(q)
    BY <1>1, <1>2, ConstantsOK, Zenon DEF KeepsLocks
  <2>3. QED
    BY <2>1, <2>2, Zenon
<1>5. /\ pc'[p] = "commitRefs"
  BY <1>1, <1>2, Zenon DEF TypeOK
<1>6. LockInv(p)'
  BY <1>1, <1>2, <1>5, Zenon DEF LockInv, Reads, Locked, Pruning
<1>7. ASSUME NEW r \in Refs
      PROVE  SameFiles(r) /\ NoNewValue(p, r) /\ SamePacker(p, r)
  <2>1. ValueInv(r) /\ PackInv(r)
    BY Zenon DEF IInv
  <2>2. SameFiles(r)
    BY <1>2, Zenon DEF SameFiles
  <2>3. NoNewValue(p, r)
    BY <2>1, <1>2, <1>5, Zenon DEF NoNewValue, ValueInv
  <2>4. SamePacker(p, r)
    BY <2>1, <1>2, <1>5, Zenon DEF SamePacker, PackInv, Scanning, Pruner, Pruning
  <2>5. QED
    BY <2>2, <2>3, <2>4, Zenon
<1>8. ASSUME NEW r \in Refs, r \in verified'[p]
      PROVE  r \in verified[p] /\ SameTransaction(p, r)
  BY <1>1, <1>2, <1>5, <1>8, Zenon DEF SameTransaction, LockInv, Reads, Before
<1>9. QED
  BY <1>3, <1>4, <1>6, <1>7, <1>8, <1>2, QuietStep, Zenon

\* The end of the updates (files_transaction_finish) keeps the invariant.
LEMMA RefsCommittedKeeps ==
  ASSUME IInv, NEW p \in Procs, RefsCommitted(p)
  PROVE  IInv'
<1>1. TypeOK /\ LockInv(p)
  BY DEF IInv
<1>2. /\ pc[p] = "commitRefs" /\ upd[p] = {}
      /\ UNCHANGED <<loose, packed, refLock, packedLock, kind, queue, todo, upd, del,
                     val, verified, old, inPacked, cur, got, had, unsettled>>
  BY Zenon DEF RefsCommitted, store, locks, txn, reading, history, Goto, Pruning
<1>3. pc' = [pc EXCEPT ![p] = IF del[p] = {} THEN "unlockRefs"
                                 ELSE IF kind[p] = "pack" THEN "unlink" ELSE "commitPacked"]
  BY Zenon DEF RefsCommitted, store, locks, txn, reading, history, Goto, Pruning
<1>4. TypeOK'
  <2>1. UNCHANGED <<tries, result, seen>>
    BY Zenon DEF RefsCommitted, reading, history
  <2>2. pc' \in [Procs -> Places]
    BY <1>1, <1>2, <1>3, Zenon DEF TypeOK, Places
  <2>3. QED
    BY <1>1, <1>2, <2>1, <2>2, Zenon DEF TypeOK
<1>5. \A q \in Procs \ {p} : Untouched(q) /\ KeepsLocks(q)
  <2>1. \A q \in Procs \ {p} : Untouched(q)
    BY <1>1, <1>2, <1>3, Zenon DEF Untouched, TypeOK
  <2>2. \A q \in Procs \ {p} : KeepsLocks(q)
    BY <1>1, <1>2, ConstantsOK, Zenon DEF KeepsLocks
  <2>3. QED
    BY <2>1, <2>2
<1>6. /\ pc'[p] = IF del[p] = {} THEN "unlockRefs"
                                   ELSE IF kind[p] = "pack" THEN "unlink" ELSE "commitPacked"
  BY <1>1, <1>2, <1>3, Zenon DEF TypeOK
<1>7. pc'[p] \in {"unlockRefs", "unlink", "commitPacked"}
  BY <1>6, Zenon
<1>8. LockInv(p)'
  BY <1>1, <1>2, <1>6, Zenon DEF LockInv, Reads, Locked, Pruning
<1>9. ASSUME NEW r \in Refs
      PROVE  SameFiles(r) /\ NoNewValue(p, r) /\ SamePacker(p, r)
  <2>1. ValueInv(r) /\ PackInv(r)
    BY DEF IInv
  <2>2. SameFiles(r)
    BY <1>2, Zenon DEF SameFiles
  <2>3. NoNewValue(p, r)
    BY <2>1, <1>2, <1>7, Zenon DEF NoNewValue, ValueInv
  <2>4. SamePacker(p, r)
    BY <2>1, <1>2, <1>7, Zenon DEF SamePacker, PackInv, Scanning, Pruner, Pruning
  <2>5. QED
    BY <2>2, <2>3, <2>4
<1>10. ASSUME NEW r \in Refs, r \in verified'[p]
      PROVE  r \in verified[p] /\ SameTransaction(p, r)
  BY <1>1, <1>2, <1>6, <1>10, Zenon DEF SameTransaction, LockInv, Reads, Before
<1>11. QED
  BY <1>4, <1>5, <1>8, <1>9, <1>10, <1>2, QuietStep, Zenon

\* The end of the deletions (files_transaction_finish) keeps the invariant.
LEMMA UnlinkedKeeps ==
  ASSUME IInv, NEW p \in Procs, Unlinked(p)
  PROVE  IInv'
<1>1. TypeOK /\ LockInv(p)
  BY DEF IInv
<1>2. /\ pc[p] = "unlink"
      /\ pc' = [pc EXCEPT ![p] = "unlockRefs"]
      /\ del[p] = {}
      /\ UNCHANGED <<loose, packed, refLock, packedLock, kind, queue, todo, upd, del,
                     val, verified, old, inPacked, cur, got, had, unsettled>>
  BY Zenon DEF Unlinked, store, locks, txn, reading, history, Goto
<1>3. TypeOK'
  <2>1. UNCHANGED <<tries, result, seen>>
    BY Zenon DEF Unlinked, reading, history
  <2>2. pc' \in [Procs -> Places]
    BY <1>1, <1>2, Zenon DEF TypeOK, Places
  <2>3. QED
    BY <1>1, <1>2, <2>1, <2>2, Zenon DEF TypeOK
<1>4. \A q \in Procs \ {p} : Untouched(q) /\ KeepsLocks(q)
  <2>1. \A q \in Procs \ {p} : Untouched(q)
    BY <1>1, <1>2, Zenon DEF Untouched, TypeOK
  <2>2. \A q \in Procs \ {p} : KeepsLocks(q)
    BY <1>1, <1>2, ConstantsOK, Zenon DEF KeepsLocks
  <2>3. QED
    BY <2>1, <2>2
<1>5. /\ pc'[p] = "unlockRefs"
  BY <1>1, <1>2, Zenon DEF TypeOK
<1>6. LockInv(p)'
  BY <1>1, <1>2, <1>5, Zenon DEF LockInv, Reads, Locked, Pruning
<1>7. ASSUME NEW r \in Refs
      PROVE  SameFiles(r) /\ NoNewValue(p, r) /\ SamePacker(p, r)
  <2>1. ValueInv(r) /\ PackInv(r)
    BY DEF IInv
  <2>2. SameFiles(r)
    BY <1>2, Zenon DEF SameFiles
  <2>3. NoNewValue(p, r)
    BY <2>1, <1>2, <1>5, Zenon DEF NoNewValue, ValueInv
  <2>4. SamePacker(p, r)
    BY <2>1, <1>2, <1>5, Zenon DEF SamePacker, PackInv, Scanning, Pruner, Pruning
  <2>5. QED
    BY <2>2, <2>3, <2>4
<1>8. ASSUME NEW r \in Refs, r \in verified'[p]
      PROVE  r \in verified[p] /\ SameTransaction(p, r)
  BY <1>1, <1>2, <1>5, <1>8, Zenon DEF SameTransaction, LockInv, Reads, Before
<1>9. QED
  BY <1>3, <1>4, <1>6, <1>7, <1>8, <1>2, QuietStep, Zenon

\* files_transaction_cleanup keeps the invariant.
LEMMA UnlockRefsKeeps ==
  ASSUME IInv, NEW p \in Procs, UnlockRefs(p)
  PROVE  IInv'
<1>1. TypeOK /\ LockInv(p)
  BY DEF IInv
<1>2. /\ pc[p] = "unlockRefs"
      /\ refLock' = [r \in Refs |-> IF refLock[r] = p THEN None ELSE refLock[r]]
      /\ todo' = [todo EXCEPT ![p] = {}]
      /\ upd' = [upd EXCEPT ![p] = {}]
      /\ del' = [del EXCEPT ![p] = {}]
      /\ verified' = [verified EXCEPT ![p] = {}]
      /\ inPacked' = [inPacked EXCEPT ![p] = {}]
      /\ val' = [val EXCEPT ![p] = None]
      /\ old' = [old EXCEPT ![p] = [r \in Refs |-> None]]
      /\ cur' = [cur EXCEPT ![p] = None]
      /\ UNCHANGED <<loose, packed, packedLock, kind, queue, got, had, unsettled>>
  BY Zenon DEF UnlockRefs, store, locks, txn, reading, history, Goto, EndTransaction, After
<1>3. pc' = [pc EXCEPT ![p] = IF packedLock = p THEN "unlockPacked"
           ELSE IF kind[p] = "pack" THEN "prune"
           ELSE IF kind[p] = "delete" THEN "deleteNext" ELSE "done"]
  BY Zenon DEF UnlockRefs, store, locks, txn, reading, history, Goto, EndTransaction, After
<1>4. TypeOK'
  <2>1. UNCHANGED <<tries, result, seen>>
    BY Zenon DEF UnlockRefs, reading, history
  <2>2. pc' \in [Procs -> Places]
    BY <1>1, <1>2, <1>3, Zenon DEF TypeOK, Places
  <2>3. QED
    BY <1>1, <1>2, <2>1, <2>2, Zenon DEF TypeOK, Oid
<1>5. \A q \in Procs \ {p} : Untouched(q) /\ KeepsLocks(q)
  <2>1. \A q \in Procs \ {p} : Untouched(q)
    BY <1>1, <1>2, <1>3, Zenon DEF Untouched, TypeOK
  <2>2. \A q \in Procs \ {p} : KeepsLocks(q)
    BY <1>1, <1>2, ConstantsOK, Zenon DEF KeepsLocks, TypeOK
  <2>3. QED
    BY <2>1, <2>2
<1>6. /\ todo'[p] = {}
      /\ upd'[p] = {}
      /\ del'[p] = {}
      /\ verified'[p] = {}
      /\ inPacked'[p] = {}
      /\ val'[p] = None
      /\ old'[p] = [r \in Refs |-> None]
      /\ cur'[p] = None
      /\ pc'[p] = IF packedLock = p THEN "unlockPacked"
             ELSE IF kind[p] = "pack" THEN "prune"
             ELSE IF kind[p] = "delete" THEN "deleteNext" ELSE "done"
  BY <1>1, <1>2, <1>3, Zenon DEF TypeOK
<1>7. /\ pc'[p] \in {"unlockPacked", "prune", "deleteNext", "done"}
      /\ todo'[p] = {} /\ upd'[p] = {} /\ del'[p] = {} /\ verified'[p] = {}
      /\ inPacked'[p] = {} /\ val'[p] = None /\ cur'[p] = None
      /\ old'[p] = [r \in Refs |-> None]
  BY <1>6, Zenon
<1>8. LockInv(p)'
  BY <1>1, <1>2, <1>6, Zenon DEF LockInv, Reads, Locked, Pruning
<1>9. ASSUME NEW r \in Refs
      PROVE  SameFiles(r) /\ NoNewValue(p, r) /\ SamePacker(p, r)
  <2>1. ValueInv(r) /\ PackInv(r)
    BY DEF IInv
  <2>2. SameFiles(r)
    BY <1>2, Zenon DEF SameFiles
  <2>3. NoNewValue(p, r)
    BY <2>1, <1>2, <1>7, Zenon DEF NoNewValue, ValueInv
  <2>4. SamePacker(p, r)
    BY <2>1, <1>2, <1>7, Zenon DEF SamePacker, PackInv, Scanning, Pruner, Pruning
  <2>5. QED
    BY <2>2, <2>3, <2>4
<1>10. ASSUME NEW r \in Refs, r \in verified'[p]
      PROVE  r \in verified[p] /\ SameTransaction(p, r)
  BY <1>1, <1>2, <1>6, <1>10, Zenon DEF SameTransaction, LockInv, Reads, Before
<1>11. QED
  BY <1>4, <1>5, <1>8, <1>9, <1>10, <1>2, QuietStep, Zenon

\* packed_refs_unlock keeps the invariant.
LEMMA UnlockPackedKeeps ==
  ASSUME IInv, NEW p \in Procs, UnlockPacked(p)
  PROVE  IInv'
<1>1. TypeOK /\ LockInv(p)
  BY DEF IInv
<1>2. /\ pc[p] = "unlockPacked"
      /\ packedLock' = None
      /\ UNCHANGED <<loose, packed, refLock, kind, queue, todo, upd, del, val, verified,
                     old, inPacked, cur, got, had, unsettled>>
  BY Zenon DEF UnlockPacked, store, locks, txn, reading, history, Goto, After
<1>3. pc' = [pc EXCEPT ![p] = IF kind[p] = "pack" THEN "prune"
           ELSE IF kind[p] = "delete" THEN "deleteNext" ELSE "done"]
  BY Zenon DEF UnlockPacked, store, locks, txn, reading, history, Goto, After
<1>4. TypeOK'
  <2>1. UNCHANGED <<tries, result, seen>>
    BY Zenon DEF UnlockPacked, reading, history
  <2>2. pc' \in [Procs -> Places]
    BY <1>1, <1>2, <1>3, Zenon DEF TypeOK, Places
  <2>3. QED
    BY <1>1, <1>2, <2>1, <2>2, Zenon DEF TypeOK
<1>5. \A q \in Procs \ {p} : Untouched(q) /\ KeepsLocks(q)
  <2>1. \A q \in Procs \ {p} : Untouched(q)
    BY <1>1, <1>2, <1>3, Zenon DEF Untouched, TypeOK
  <2>2. \A q \in Procs \ {p} : KeepsLocks(q)
    BY <1>1, <1>2, ConstantsOK, Zenon DEF KeepsLocks, LockInv
  <2>3. QED
    BY <2>1, <2>2
<1>6. /\ pc'[p] = IF kind[p] = "pack" THEN "prune"
             ELSE IF kind[p] = "delete" THEN "deleteNext" ELSE "done"
  BY <1>1, <1>2, <1>3, Zenon DEF TypeOK
<1>7. pc'[p] \in {"prune", "deleteNext", "done"}
  BY <1>6, Zenon
<1>8. LockInv(p)'
  BY <1>1, <1>2, <1>6, Zenon DEF LockInv, Reads, Locked, Pruning
<1>9. ASSUME NEW r \in Refs
      PROVE  SameFiles(r) /\ NoNewValue(p, r) /\ SamePacker(p, r)
  <2>1. ValueInv(r) /\ PackInv(r)
    BY DEF IInv
  <2>2. SameFiles(r)
    BY <1>2, Zenon DEF SameFiles
  <2>3. NoNewValue(p, r)
    BY <2>1, <1>2, <1>7, Zenon DEF NoNewValue, ValueInv
  <2>4. SamePacker(p, r)
    BY <2>1, <1>2, <1>7, Zenon DEF SamePacker, PackInv, Scanning, Pruner, Pruning
  <2>5. QED
    BY <2>2, <2>3, <2>4
<1>10. ASSUME NEW r \in Refs, r \in verified'[p]
      PROVE  r \in verified[p] /\ SameTransaction(p, r)
  BY <1>1, <1>2, <1>6, <1>10, Zenon DEF SameTransaction, LockInv, Reads, Before
<1>11. QED
  BY <1>4, <1>5, <1>8, <1>9, <1>10, <1>2, QuietStep, Zenon

\* The start of files_pack_refs keeps the invariant.
LEMMA StartPackKeeps ==
  ASSUME IInv, NEW p \in Procs, StartPack(p)
  PROVE  IInv'
<1>1. TypeOK /\ LockInv(p)
  BY DEF IInv
<1>2. /\ pc[p] = "idle"
      /\ pc' = [pc EXCEPT ![p] = "packScan"]
      /\ packedLock = None /\ packedLock' = p
      /\ kind' = [kind EXCEPT ![p] = "pack"]
      /\ queue' = [queue EXCEPT ![p] = Refs]
      /\ UNCHANGED <<loose, packed, refLock, todo, upd, del, val, verified, old,
                     inPacked, cur, got, had, unsettled>>
  BY Zenon DEF StartPack, store, locks, txn, reading, history, Goto
<1>3. TypeOK'
  <2>1. UNCHANGED <<tries, result, seen>>
    BY Zenon DEF StartPack, reading, history
  <2>2. pc' \in [Procs -> Places]
    BY <1>1, <1>2, Zenon DEF TypeOK, Places
  <2>3. QED
    BY <1>1, <1>2, <2>1, <2>2, Zenon DEF TypeOK, AllKinds
<1>4. \A q \in Procs \ {p} : Untouched(q) /\ KeepsLocks(q)
  <2>1. \A q \in Procs \ {p} : Untouched(q)
    BY <1>1, <1>2, Zenon DEF Untouched, TypeOK
  <2>2. \A q \in Procs \ {p} : KeepsLocks(q)
    BY <1>1, <1>2, ConstantsOK, Zenon DEF KeepsLocks
  <2>3. QED
    BY <2>1, <2>2
<1>5. /\ pc'[p] = "packScan"
      /\ kind'[p] = "pack"
      /\ queue'[p] = Refs
  BY <1>1, <1>2, Zenon DEF TypeOK
<1>6. LockInv(p)'
  BY <1>1, <1>2, <1>5, Zenon DEF LockInv, Reads, Locked, Pruning
<1>7. ASSUME NEW r \in Refs
      PROVE  SameFiles(r) /\ NoNewValue(p, r) /\ SamePacker(p, r)
  <2>1. ValueInv(r) /\ PackInv(r) /\ del[p] = {}
    BY <1>1, <1>2, Zenon DEF IInv, LockInv
  <2>2. SameFiles(r)
    BY <1>2, Zenon DEF SameFiles
  <2>3. NoNewValue(p, r)
    BY <2>1, <1>2, <1>5, Zenon DEF NoNewValue, ValueInv
  <2>4. got'[p][r] = None /\ del'[p] = {} /\ ~Pruner(p)'
    BY <2>1, <1>2, <1>5, Zenon DEF PackInv, Pruner
  <2>5. SamePacker(p, r)
    BY <2>4, <1>5, Zenon DEF SamePacker
  <2>6. QED
    BY <2>2, <2>3, <2>5
<1>8. ASSUME NEW r \in Refs, r \in verified'[p]
      PROVE  r \in verified[p] /\ SameTransaction(p, r)
  BY <1>1, <1>2, <1>5, <1>8, Zenon DEF SameTransaction, LockInv, Reads, Before
<1>9. QED
  BY <1>3, <1>4, <1>6, <1>7, <1>8, <1>2, QuietStep, Zenon

\* Looking for a loose file (loose_fill_ref_dir) keeps the invariant.
LEMMA PackStatKeeps ==
  ASSUME IInv, NEW p \in Procs, NEW x \in Refs, PackStat(p, x)
  PROVE  IInv'
<1>1. TypeOK /\ LockInv(p)
  BY DEF IInv
<1>2. /\ pc[p] = "packScan" /\ x \in queue[p]
      /\ queue' = [queue EXCEPT ![p] = queue[p] \ {x}]
      /\ cur' = [cur EXCEPT ![p] = x]
      /\ UNCHANGED <<loose, packed, refLock, packedLock, kind, todo, upd, del, val,
                     verified, old, inPacked, got, had, unsettled>>
  BY Zenon DEF PackStat, store, locks, txn, reading, history, Goto
<1>3. pc' = [pc EXCEPT ![p] = IF loose[x] # None THEN "packResolve" ELSE "packScan"]
  BY Zenon DEF PackStat, store, locks, txn, reading, history, Goto
<1>4. TypeOK'
  <2>1. UNCHANGED <<tries, result, seen>>
    BY Zenon DEF PackStat, reading, history
  <2>2. pc' \in [Procs -> Places]
    BY <1>1, <1>2, <1>3, Zenon DEF TypeOK, Places
  <2>3. QED
    BY <1>1, <1>2, <2>1, <2>2, Zenon DEF TypeOK
<1>5. \A q \in Procs \ {p} : Untouched(q) /\ KeepsLocks(q)
  <2>1. \A q \in Procs \ {p} : Untouched(q)
    BY <1>1, <1>2, <1>3, Zenon DEF Untouched, TypeOK
  <2>2. \A q \in Procs \ {p} : KeepsLocks(q)
    BY <1>1, <1>2, ConstantsOK, Zenon DEF KeepsLocks
  <2>3. QED
    BY <2>1, <2>2
<1>6. /\ queue'[p] = queue[p] \ {x}
      /\ cur'[p] = x
      /\ pc'[p] = IF loose[x] # None THEN "packResolve" ELSE "packScan"
  BY <1>1, <1>2, <1>3, Zenon DEF TypeOK
<1>7. pc'[p] \in {"packScan", "packResolve"} /\ queue'[p] = queue[p] \ {x} /\ cur'[p] = x
  BY <1>6, Zenon
<1>8. LockInv(p)'
  <2>1. pc'[p] \in {"packScan", "packResolve"}
    BY <1>6, Zenon
  <2>2. QED
    BY <1>1, <1>2, <1>6, <2>1, ZenonT(40) DEF LockInv, Reads, Locked, Pruning
<1>9. ASSUME NEW r \in Refs
      PROVE  SameFiles(r) /\ NoNewValue(p, r) /\ SamePacker(p, r)
  <2>1. ValueInv(r) /\ PackInv(r)
    BY DEF IInv
  <2>2. SameFiles(r)
    BY <1>2, Zenon DEF SameFiles
  <2>3. NoNewValue(p, r)
    BY <2>1, <1>2, <1>7, Zenon DEF NoNewValue, ValueInv
  <2>4. SamePacker(p, r)
    BY <2>1, <1>2, <1>7, Zenon DEF SamePacker, PackInv, Scanning, Pruner, Pruning
  <2>5. QED
    BY <2>2, <2>3, <2>4
<1>10. ASSUME NEW r \in Refs, r \in verified'[p]
      PROVE  r \in verified[p] /\ SameTransaction(p, r)
  BY <1>1, <1>2, <1>6, <1>10, Zenon DEF SameTransaction, LockInv, Reads, Before
<1>11. QED
  BY <1>4, <1>5, <1>8, <1>9, <1>10, <1>2, QuietStep, Zenon

\* packed_refs_unlock of a packer keeps the invariant.
LEMMA PackUnlockKeeps ==
  ASSUME IInv, NEW p \in Procs, PackUnlock(p)
  PROVE  IInv'
<1>1. TypeOK /\ LockInv(p)
  BY DEF IInv
<1>2. /\ pc[p] = "packUnlock"
      /\ pc' = [pc EXCEPT ![p] = "prune"]
      /\ packedLock' = None
      /\ UNCHANGED <<loose, packed, refLock, kind, queue, todo, upd, del, val, verified,
                     old, inPacked, cur, got, had, unsettled>>
  BY Zenon DEF PackUnlock, store, locks, txn, reading, history, Goto
<1>3. TypeOK'
  <2>1. UNCHANGED <<tries, result, seen>>
    BY Zenon DEF PackUnlock, reading, history
  <2>2. pc' \in [Procs -> Places]
    BY <1>1, <1>2, Zenon DEF TypeOK, Places
  <2>3. QED
    BY <1>1, <1>2, <2>1, <2>2, Zenon DEF TypeOK
<1>4. \A q \in Procs \ {p} : Untouched(q) /\ KeepsLocks(q)
  <2>1. \A q \in Procs \ {p} : Untouched(q)
    BY <1>1, <1>2, Zenon DEF Untouched, TypeOK
  <2>2. \A q \in Procs \ {p} : KeepsLocks(q)
    BY <1>1, <1>2, ConstantsOK, Zenon DEF KeepsLocks, LockInv
  <2>3. QED
    BY <2>1, <2>2
<1>5. /\ pc'[p] = "prune"
  BY <1>1, <1>2, Zenon DEF TypeOK
<1>6. LockInv(p)'
  BY <1>1, <1>2, <1>5, Zenon DEF LockInv, Reads, Locked, Pruning
<1>7. ASSUME NEW r \in Refs
      PROVE  SameFiles(r) /\ NoNewValue(p, r) /\ SamePacker(p, r)
  <2>1. ValueInv(r) /\ PackInv(r)
    BY DEF IInv
  <2>2. SameFiles(r)
    BY <1>2, Zenon DEF SameFiles
  <2>3. NoNewValue(p, r)
    BY <2>1, <1>2, <1>5, Zenon DEF NoNewValue, ValueInv
  <2>4. SamePacker(p, r)
    BY <2>1, <1>2, <1>5, Zenon DEF SamePacker, PackInv, Scanning, Pruner, Pruning
  <2>5. QED
    BY <2>2, <2>3, <2>4
<1>8. ASSUME NEW r \in Refs, r \in verified'[p]
      PROVE  r \in verified[p] /\ SameTransaction(p, r)
  BY <1>1, <1>2, <1>5, <1>8, Zenon DEF SameTransaction, LockInv, Reads, Before
<1>9. QED
  BY <1>3, <1>4, <1>6, <1>7, <1>8, <1>2, QuietStep, Zenon

\* The start of prune_ref keeps the invariant.
LEMMA PruneRefKeeps ==
  ASSUME IInv, NEW p \in Procs, NEW x \in Refs, PruneRef(p, x)
  PROVE  IInv'
<1>1. TypeOK /\ LockInv(p)
  BY DEF IInv
<1>2. /\ pc[p] = "prune"
      /\ pc' = [pc EXCEPT ![p] = "lockRef"]
      /\ x \in queue[p]
      /\ queue' = [queue EXCEPT ![p] = queue[p] \ {x}]
      /\ del' = [del EXCEPT ![p] = {x}]
      /\ todo' = [todo EXCEPT ![p] = {x}]
      /\ UNCHANGED <<loose, packed, refLock, packedLock, kind, upd, val, verified, old,
                     inPacked, cur, got, had, unsettled>>
  BY Zenon DEF PruneRef, store, locks, txn, reading, history, Goto
<1>3. TypeOK'
  <2>1. UNCHANGED <<tries, result, seen>>
    BY Zenon DEF PruneRef, reading, history
  <2>2. pc' \in [Procs -> Places]
    BY <1>1, <1>2, Zenon DEF TypeOK, Places
  <2>3. /\ queue' \in [Procs -> SUBSET Refs] /\ del' \in [Procs -> SUBSET Refs]
        /\ todo' \in [Procs -> SUBSET Refs]
    BY <1>1, <1>2, Zenon DEF TypeOK
  <2>4. QED
    BY <1>1, <1>2, <2>1, <2>2, <2>3, Zenon DEF TypeOK
<1>4. \A q \in Procs \ {p} : Untouched(q) /\ KeepsLocks(q)
  <2>1. \A q \in Procs \ {p} : Untouched(q)
    BY <1>1, <1>2, Zenon DEF Untouched, TypeOK
  <2>2. \A q \in Procs \ {p} : KeepsLocks(q)
    BY <1>1, <1>2, ConstantsOK, Zenon DEF KeepsLocks
  <2>3. QED
    BY <2>1, <2>2
<1>5. /\ pc'[p] = "lockRef"
      /\ queue'[p] = queue[p] \ {x}
      /\ del'[p] = {x}
      /\ todo'[p] = {x}
  BY <1>1, <1>2, Zenon DEF TypeOK
<1>6. LockInv(p)'
  BY <1>1, <1>2, <1>5, Zenon DEF LockInv, Reads, Locked, Pruning
<1>7. ASSUME NEW r \in Refs
      PROVE  SameFiles(r) /\ NoNewValue(p, r) /\ SamePacker(p, r)
  <2>1. ValueInv(r) /\ PackInv(r)
    BY DEF IInv
  <2>2. SameFiles(r)
    BY <1>2, Zenon DEF SameFiles
  <2>3. NoNewValue(p, r)
    BY <2>1, <1>2, <1>5, Zenon DEF NoNewValue, ValueInv
  <2>4. SamePacker(p, r)
    BY <2>1, <1>2, <1>5, Zenon DEF SamePacker, PackInv, Scanning, Pruner, Pruning
  <2>5. QED
    BY <2>2, <2>3, <2>4
<1>8. ASSUME NEW r \in Refs, r \in verified'[p]
      PROVE  r \in verified[p] /\ SameTransaction(p, r)
  BY <1>1, <1>2, <1>5, <1>8, Zenon DEF SameTransaction, LockInv, Reads, Before
<1>9. QED
  BY <1>3, <1>4, <1>6, <1>7, <1>8, <1>2, QuietStep, Zenon

\* The start of files_delete_refs keeps the invariant.
LEMMA StartDeleteKeeps ==
  ASSUME IInv, NEW p \in Procs, StartDelete(p)
  PROVE  IInv'
<1>1. TypeOK /\ LockInv(p)
  BY DEF IInv
<1>2. PICK d \in SUBSET Refs :
         /\ pc[p] = "idle"
         /\ pc' = [pc EXCEPT ![p] = "deletePacked"]
         /\ packedLock = None /\ packedLock' = p
         /\ kind' = [kind EXCEPT ![p] = "delete"]
         /\ queue' = [queue EXCEPT ![p] = d]
         /\ UNCHANGED <<loose, packed, refLock, todo, upd, del, val, verified, old,
                        inPacked, cur, got, had, unsettled>>
  BY Zenon DEF StartDelete, store, locks, txn, reading, history, Goto
<1>3. TypeOK'
  <2>1. UNCHANGED <<tries, result, seen>>
    BY Zenon DEF StartDelete, reading, history
  <2>2. pc' \in [Procs -> Places]
    BY <1>1, <1>2, Zenon DEF TypeOK, Places
  <2>3. QED
    BY <1>1, <1>2, <2>1, <2>2, Zenon DEF TypeOK, AllKinds
<1>4. \A q \in Procs \ {p} : Untouched(q) /\ KeepsLocks(q)
  <2>1. \A q \in Procs \ {p} : Untouched(q)
    BY <1>1, <1>2, Zenon DEF Untouched, TypeOK
  <2>2. \A q \in Procs \ {p} : KeepsLocks(q)
    BY <1>1, <1>2, ConstantsOK, Zenon DEF KeepsLocks
  <2>3. QED
    BY <2>1, <2>2, Zenon
<1>5. /\ pc'[p] = "deletePacked"
      /\ kind'[p] = "delete"
      /\ queue'[p] = d
  BY <1>1, <1>2, Zenon DEF TypeOK
<1>6. LockInv(p)'
  BY <1>1, <1>2, <1>5, Zenon DEF LockInv, Reads, Locked, Pruning
<1>7. ASSUME NEW r \in Refs
      PROVE  SameFiles(r) /\ NoNewValue(p, r) /\ SamePacker(p, r)
  <2>1. ValueInv(r) /\ PackInv(r)
    BY Zenon DEF IInv
  <2>2. SameFiles(r)
    BY <1>2, Zenon DEF SameFiles
  <2>3. NoNewValue(p, r)
    BY <2>1, <1>2, <1>5, Zenon DEF NoNewValue, ValueInv
  <2>4. SamePacker(p, r)
    BY <2>1, <1>2, <1>5, Zenon DEF SamePacker, PackInv, Scanning, Pruner, Pruning
  <2>5. QED
    BY <2>2, <2>3, <2>4, Zenon
<1>8. ASSUME NEW r \in Refs, r \in verified'[p]
      PROVE  r \in verified[p] /\ SameTransaction(p, r)
  BY <1>1, <1>2, <1>5, <1>8, Zenon DEF SameTransaction, LockInv, Reads, Before
<1>9. QED
  BY <1>3, <1>4, <1>6, <1>7, <1>8, <1>2, QuietStep, Zenon

\* packed_refs_unlock in files_delete_refs keeps the invariant.
LEMMA DeleteUnlockKeeps ==
  ASSUME IInv, NEW p \in Procs, DeleteUnlock(p)
  PROVE  IInv'
<1>1. TypeOK /\ LockInv(p)
  BY DEF IInv
<1>2. /\ pc[p] = "deleteUnlock"
      /\ pc' = [pc EXCEPT ![p] = "deleteNext"]
      /\ packedLock' = None
      /\ UNCHANGED <<loose, packed, refLock, kind, queue, todo, upd, del, val, verified,
                     old, inPacked, cur, got, had, unsettled>>
  BY Zenon DEF DeleteUnlock, store, locks, txn, reading, history, Goto
<1>3. TypeOK'
  <2>1. UNCHANGED <<tries, result, seen>>
    BY Zenon DEF DeleteUnlock, reading, history
  <2>2. pc' \in [Procs -> Places]
    BY <1>1, <1>2, Zenon DEF TypeOK, Places
  <2>3. QED
    BY <1>1, <1>2, <2>1, <2>2, Zenon DEF TypeOK
<1>4. \A q \in Procs \ {p} : Untouched(q) /\ KeepsLocks(q)
  <2>1. \A q \in Procs \ {p} : Untouched(q)
    BY <1>1, <1>2, Zenon DEF Untouched, TypeOK
  <2>2. \A q \in Procs \ {p} : KeepsLocks(q)
    BY <1>1, <1>2, ConstantsOK, Zenon DEF KeepsLocks, LockInv
  <2>3. QED
    BY <2>1, <2>2
<1>5. /\ pc'[p] = "deleteNext"
  BY <1>1, <1>2, Zenon DEF TypeOK
<1>6. LockInv(p)'
  BY <1>1, <1>2, <1>5, Zenon DEF LockInv, Reads, Locked, Pruning
<1>7. ASSUME NEW r \in Refs
      PROVE  SameFiles(r) /\ NoNewValue(p, r) /\ SamePacker(p, r)
  <2>1. ValueInv(r) /\ PackInv(r)
    BY DEF IInv
  <2>2. SameFiles(r)
    BY <1>2, Zenon DEF SameFiles
  <2>3. NoNewValue(p, r)
    BY <2>1, <1>2, <1>5, Zenon DEF NoNewValue, ValueInv
  <2>4. SamePacker(p, r)
    BY <2>1, <1>2, <1>5, ZenonT(40) DEF SamePacker, PackInv, Scanning, Pruner, Pruning
  <2>5. QED
    BY <2>2, <2>3, <2>4
<1>8. ASSUME NEW r \in Refs, r \in verified'[p]
      PROVE  r \in verified[p] /\ SameTransaction(p, r)
  BY <1>1, <1>2, <1>5, <1>8, Zenon DEF SameTransaction, LockInv, Reads, Before
<1>9. QED
  BY <1>3, <1>4, <1>6, <1>7, <1>8, <1>2, QuietStep, Zenon

\* The start of a deletion in files_delete_refs keeps the invariant.
LEMMA DeleteRefKeeps ==
  ASSUME IInv, NEW p \in Procs, NEW x \in Refs, DeleteRef(p, x)
  PROVE  IInv'
<1>1. TypeOK /\ LockInv(p)
  BY DEF IInv
<1>2. /\ pc[p] = "deleteNext"
      /\ pc' = [pc EXCEPT ![p] = "lockRef"]
      /\ x \in queue[p]
      /\ queue' = [queue EXCEPT ![p] = queue[p] \ {x}]
      /\ del' = [del EXCEPT ![p] = {x}]
      /\ todo' = [todo EXCEPT ![p] = {x}]
      /\ UNCHANGED <<loose, packed, refLock, packedLock, kind, upd, val, verified, old,
                     inPacked, cur, got, had, unsettled>>
  BY Zenon DEF DeleteRef, store, locks, txn, reading, history, Goto
<1>3. TypeOK'
  <2>1. UNCHANGED <<tries, result, seen>>
    BY Zenon DEF DeleteRef, reading, history
  <2>2. pc' \in [Procs -> Places]
    BY <1>1, <1>2, Zenon DEF TypeOK, Places
  <2>3. /\ queue' \in [Procs -> SUBSET Refs] /\ del' \in [Procs -> SUBSET Refs]
        /\ todo' \in [Procs -> SUBSET Refs]
    BY <1>1, <1>2, Zenon DEF TypeOK
  <2>4. QED
    BY <1>1, <1>2, <2>1, <2>2, <2>3, Zenon DEF TypeOK
<1>4. \A q \in Procs \ {p} : Untouched(q) /\ KeepsLocks(q)
  <2>1. \A q \in Procs \ {p} : Untouched(q)
    BY <1>1, <1>2, Zenon DEF Untouched, TypeOK
  <2>2. \A q \in Procs \ {p} : KeepsLocks(q)
    BY <1>1, <1>2, ConstantsOK, Zenon DEF KeepsLocks
  <2>3. QED
    BY <2>1, <2>2
<1>5. /\ pc'[p] = "lockRef"
      /\ queue'[p] = queue[p] \ {x}
      /\ del'[p] = {x}
      /\ todo'[p] = {x}
  BY <1>1, <1>2, Zenon DEF TypeOK
<1>6. LockInv(p)'
  BY <1>1, <1>2, <1>5, Zenon DEF LockInv, Reads, Locked, Pruning
<1>7. ASSUME NEW r \in Refs
      PROVE  SameFiles(r) /\ NoNewValue(p, r) /\ SamePacker(p, r)
  <2>1. ValueInv(r) /\ PackInv(r)
    BY DEF IInv
  <2>2. SameFiles(r)
    BY <1>2, Zenon DEF SameFiles
  <2>3. NoNewValue(p, r)
    BY <2>1, <1>2, <1>5, Zenon DEF NoNewValue, ValueInv
  <2>4. SamePacker(p, r)
    BY <2>1, <1>2, <1>5, Zenon DEF SamePacker, PackInv, Scanning, Pruner, Pruning
  <2>5. QED
    BY <2>2, <2>3, <2>4
<1>8. ASSUME NEW r \in Refs, r \in verified'[p]
      PROVE  r \in verified[p] /\ SameTransaction(p, r)
  BY <1>1, <1>2, <1>5, <1>8, Zenon DEF SameTransaction, LockInv, Reads, Before
<1>9. QED
  BY <1>3, <1>4, <1>6, <1>7, <1>8, <1>2, QuietStep, Zenon

\* The start of a read keeps the invariant.
LEMMA StartReadKeeps ==
  ASSUME IInv, NEW p \in Procs, StartRead(p)
  PROVE  IInv'
<1>1. TypeOK /\ LockInv(p)
  BY DEF IInv
<1>2. PICK x \in Refs :
         /\ pc[p] = "idle"
         /\ pc' = [pc EXCEPT ![p] = "stat"]
         /\ kind' = [kind EXCEPT ![p] = "read"]
         /\ cur' = [cur EXCEPT ![p] = x]
         /\ UNCHANGED <<loose, packed, refLock, packedLock, queue, todo, upd, del, val,
                        verified, old, inPacked, got, had, unsettled>>
  BY Zenon DEF StartRead, store, locks, txn, reading, history, Goto
<1>3. TypeOK'
  <2>1. UNCHANGED result /\ tries' = [tries EXCEPT ![p] = 3]
    BY Zenon DEF StartRead, Retries
  <2>2. pc' \in [Procs -> Places]
    BY <1>1, <1>2, Zenon DEF TypeOK, Places
  <2>3. seen' \in [Procs -> SUBSET Oid]
    <3>1. PICK r \in Refs : seen' = [seen EXCEPT ![p] =
            {Visible(r)} \cup MayReappear(r, unsettled)]
      BY Zenon DEF StartRead
    <3>2. Visible(r) \in Oid /\ MayReappear(r, unsettled) \subseteq Oid
      BY <1>1, Zenon DEF TypeOK, Visible, Resolve, MayReappear, Oid
    <3>3. QED
      BY <1>1, <3>1, <3>2, Zenon DEF TypeOK
  <2>4. tries' \in [Procs -> Int]
    BY <1>1, <2>1 DEF TypeOK
  <2>5. QED
    BY <1>1, <1>2, <2>1, <2>2, <2>3, <2>4, Zenon DEF TypeOK, AllKinds, Retries
<1>4. \A q \in Procs \ {p} : Untouched(q) /\ KeepsLocks(q)
  <2>1. \A q \in Procs \ {p} : Untouched(q)
    BY <1>1, <1>2, Zenon DEF Untouched, TypeOK
  <2>2. \A q \in Procs \ {p} : KeepsLocks(q)
    BY <1>1, <1>2, ConstantsOK, Zenon DEF KeepsLocks
  <2>3. QED
    BY <2>1, <2>2, Zenon
<1>5. /\ pc'[p] = "stat"
      /\ kind'[p] = "read"
      /\ cur'[p] = x
  BY <1>1, <1>2, Zenon DEF TypeOK
<1>6. LockInv(p)'
  BY <1>1, <1>2, <1>5, Zenon DEF LockInv, Reads, Locked, Pruning
<1>7. ASSUME NEW r \in Refs
      PROVE  SameFiles(r) /\ NoNewValue(p, r) /\ SamePacker(p, r)
  <2>1. ValueInv(r) /\ PackInv(r)
    BY Zenon DEF IInv
  <2>2. SameFiles(r)
    BY <1>2, Zenon DEF SameFiles
  <2>3. NoNewValue(p, r)
    BY <2>1, <1>2, <1>5, Zenon DEF NoNewValue, ValueInv
  <2>4. SamePacker(p, r)
    BY <2>1, <1>2, <1>5, Zenon DEF SamePacker, PackInv, Scanning, Pruner, Pruning
  <2>5. QED
    BY <2>2, <2>3, <2>4, Zenon
<1>8. ASSUME NEW r \in Refs, r \in verified'[p]
      PROVE  r \in verified[p] /\ SameTransaction(p, r)
  BY <1>1, <1>2, <1>5, <1>8, Zenon DEF SameTransaction, LockInv, Reads, Before
<1>9. QED
  BY <1>3, <1>4, <1>6, <1>7, <1>8, <1>2, QuietStep, Zenon

\* lstat in read_ref_internal keeps the invariant.
LEMMA StatKeeps ==
  ASSUME IInv, NEW p \in Procs, Stat(p)
  PROVE  IInv'
<1>1. TypeOK /\ LockInv(p)
  BY DEF IInv
<1>2. /\ pc[p] = "stat"
      /\ UNCHANGED <<loose, packed, refLock, packedLock, kind, queue, todo, upd, del,
                     val, verified, old, inPacked, cur, got, had, unsettled>>
  BY Zenon DEF Stat, store, locks, txn, history
<1>3. pc' = [pc EXCEPT ![p] = IF tries[p] <= 0 THEN "done"
                                 ELSE IF loose[cur[p]] # None THEN "open" ELSE "packedRead"]
  BY Zenon DEF Stat, store, locks, txn, reading, history, Goto
<1>4. TypeOK'
  <2>1. UNCHANGED seen /\ result' \in [Procs -> Oid]
    BY <1>1, Zenon DEF Stat, history, TypeOK, Oid
  <2>2. tries' = [tries EXCEPT ![p] = tries[p] - 1]
    BY Zenon DEF Stat
  <2>3. tries[p] - 1 \in Int
    BY <1>1 DEF TypeOK
  <2>4. tries' \in [Procs -> Int]
    BY <1>1, <2>2, <2>3, Zenon DEF TypeOK
  <2>5. QED
    BY <1>1, <1>2, <1>3, <2>1, <2>4, Zenon DEF TypeOK, Places, Retries
<1>5. \A q \in Procs \ {p} : Untouched(q) /\ KeepsLocks(q)
  <2>1. \A q \in Procs \ {p} : Untouched(q)
    BY <1>1, <1>2, <1>3, Zenon DEF Untouched, TypeOK
  <2>2. \A q \in Procs \ {p} : KeepsLocks(q)
    BY <1>1, <1>2, ConstantsOK, Zenon DEF KeepsLocks
  <2>3. QED
    BY <2>1, <2>2
<1>6. /\ pc'[p] = IF tries[p] <= 0 THEN "done"
                                   ELSE IF loose[cur[p]] # None THEN "open" ELSE "packedRead"
  BY <1>1, <1>2, <1>3, Zenon DEF TypeOK
<1>7. pc'[p] \in {"done", "open", "packedRead"}
  BY <1>6, Zenon
<1>8. LockInv(p)'
  BY <1>1, <1>2, <1>6, Zenon DEF LockInv, Reads, Locked, Pruning
<1>9. ASSUME NEW r \in Refs
      PROVE  SameFiles(r) /\ NoNewValue(p, r) /\ SamePacker(p, r)
  <2>1. ValueInv(r) /\ PackInv(r)
    BY DEF IInv
  <2>2. SameFiles(r)
    BY <1>2, Zenon DEF SameFiles
  <2>3. NoNewValue(p, r)
    BY <2>1, <1>2, <1>7, Zenon DEF NoNewValue, ValueInv
  <2>4. SamePacker(p, r)
    BY <2>1, <1>2, <1>7, Zenon DEF SamePacker, PackInv, Scanning, Pruner, Pruning
  <2>5. QED
    BY <2>2, <2>3, <2>4
<1>10. ASSUME NEW r \in Refs, r \in verified'[p]
      PROVE  r \in verified[p] /\ SameTransaction(p, r)
  BY <1>1, <1>2, <1>6, <1>10, Zenon DEF SameTransaction, LockInv, Reads, Before
<1>11. QED
  BY <1>4, <1>5, <1>8, <1>9, <1>10, <1>2, QuietStep, Zenon

\* open in read_ref_internal keeps the invariant.
LEMMA OpenKeeps ==
  ASSUME IInv, NEW p \in Procs, Open(p)
  PROVE  IInv'
<1>1. TypeOK /\ LockInv(p)
  BY DEF IInv
<1>2. /\ pc[p] = "open"
      /\ UNCHANGED <<loose, packed, refLock, packedLock, kind, queue, todo, upd, del,
                     val, verified, old, inPacked, cur, got, had, unsettled>>
  BY Zenon DEF Open, store, locks, txn, reading, history, Goto
<1>3. pc' = [pc EXCEPT ![p] = IF loose[cur[p]] # None THEN "done" ELSE "stat"]
  BY Zenon DEF Open, store, locks, txn, reading, history, Goto
<1>4. TypeOK'
  <2>1. loose[cur[p]] \in Oid
    BY <1>1, <1>2, Zenon DEF LockInv, Reads, TypeOK
  <2>2. UNCHANGED <<seen, tries>> /\ result' = [result EXCEPT ![p] = loose[cur[p]]]
    BY ZenonT(40) DEF Open, history
  <2>3. QED
    BY <1>1, <1>2, <1>3, <2>1, <2>2, Zenon DEF TypeOK, Places
<1>5. \A q \in Procs \ {p} : Untouched(q) /\ KeepsLocks(q)
  <2>1. \A q \in Procs \ {p} : Untouched(q)
    BY <1>1, <1>2, <1>3, Zenon DEF Untouched, TypeOK
  <2>2. \A q \in Procs \ {p} : KeepsLocks(q)
    BY <1>1, <1>2, ConstantsOK, ZenonT(40) DEF KeepsLocks
  <2>3. QED
    BY <2>1, <2>2
<1>6. /\ pc'[p] = IF loose[cur[p]] # None THEN "done" ELSE "stat"
  BY <1>1, <1>2, <1>3, Zenon DEF TypeOK
<1>7. pc'[p] \in {"done", "stat"}
  BY <1>6, Zenon
<1>8. LockInv(p)'
  BY <1>1, <1>2, <1>6, Zenon DEF LockInv, Reads, Locked, Pruning
<1>9. ASSUME NEW r \in Refs
      PROVE  SameFiles(r) /\ NoNewValue(p, r) /\ SamePacker(p, r)
  <2>1. ValueInv(r) /\ PackInv(r)
    BY DEF IInv
  <2>2. SameFiles(r)
    BY <1>2, Zenon DEF SameFiles
  <2>3. NoNewValue(p, r)
    BY <2>1, <1>2, <1>7, Zenon DEF NoNewValue, ValueInv
  <2>4. SamePacker(p, r)
    BY <2>1, <1>2, <1>7, Zenon DEF SamePacker, PackInv, Scanning, Pruner, Pruning
  <2>5. QED
    BY <2>2, <2>3, <2>4
<1>10. ASSUME NEW r \in Refs, r \in verified'[p]
      PROVE  r \in verified[p] /\ SameTransaction(p, r)
  BY <1>1, <1>2, <1>6, <1>10, Zenon DEF SameTransaction, LockInv, Reads, Before
<1>11. QED
  BY <1>4, <1>5, <1>8, <1>9, <1>10, <1>2, QuietStep, Zenon

\* Reading packed-refs in read_ref_internal keeps the invariant.
LEMMA PackedReadKeeps ==
  ASSUME IInv, NEW p \in Procs, PackedRead(p)
  PROVE  IInv'
<1>1. TypeOK /\ LockInv(p)
  BY DEF IInv
<1>2. /\ pc[p] = "packedRead"
      /\ pc' = [pc EXCEPT ![p] = "done"]
      /\ UNCHANGED <<loose, packed, refLock, packedLock, kind, queue, todo, upd, del,
                     val, verified, old, inPacked, cur, got, had, unsettled>>
  BY Zenon DEF PackedRead, store, locks, txn, reading, history, Goto
<1>3. TypeOK'
  <2>1. packed[cur[p]] \in Oid
    BY <1>1, <1>2, Zenon DEF LockInv, Reads, TypeOK
  <2>2. UNCHANGED <<seen, tries>> /\ result' = [result EXCEPT ![p] = packed[cur[p]]]
    BY Zenon DEF PackedRead, history
  <2>3. QED
    BY <1>1, <1>2, <2>1, <2>2, Zenon DEF TypeOK, Places
<1>4. \A q \in Procs \ {p} : Untouched(q) /\ KeepsLocks(q)
  <2>1. \A q \in Procs \ {p} : Untouched(q)
    BY <1>1, <1>2, Zenon DEF Untouched, TypeOK
  <2>2. \A q \in Procs \ {p} : KeepsLocks(q)
    BY <1>1, <1>2, ConstantsOK, Zenon DEF KeepsLocks
  <2>3. QED
    BY <2>1, <2>2
<1>5. /\ pc'[p] = "done"
  BY <1>1, <1>2, Zenon DEF TypeOK
<1>6. LockInv(p)'
  BY <1>1, <1>2, <1>5, Zenon DEF LockInv, Reads, Locked, Pruning
<1>7. ASSUME NEW r \in Refs
      PROVE  SameFiles(r) /\ NoNewValue(p, r) /\ SamePacker(p, r)
  <2>1. ValueInv(r) /\ PackInv(r)
    BY DEF IInv
  <2>2. SameFiles(r)
    BY <1>2, Zenon DEF SameFiles
  <2>3. NoNewValue(p, r)
    BY <2>1, <1>2, <1>5, Zenon DEF NoNewValue, ValueInv
  <2>4. SamePacker(p, r)
    BY <2>1, <1>2, <1>5, Zenon DEF SamePacker, PackInv, Scanning, Pruner, Pruning
  <2>5. QED
    BY <2>2, <2>3, <2>4
<1>8. ASSUME NEW r \in Refs, r \in verified'[p]
      PROVE  r \in verified[p] /\ SameTransaction(p, r)
  BY <1>1, <1>2, <1>5, <1>8, Zenon DEF SameTransaction, LockInv, Reads, Before
<1>9. QED
  BY <1>3, <1>4, <1>6, <1>7, <1>8, <1>2, QuietStep, Zenon

\* A transaction that fails keeps the invariant.
LEMMA FailKeeps ==
  ASSUME IInv, NEW p \in Procs, Fail(p)
  PROVE  IInv'
<1>1. TypeOK /\ LockInv(p)
  BY DEF IInv
<1>2. /\ pc[p] \in {"lockRef", "verify", "lockPacked", "commitRefs", "commitPacked", "unlink"}
      /\ pc' = [pc EXCEPT ![p] = "unlockRefs"]
      /\ UNCHANGED <<loose, packed, refLock, packedLock, kind, queue, todo, upd, del,
                     val, verified, old, inPacked, cur, got, had, unsettled>>
  BY Zenon DEF Fail, store, locks, txn, reading, history, Goto
<1>3. TypeOK'
  <2>1. UNCHANGED <<tries, result, seen>>
    BY Zenon DEF Fail, reading, history
  <2>2. pc' \in [Procs -> Places]
    BY <1>1, <1>2, Zenon DEF TypeOK, Places
  <2>3. QED
    BY <1>1, <1>2, <2>1, <2>2, Zenon DEF TypeOK
<1>4. \A q \in Procs \ {p} : Untouched(q) /\ KeepsLocks(q)
  <2>1. \A q \in Procs \ {p} : Untouched(q)
    BY <1>1, <1>2, Zenon DEF Untouched, TypeOK
  <2>2. \A q \in Procs \ {p} : KeepsLocks(q)
    BY <1>1, <1>2, ConstantsOK, Zenon DEF KeepsLocks
  <2>3. QED
    BY <2>1, <2>2
<1>5. /\ pc'[p] = "unlockRefs"
  BY <1>1, <1>2, Zenon DEF TypeOK
<1>6. LockInv(p)'
  BY <1>1, <1>2, <1>5, Zenon DEF LockInv, Reads, Locked, Pruning
<1>7. ASSUME NEW r \in Refs
      PROVE  SameFiles(r) /\ NoNewValue(p, r) /\ SamePacker(p, r)
  <2>1. ValueInv(r) /\ PackInv(r)
    BY DEF IInv
  <2>2. SameFiles(r)
    BY <1>2, Zenon DEF SameFiles
  <2>3. NoNewValue(p, r)
    BY <2>1, <1>2, <1>5, Zenon DEF NoNewValue, ValueInv
  <2>4. SamePacker(p, r)
    BY <2>1, <1>2, <1>5, Zenon DEF SamePacker, PackInv, Scanning, Pruner, Pruning
  <2>5. QED
    BY <2>2, <2>3, <2>4
<1>8. ASSUME NEW r \in Refs, r \in verified'[p]
      PROVE  r \in verified[p] /\ SameTransaction(p, r)
  BY <1>1, <1>2, <1>5, <1>8, Zenon DEF SameTransaction, LockInv, Reads, Before
<1>9. QED
  BY <1>3, <1>4, <1>6, <1>7, <1>8, <1>2, QuietStep, Zenon

\* A command that ends or fails outside a transaction keeps the invariant.
LEMMA QuitKeeps ==
  ASSUME IInv, NEW p \in Procs, Quit(p)
  PROVE  IInv'
<1>1. TypeOK /\ LockInv(p)
  BY DEF IInv
<1>2. /\ pc[p] \in {"packScan", "packResolve", "packUnlock", "prune",
                 "deletePacked", "deleteUnlock", "deleteNext"}
      /\ pc' = [pc EXCEPT ![p] = "done"]
      /\ packedLock' = IF packedLock = p THEN None ELSE packedLock
      /\ todo' = [todo EXCEPT ![p] = {}]
      /\ upd' = [upd EXCEPT ![p] = {}]
      /\ del' = [del EXCEPT ![p] = {}]
      /\ verified' = [verified EXCEPT ![p] = {}]
      /\ inPacked' = [inPacked EXCEPT ![p] = {}]
      /\ val' = [val EXCEPT ![p] = None]
      /\ old' = [old EXCEPT ![p] = [r \in Refs |-> None]]
      /\ cur' = [cur EXCEPT ![p] = None]
      /\ queue' = [queue EXCEPT ![p] = {}]
      /\ got' = [got EXCEPT ![p] = [r \in Refs |-> None]]
      /\ UNCHANGED <<loose, packed, refLock, kind, had, unsettled>>
  BY Zenon DEF Quit, store, locks, txn, reading, history, Goto, Exit, EndTransaction
<1>3. TypeOK'
  <2>1. UNCHANGED <<tries, result, seen>>
    BY Zenon DEF Quit, reading, history
  <2>2. pc' \in [Procs -> Places]
    BY <1>1, <1>2, Zenon DEF TypeOK, Places
  <2>3. QED
    BY <1>1, <1>2, <2>1, <2>2, Zenon DEF TypeOK, Oid
<1>4. \A q \in Procs \ {p} : Untouched(q) /\ KeepsLocks(q)
  <2>1. \A q \in Procs \ {p} : Untouched(q)
    BY <1>1, <1>2, Zenon DEF Untouched, TypeOK
  <2>2. \A q \in Procs \ {p} : KeepsLocks(q)
    BY <1>1, <1>2, ConstantsOK, Zenon DEF KeepsLocks
  <2>3. QED
    BY <2>1, <2>2
<1>5. /\ pc'[p] = "done"
      /\ todo'[p] = {}
      /\ upd'[p] = {}
      /\ del'[p] = {}
      /\ verified'[p] = {}
      /\ inPacked'[p] = {}
      /\ val'[p] = None
      /\ old'[p] = [r \in Refs |-> None]
      /\ cur'[p] = None
      /\ queue'[p] = {}
      /\ got'[p] = [r \in Refs |-> None]
  BY <1>1, <1>2, Zenon DEF TypeOK
<1>6. LockInv(p)'
  BY <1>1, <1>2, <1>5, Zenon DEF LockInv, Reads, Locked, Pruning
<1>7. ASSUME NEW r \in Refs
      PROVE  SameFiles(r) /\ NoNewValue(p, r) /\ SamePacker(p, r)
  <2>1. got'[p][r] = None /\ upd'[p] = {} /\ del'[p] = {} /\ queue'[p] = {} /\ pc'[p] # "idle"
    BY <1>5, Zenon
  <2>2. SameFiles(r)
    BY <1>2, Zenon DEF SameFiles
  <2>3. QED
    BY <2>1, <2>2, Zenon DEF NoNewValue, SamePacker
<1>8. ASSUME NEW r \in Refs, r \in verified'[p]
      PROVE  r \in verified[p] /\ SameTransaction(p, r)
  BY <1>1, <1>2, <1>5, <1>8, Zenon DEF SameTransaction, LockInv, Reads, Before
<1>9. QED
  BY <1>3, <1>4, <1>6, <1>7, <1>8, <1>2, QuietStep, Zenon

\* A command that is killed keeps the invariant.
LEMMA CrashKeeps ==
  ASSUME IInv, NEW p \in Procs, Crash(p)
  PROVE  IInv'
<1>1. TypeOK /\ LockInv(p)
  BY DEF IInv
<1>2. /\ pc[p] \notin {"idle", "done", "crashed"}
      /\ pc' = [pc EXCEPT ![p] = "crashed"]
      /\ todo' = [todo EXCEPT ![p] = {}]
      /\ upd' = [upd EXCEPT ![p] = {}]
      /\ del' = [del EXCEPT ![p] = {}]
      /\ verified' = [verified EXCEPT ![p] = {}]
      /\ inPacked' = [inPacked EXCEPT ![p] = {}]
      /\ val' = [val EXCEPT ![p] = None]
      /\ old' = [old EXCEPT ![p] = [r \in Refs |-> None]]
      /\ cur' = [cur EXCEPT ![p] = None]
      /\ queue' = [queue EXCEPT ![p] = {}]
      /\ got' = [got EXCEPT ![p] = [r \in Refs |-> None]]
      /\ UNCHANGED <<loose, packed, refLock, packedLock, kind, had, unsettled>>
  BY Zenon DEF Crash, store, locks, txn, reading, history, Goto, Exit, EndTransaction
<1>3. TypeOK'
  <2>1. UNCHANGED <<tries, result, seen>>
    BY Zenon DEF Crash, reading, history
  <2>2. pc' \in [Procs -> Places]
    BY <1>1, <1>2, Zenon DEF TypeOK, Places
  <2>3. QED
    BY <1>1, <1>2, <2>1, <2>2, Zenon DEF TypeOK, Oid
<1>4. \A q \in Procs \ {p} : Untouched(q) /\ KeepsLocks(q)
  <2>1. \A q \in Procs \ {p} : Untouched(q)
    BY <1>1, <1>2, Zenon DEF Untouched, TypeOK
  <2>2. \A q \in Procs \ {p} : KeepsLocks(q)
    BY <1>1, <1>2, ConstantsOK, ZenonT(40) DEF KeepsLocks
  <2>3. QED
    BY <2>1, <2>2
<1>5. /\ pc'[p] = "crashed"
      /\ todo'[p] = {}
      /\ upd'[p] = {}
      /\ del'[p] = {}
      /\ verified'[p] = {}
      /\ inPacked'[p] = {}
      /\ val'[p] = None
      /\ old'[p] = [r \in Refs |-> None]
      /\ cur'[p] = None
      /\ queue'[p] = {}
      /\ got'[p] = [r \in Refs |-> None]
  BY <1>1, <1>2, Zenon DEF TypeOK
<1>6. LockInv(p)'
  BY <1>1, <1>2, <1>5, Zenon DEF LockInv, Reads, Locked, Pruning
<1>7. ASSUME NEW r \in Refs
      PROVE  SameFiles(r) /\ NoNewValue(p, r) /\ SamePacker(p, r)
  <2>1. got'[p][r] = None /\ upd'[p] = {} /\ del'[p] = {} /\ queue'[p] = {} /\ pc'[p] # "idle"
    BY <1>5, Zenon
  <2>2. SameFiles(r)
    BY <1>2, Zenon DEF SameFiles
  <2>3. QED
    BY <2>1, <2>2, Zenon DEF NoNewValue, SamePacker
<1>8. ASSUME NEW r \in Refs, r \in verified'[p]
      PROVE  r \in verified[p] /\ SameTransaction(p, r)
  BY <1>1, <1>2, <1>5, <1>8, Zenon DEF SameTransaction, LockInv, Reads, Before
<1>9. QED
  BY <1>3, <1>4, <1>6, <1>7, <1>8, <1>2, QuietStep, Zenon
=============================================================================
