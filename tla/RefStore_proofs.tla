-------------------------- MODULE RefStore_proofs ---------------------------
(***************************************************************************)
(* What is proved about RefStore, for any number of commands and references:*)
(* the invariant of RefStore_inv holds in every reachable state, and from it*)
(* follow the properties of the lock, of changes, of obsolete values and of *)
(* reads.  First come the steps that change a file, or read one that others *)
(* change.                                                                  *)
(* All of it assumes FreshValues, that no command writes a value that was  *)
(* there before: the code compares values, and with a value restored       *)
(* PruneKeepsValue fails.                                                  *)
(***************************************************************************)
EXTENDS RefStore_inv
-----------------------------------------------------------------------------
(* The steps that change a file, or read one that others change.           *)

\* Reading and checking a reference under its lock (lock_ref_for_update) keeps the invariant.
LEMMA VerifyKeeps ==
  ASSUME IInv, NEW p \in Procs, Verify(p)
  PROVE  IInv'
<1>1. TypeOK /\ LockInv(p)
  BY Zenon DEF IInv
<1>2. PICK c \in Refs : c = cur[p]
  BY <1>1, Zenon DEF LockInv, Reads, Verify
<1>3. /\ pc[p] = "verify"
      /\ kind[p] = "pack" => Visible(c) = got[p][c]
      /\ verified' = [verified EXCEPT ![p] = verified[p] \cup {c}]
      /\ old' = [old EXCEPT ![p][c] = Visible(c)]
      /\ inPacked' = [inPacked EXCEPT ![p] =
               IF loose[c] = None /\ packed[c] # None
               THEN inPacked[p] \cup {c} ELSE inPacked[p] \ {c}]
      /\ upd' = [upd EXCEPT ![p] = IF Visible(c) = val[p] THEN upd[p] \ {c} ELSE upd[p]]
      /\ UNCHANGED <<loose, packed, refLock, packedLock, kind, queue, todo, del, val,
                     cur, got, had, unsettled>>
  BY <1>2, Zenon DEF Verify, store, locks, txn, reading, history, Goto, OldValueOK, Pruning
<1>4. pc' = [pc EXCEPT ![p] = IF todo[p] # {} THEN "lockRef"
                                 ELSE IF del[p] # {} /\ kind[p] # "pack" THEN "lockPacked"
                                 ELSE "commitRefs"]
  BY <1>2, Zenon DEF Verify, store, locks, txn, reading, history, Goto, OldValueOK, Pruning
<1>5. TypeOK'
  <2>1. UNCHANGED <<tries, result, seen>>
    BY Zenon DEF Verify, reading, history
  <2>2. pc' \in [Procs -> Places]
    BY <1>1, <1>4, Zenon DEF TypeOK, Places
  <2>3. Visible(c) \in Oid
    BY <1>1, Zenon DEF TypeOK, Visible, Resolve
  <2>4. old' \in [Procs -> [Refs -> Oid]]
    BY <1>1, <1>3, <2>3, Zenon DEF TypeOK
  <2>5. /\ inPacked' \in [Procs -> SUBSET Refs] /\ upd' \in [Procs -> SUBSET Refs]
        /\ verified' \in [Procs -> SUBSET Refs]
    BY <1>1, <1>3 DEF TypeOK
  <2>6. UNCHANGED <<loose, packed, refLock, packedLock, kind, queue, todo, del, val, cur,
                    got, had, unsettled>>
    BY <1>3, Zenon
  <2>7. QED
    BY <1>1, <2>1, <2>2, <2>4, <2>5, <2>6, Zenon DEF TypeOK
<1>6. \A q \in Procs \ {p} : Untouched(q) /\ KeepsLocks(q)
  <2>1. \A q \in Procs \ {p} : Untouched(q)
    BY <1>1, <1>3, <1>4, Zenon DEF Untouched, TypeOK
  <2>2. \A q \in Procs \ {p} : KeepsLocks(q)
    BY <1>1, <1>3, ConstantsOK, Zenon DEF KeepsLocks
  <2>3. QED
    BY <2>1, <2>2, Zenon
<1>7. /\ verified'[p] = verified[p] \cup {c}
      /\ old'[p][c] = Visible(c)
      /\ inPacked'[p] = IF loose[c] = None /\ packed[c] # None
               THEN inPacked[p] \cup {c} ELSE inPacked[p] \ {c}
      /\ upd'[p] = IF Visible(c) = val[p] THEN upd[p] \ {c} ELSE upd[p]
      /\ pc'[p] = IF todo[p] # {} THEN "lockRef"
                                   ELSE IF del[p] # {} /\ kind[p] # "pack" THEN "lockPacked"
                                   ELSE "commitRefs"
  BY <1>1, <1>3, <1>4, Zenon DEF TypeOK
<1>8. pc'[p] \in {"lockRef", "lockPacked", "commitRefs"}
  BY <1>7, Zenon
<1>9. LockInv(p)'
  <2>1. refLock[c] = p /\ c \in Refs
    BY <1>1, <1>2, <1>3, Zenon DEF LockInv
  <2>2. upd'[p] \subseteq upd[p]
    BY <1>7, Zenon
  <2>3. \A r \in verified'[p] : refLock'[r] = p
    BY <2>1, <1>1, <1>3, <1>7, Zenon DEF LockInv
  <2>4. pc'[p] # "unlockRefs" =>
          \A r \in upd'[p] \cup del'[p] : r \in todo'[p] \/ r \in verified'[p]
    BY <2>2, <1>2, <1>1, <1>3, <1>7, Zenon DEF LockInv
  <2>5. pc'[p] \in {"lockRef", "lockPacked", "commitRefs"}
    BY <1>7
  <2>6. pc'[p] \in Locked => todo'[p] = {}
    BY <1>3, <1>7, Zenon DEF Locked
  <2>7. pc'[p] = "commitRefs" /\ del'[p] # {} => Pruning(p)'
    BY <1>3, <1>7, Zenon DEF Pruning
  <2>8. QED
    BY <2>2, <2>3, <2>4, <2>5, <2>6, <2>7, <1>1, <1>3, Zenon DEF LockInv, Reads
<1>10. \A q \in Procs : LockInv(q)'
  BY <1>1, <1>6, <1>9, LockFrame, Zenon DEF IInv
<1>11. ASSUME NEW r \in Refs
      PROVE  ValueInv(r)'
  <2>1. ValueInv(r)
    BY Zenon DEF IInv
  <2>2. loose'[r] \in had[r] \cup {None} /\ packed'[r] \in had[r] \cup {None} /\ had' = had
    BY <2>1, <1>3, Zenon DEF ValueInv
  <2>3. /\ upd'[p] \subseteq upd[p] /\ val'[p] = val[p] /\ got'[p] = got[p]
        /\ pc'[p] # "idle"
    BY <1>3, <1>7
  <2>4. NoNewValue(p, r)
    BY <2>1, <2>3, Zenon DEF NoNewValue, ValueInv
  <2>5. QED
    BY <2>1, <2>2, <2>4, <1>6, ValueFrame, Zenon
<1>12. ASSUME NEW r \in Refs
      PROVE  PackInv(r)'
  <2>1. PackInv(r)
    BY Zenon DEF IInv
  <2>2. SameFiles(r)
    BY <1>3, Zenon DEF SameFiles
  <2>3. SamePacker(p, r)
    BY <2>1, <1>3, <1>8, Zenon DEF SamePacker, PackInv, Scanning, Pruner, Pruning
  <2>4. QED
    BY <2>1, <2>2, <2>3, <1>6, PackFrame, Zenon
<1>13. ASSUME NEW r \in Refs, NEW k \in Procs, r \in verified'[k]
      PROVE  Stable(k, r)'
  <2>1. SamePacker(p, r)
    <3>1. PackInv(r)
      BY Zenon DEF IInv
    <3>2. QED
      BY <3>1, <1>3, <1>8, Zenon DEF SamePacker, PackInv, Scanning, Pruner, Pruning
  <2>2. CASE k = p /\ r = c
    <3>1. old'[k][r] = Visible(r) /\ pc'[k] \in Before
      BY <2>2, <1>7, Zenon DEF Before
    <3>2. StillAsRead(k, r)'
      BY <3>1, <1>3, Zenon DEF StillAsRead, Visible, Resolve
    <3>3. r \in inPacked'[k] => loose'[r] = None
      BY <2>2, <1>3, <1>7
    <3>4. Pruning(k)' => old'[k][r] = got'[k][r]
      BY <2>2, <3>1, <1>3, Zenon DEF Pruning
    <3>5. old'[k][r] # None => ~(loose'[r] = None /\ packed'[r] = None)
      BY <3>1, <1>3, Zenon DEF Visible, Resolve
    <3>6. pc'[k] # "unlink"
      BY <3>1, Zenon DEF Before
    <3>7. QED
      BY <3>2, <3>3, <3>4, <3>5, <3>6, Zenon DEF Stable
  <2>3. CASE k = p /\ r # c
    <3>1. r \in verified[k] /\ old'[k][r] = old[k][r]
      BY <2>3, <1>1, <1>3, <1>7, <1>13, Zenon DEF TypeOK
    <3>2. SameTransaction(k, r)
      BY <2>3, <3>1, <1>3, <1>7 DEF SameTransaction, Before
    <3>3. SameFiles(r)
      BY <1>3, Zenon DEF SameFiles
    <3>4. Stable(k, r)
      BY <3>1, Zenon DEF IInv, StableInv
    <3>5. QED
      BY <2>1, <3>2, <3>3, <3>4, <1>6, StableFrame, Zenon
  <2>4. CASE k # p
    <3>1. SameTransaction(k, r) /\ r \in verified[k]
      BY <2>4, <1>6, <1>13, OtherTransaction, Zenon
    <3>2. SameFiles(r)
      BY <1>3 DEF SameFiles
    <3>3. Stable(k, r)
      BY <3>1, Zenon DEF IInv, StableInv
    <3>4. QED
      BY <2>1, <3>1, <3>2, <3>3, <1>6, StableFrame, Zenon
  <2>5. QED
    BY <2>2, <2>3, <2>4, Zenon
<1>14. QED
  BY <1>5, <1>10, <1>11, <1>12, <1>13, Zenon DEF IInv, StableInv

\* The rename of a lock file (commit_ref), which writes a value nobody had, keeps the invariant.
LEMMA CommitRefKeeps ==
  ASSUME IInv, FreshValues, NEW p \in Procs, NEW x \in Refs, CommitRef(p, x)
  PROVE  IInv'
<1>1. TypeOK /\ LockInv(p)
  BY Zenon DEF IInv
<1>2. /\ pc[p] = "commitRefs" /\ UNCHANGED pc
      /\ x \in upd[p]
      /\ loose' = [loose EXCEPT ![x] = val[p]]
      /\ had' = [k \in Refs |-> had[k] \cup {IF loose'[k] # None THEN loose'[k] ELSE packed[k]}]
      /\ unsettled' = unsettled \ {x}
      /\ refLock' = [refLock EXCEPT ![x] = None]
      /\ upd' = [upd EXCEPT ![p] = upd[p] \ {x}]
      /\ verified' = [verified EXCEPT ![p] = verified[p] \ {x}]
      /\ UNCHANGED <<packed, packedLock, kind, queue, todo, del, val, old, inPacked, cur,
                     got>>
  BY Zenon DEF CommitRef, store, locks, txn, reading, history, Goto, Store, Resolve
<1>3. TypeOK'
  <2>1. Store([loose EXCEPT ![x] = val[p]], packed,
              unsettled \ {x})
    BY Zenon DEF CommitRef
  <2>2. /\ [loose EXCEPT ![x] = val[p]] \in [Refs -> Oid]
        /\ packed \in [Refs -> Oid]
        /\ unsettled \ {x} \in SUBSET Refs
    BY <1>1, Zenon DEF TypeOK, Oid
  <2>3. /\ loose' \in [Refs -> Oid] /\ packed' \in [Refs -> Oid]
        /\ had' \in [Refs -> SUBSET Oid] /\ seen' \in [Procs -> SUBSET Oid]
        /\ unsettled' \subseteq Refs
    BY <2>1, <2>2, StoreTypes, Zenon
  <2>4. UNCHANGED reading
    BY Zenon DEF CommitRef
  <2>5. QED
    BY <1>1, <1>2, <2>3, <2>4, Zenon DEF TypeOK, reading, Places
<1>4. \A q \in Procs \ {p} : Untouched(q) /\ KeepsLocks(q)
  <2>1. \A q \in Procs \ {p} : Untouched(q)
    BY <1>1, <1>2, Zenon DEF Untouched, TypeOK
  <2>2. refLock[x] = p
    BY <1>1, <1>2, Zenon DEF LockInv, Locked
  <2>3. \A q \in Procs \ {p} : KeepsLocks(q)
    BY <1>1, <1>2, <2>2, Zenon DEF KeepsLocks, TypeOK
  <2>4. QED
    BY <2>1, <2>3, Zenon
<1>5. /\ upd'[p] = upd[p] \ {x}
      /\ verified'[p] = verified[p] \ {x}
  BY <1>1, <1>2, Zenon DEF TypeOK
<1>6. x \in verified[p] /\ refLock[x] = p /\ \A k \in Procs : x \in verified[k] => k = p
  <2>1. x \in verified[p] /\ refLock[x] = p
    BY <1>1, <1>2, Zenon DEF LockInv, Locked
  <2>2. QED
    BY <2>1, Zenon DEF IInv, LockInv
<1>7. LockInv(p)'
  <2>1. \A r \in verified'[p] : refLock'[r] = p
    BY <1>1, <1>2, <1>5, <1>6, Zenon DEF LockInv, TypeOK
  <2>2. x \notin del[p]
    BY <1>1, <1>2, Zenon DEF LockInv
  <2>3. \A r \in upd'[p] \cup del'[p] : r \in todo'[p] \/ r \in verified'[p]
    BY <2>2, <1>1, <1>2, <1>5, Zenon DEF LockInv
  <2>4. QED
    BY <2>1, <2>3, <1>1, <1>2, <1>5, Zenon DEF LockInv, Reads, Locked, Pruning
<1>8. \A q \in Procs : LockInv(q)'
  BY <1>1, <1>4, <1>7, LockFrame, Zenon DEF IInv
<1>9. ASSUME NEW r \in Refs
      PROVE  ValueInv(r)'
  <2>1. val[p] \in Writes[p] \ had[x] /\ val[p] # None
    BY <1>2, ConstantsOK, Zenon DEF IInv, ValueInv
  <2>2. \A k \in Procs \ {p} : val[p] \notin Writes[k]
    BY <2>1, Zenon DEF FreshValues
  <2>3. ValueInv(r)
    BY Zenon DEF IInv
  <2>4. CASE r = x
    <3>1. loose'[r] = val[p] /\ had'[r] = had[r] \cup {val[p]}
      BY <1>1, <1>2, <2>1, <2>4, Zenon DEF TypeOK
    <3>2. ASSUME NEW q \in Procs
          PROVE  /\ pc'[q] = "idle" => Writes[q] \cap had'[r] = {}
                 /\ r \in upd'[q] => val'[q] \in Writes[q] \ had'[r]
      <4>1. CASE q = p
        BY <4>1, <2>4, <1>2, <1>5, Zenon
      <4>2. CASE q # p
        <5>1. val[p] \notin Writes[q] /\ pc'[q] = pc[q] /\ upd'[q] = upd[q] /\ val'[q] = val[q]
          BY <4>2, <2>2, <1>4, Zenon DEF Untouched
        <5>2. QED
          BY <5>1, <3>1, <2>3, Zenon DEF ValueInv
      <4>3. QED
        BY <4>1, <4>2, Zenon
    <3>3. QED
      BY <1>2, <2>3, <3>1, <3>2, Zenon DEF ValueInv
  <2>5. CASE r # x
    <3>1. loose'[r] = loose[r]
      BY <1>1, <1>2, <2>5, Zenon DEF TypeOK
    <3>2. Resolve(loose', packed, r) \in had[r] \cup {None}
      BY <3>1, <2>3, Zenon DEF ValueInv, Resolve
    <3>3. had[r] \subseteq had'[r] /\ had'[r] \subseteq had[r] \cup {None}
      BY <3>2, <1>2, Zenon DEF Resolve
    <3>4. NoNewValue(p, r)
      BY <2>3, <1>2, <1>5, Zenon DEF NoNewValue, ValueInv
    <3>5. loose'[r] \in had[r] \cup {None} /\ packed'[r] \in had[r] \cup {None}
      BY <2>3, <3>1, <1>2, Zenon DEF ValueInv
    <3>6. QED
      BY <2>3, <3>3, <3>4, <3>5, <1>4, ValueFrame, Zenon
  <2>6. QED
    BY <2>4, <2>5, Zenon
<1>10. ASSUME NEW r \in Refs
      PROVE  PackInv(r)'
  <2>1. PackInv(r) /\ ValueInv(r)
    BY Zenon DEF IInv
  <2>2. CASE r = x
    <3>1. val[p] \notin had[r] /\ val[p] # None
      BY <1>2, <2>1, <2>2, ConstantsOK, Zenon DEF ValueInv
    <3>2. loose'[r] = val[p]
      BY <1>1, <1>2, <2>2, Zenon DEF TypeOK
    <3>3. \A q \in Procs : got[q][r] # val[p]
      BY <3>1, <2>1, Zenon DEF ValueInv
    <3>4. QED
      BY <3>1, <3>2, <3>3, <2>1, <1>2, Zenon DEF PackInv, Pruner, Pruning, Scanning
  <2>3. CASE r # x
    <3>1. SameFiles(r)
      BY <2>3, <1>1, <1>2, Zenon DEF SameFiles, TypeOK
    <3>2. SamePacker(p, r)
      BY <2>1, <1>2, <1>5, Zenon DEF SamePacker, PackInv, Scanning, Pruner, Pruning
    <3>3. QED
      BY <2>1, <3>1, <3>2, <1>4, PackFrame, Zenon
  <2>4. QED
    BY <2>2, <2>3
<1>11. ASSUME NEW r \in Refs, NEW k \in Procs, r \in verified'[k]
      PROVE  Stable(k, r)'
  <2>1. r # x /\ r \in verified[k] /\ SameTransaction(k, r)
    <3>1. CASE k = p
      BY <3>1, <1>2, <1>5, <1>11, Zenon DEF SameTransaction
    <3>2. CASE k # p
      BY <3>2, <1>4, <1>6, <1>11, OtherTransaction, Zenon
    <3>3. QED
      BY <3>1, <3>2, Zenon
  <2>2. SameFiles(r)
    BY <2>1, <1>1, <1>2, Zenon DEF SameFiles, TypeOK
  <2>3. SamePacker(p, r)
    BY <1>2, <1>5, Zenon DEF IInv, SamePacker, PackInv, Scanning, Pruner, Pruning
  <2>4. Stable(k, r)
    BY <2>1, Zenon DEF IInv, StableInv
  <2>5. QED
    BY <2>1, <2>2, <2>3, <2>4, <1>4, StableFrame, Zenon
<1>12. QED
  BY <1>3, <1>8, <1>9, <1>10, <1>11, Zenon DEF IInv, StableInv

\* The rename of packed-refs by a deletion (packed_transaction_finish) keeps the invariant.
LEMMA CommitPackedKeeps ==
  ASSUME IInv, NEW p \in Procs, CommitPacked(p)
  PROVE  IInv'
<1>1. TypeOK /\ LockInv(p)
  BY DEF IInv
<1>2. /\ pc[p] = "commitPacked"
      /\ pc' = [pc EXCEPT ![p] = "unlink"]
      /\ packed' = [k \in Refs |-> IF k \in del[p] THEN None ELSE packed[k]]
      /\ had' = [k \in Refs |-> had[k] \cup {IF loose[k] # None THEN loose[k] ELSE packed'[k]}]
      /\ unsettled' = unsettled \cup {k \in del[p] : loose[k] # None}
      /\ UNCHANGED <<loose, refLock, packedLock, kind, queue, todo, upd, del, val,
                     verified, old, inPacked, cur, got>>
  BY Zenon
    DEF CommitPacked, store, locks, txn, reading, history, Goto, Store, Resolve,
     Without, Loose
<1>3. TypeOK'
  <2>1. Store(loose, [r \in Refs |-> IF r \in del[p] THEN None ELSE packed[r]],
              unsettled \cup {r \in del[p] : loose[r] # None})
    BY Zenon DEF CommitPacked, Without, Loose
  <2>2. /\ loose \in [Refs -> Oid]
        /\ [r \in Refs |-> IF r \in del[p] THEN None ELSE packed[r]] \in [Refs -> Oid]
        /\ unsettled \cup {r \in del[p] : loose[r] # None} \in SUBSET Refs
    BY <1>1, Zenon DEF TypeOK, Oid
  <2>3. /\ loose' \in [Refs -> Oid] /\ packed' \in [Refs -> Oid]
        /\ had' \in [Refs -> SUBSET Oid] /\ seen' \in [Procs -> SUBSET Oid]
        /\ unsettled' \subseteq Refs
    BY <2>1, <2>2, StoreTypes, Zenon
  <2>4. UNCHANGED reading
    BY Zenon DEF CommitPacked
  <2>5. QED
    BY <1>1, <1>2, <2>3, <2>4, Zenon DEF TypeOK, reading, Places
<1>4. \A q \in Procs \ {p} : Untouched(q) /\ KeepsLocks(q)
  <2>1. \A q \in Procs \ {p} : Untouched(q)
    BY <1>1, <1>2, Zenon DEF Untouched, TypeOK
  <2>2. \A q \in Procs \ {p} : KeepsLocks(q)
    BY <1>1, <1>2, ConstantsOK, Zenon DEF KeepsLocks
  <2>3. QED
    BY <2>1, <2>2, Zenon
<1>5. /\ pc'[p] = "unlink"
  BY <1>1, <1>2, Zenon DEF TypeOK
<1>6. LockInv(p)'
  BY <1>1, <1>2, <1>5, Zenon DEF LockInv, Reads, Locked, Pruning
<1>7. \A q \in Procs : LockInv(q)'
  BY <1>1, <1>4, <1>6, LockFrame, Zenon DEF IInv
<1>8. ASSUME NEW r \in Refs
      PROVE  ValueInv(r)'
  <2>1. ValueInv(r)
    BY Zenon DEF IInv
  <2>2. loose'[r] \in had[r] \cup {None} /\ packed'[r] \in had[r] \cup {None}
    BY <2>1, <1>1, <1>2, Zenon DEF ValueInv
  <2>3. had[r] \subseteq had'[r] /\ had'[r] \subseteq had[r] \cup {None}
    BY <2>2, <1>2, Zenon
  <2>4. NoNewValue(p, r)
    BY <2>1, <1>2, <1>5, Zenon DEF NoNewValue, ValueInv
  <2>5. QED
    BY <2>1, <2>2, <2>3, <2>4, <1>4, ValueFrame, Zenon
<1>9. ASSUME NEW r \in Refs
      PROVE  PackInv(r)'
  <2>1. PackInv(r) /\ kind[p] # "pack" /\ packedLock = p
    BY <1>1, <1>2, Zenon DEF IInv, LockInv, Pruning
  <2>2. \A q \in Procs : ~Scanning(q)'
    BY <2>1, <1>4, <1>5, NobodyScans, Zenon
  <2>3. \A q \in Procs : (Pruner(q)' => Pruner(q)) /\ (pc'[q] = "idle" => pc[q] = "idle")
    BY <2>1, <1>4, <1>2, <1>5, Zenon DEF Untouched, Pruner
  <2>4. CASE r \in del[p]
    <3>1. packed'[r] = None /\ (loose[r] # None => r \in unsettled')
      BY <2>4, <1>2, Zenon
    <3>2. QED
      BY <2>1, <2>2, <2>3, <3>1, <1>2, Zenon DEF PackInv, Pruning
  <2>5. CASE r \notin del[p]
    <3>1. packed'[r] = packed[r] /\ (r \in unsettled => r \in unsettled')
      BY <2>5, <1>2, Zenon
    <3>2. QED
      BY <2>1, <2>2, <2>3, <3>1, <1>2, Zenon DEF PackInv, Pruning
  <2>6. QED
    BY <2>4, <2>5, Zenon
<1>10. ASSUME NEW r \in Refs, NEW k \in Procs, r \in verified'[k]
      PROVE  Stable(k, r)'
  <2>1. r \in verified[k] /\ (r \in unsettled => r \in unsettled') /\ Stable(k, r)
    BY <1>2, <1>10, Zenon DEF IInv, StableInv
  <2>2. \A q \in Procs : Scanning(q)' => Scanning(q)
    BY <1>4, <1>2, <1>5, Zenon DEF Untouched, Scanning
  <2>3. CASE k # p
    <3>1. r \notin del[p]
      <4>1. r \in del[p] => r \in verified[p]
        BY <1>1, <1>2, Zenon DEF LockInv, Locked
      <4>2. QED
        BY <4>1, <2>1, <2>3, <1>1, ZenonT(40) DEF IInv, LockInv
    <3>2. packed'[r] = packed[r] /\ pc'[k] = pc[k]
      BY <3>1, <2>3, <1>2, <1>4, Zenon DEF Untouched
    <3>3. QED
      BY <2>1, <2>2, <3>2, <1>2, Zenon DEF Stable, StillAsRead, Visible, Resolve, Pruning
  <2>4. CASE k = p
    <3>1. pc'[k] = "unlink" /\ pc[k] \in Before /\ ~Pruning(k)
      BY <2>4, <1>1, <1>2, <1>5, Zenon DEF Before, LockInv
    <3>2. r \in del[k] => packed'[r] = None
      BY <2>4, <1>2, Zenon
    <3>3. loose[r] # None => StillAsRead(k, r)'
      BY <2>1, <3>1, <1>2, Zenon DEF Stable, StillAsRead, Visible, Resolve
    <3>4. QED
      BY <2>1, <3>1, <3>2, <3>3, <1>2, Zenon DEF Stable, Before, Pruning
  <2>5. QED
    BY <2>3, <2>4, Zenon
<1>11. QED
  BY <1>3, <1>7, <1>8, <1>9, <1>10, Zenon DEF IInv, StableInv

\* The unlink of a loose file (files_transaction_finish) keeps the invariant.
LEMMA UnlinkLooseKeeps ==
  ASSUME IInv, NEW p \in Procs, NEW x \in Refs, UnlinkLoose(p, x)
  PROVE  IInv'
<1>1. TypeOK /\ LockInv(p)
  BY Zenon DEF IInv
<1>2. /\ pc[p] = "unlink" /\ UNCHANGED pc
      /\ x \in del[p]
      /\ loose' = IF x \in inPacked[p] THEN loose ELSE [loose EXCEPT ![x] = None]
      /\ had' = [k \in Refs |-> had[k] \cup {IF loose'[k] # None THEN loose'[k] ELSE packed[k]}]
      /\ unsettled' = IF kind[p] = "pack" THEN unsettled ELSE unsettled \ {x}
      /\ del' = [del EXCEPT ![p] = del[p] \ {x}]
      /\ UNCHANGED <<packed, refLock, packedLock, kind, queue, todo, upd, val, verified,
                     old, inPacked, cur, got>>
  <2>1. pc[p] = "unlink" /\ UNCHANGED pc /\ x \in del[p]
    BY Zenon DEF UnlinkLoose
  <2>2. Store(IF x \in inPacked[p] THEN loose ELSE [loose EXCEPT ![x] = None], packed,
              IF kind[p] = "pack" THEN unsettled ELSE unsettled \ {x})
    BY Zenon DEF UnlinkLoose, Pruning
  <2>3. /\ loose' = IF x \in inPacked[p] THEN loose ELSE [loose EXCEPT ![x] = None]
        /\ unsettled' = IF kind[p] = "pack" THEN unsettled ELSE unsettled \ {x}
        /\ UNCHANGED packed
    BY <2>2, Zenon DEF Store
  <2>4. had' = [k \in Refs |-> had[k] \cup {IF loose'[k] # None THEN loose'[k] ELSE packed[k]}]
    BY <2>2, <2>3, Zenon DEF Store, Resolve
  <2>5. del' = [del EXCEPT ![p] = del[p] \ {x}]
    BY Zenon DEF UnlinkLoose
  <2>6. UNCHANGED <<locks, kind, queue, todo, upd, val, verified, old, inPacked, cur,
                    got>>
    BY Zenon DEF UnlinkLoose
  <2>7. QED
    BY <2>1, <2>3, <2>4, <2>5, <2>6, Zenon DEF locks
<1>3. TypeOK'
  <2>1. Store((IF x \in inPacked[p] THEN loose ELSE [loose EXCEPT ![x] = None]), packed,
              (IF kind[p] = "pack" THEN unsettled ELSE unsettled \ {x}))
    BY Zenon DEF UnlinkLoose, Pruning
  <2>2. /\ (IF x \in inPacked[p] THEN loose ELSE [loose EXCEPT ![x] = None]) \in [Refs -> Oid]
        /\ packed \in [Refs -> Oid]
        /\ (IF kind[p] = "pack" THEN unsettled ELSE unsettled \ {x}) \in SUBSET Refs
    BY <1>1, Zenon DEF TypeOK, Oid
  <2>3. /\ loose' \in [Refs -> Oid] /\ packed' \in [Refs -> Oid]
        /\ had' \in [Refs -> SUBSET Oid] /\ seen' \in [Procs -> SUBSET Oid]
        /\ unsettled' \subseteq Refs
    BY <2>1, <2>2, StoreTypes, Zenon
  <2>4. UNCHANGED reading
    BY Zenon DEF UnlinkLoose
  <2>5. QED
    BY <1>1, <1>2, <2>3, <2>4, Zenon DEF TypeOK, reading, Places
<1>4. \A q \in Procs \ {p} : Untouched(q) /\ KeepsLocks(q)
  <2>1. \A q \in Procs \ {p} : Untouched(q)
    BY <1>1, <1>2, Zenon DEF Untouched, TypeOK
  <2>2. \A q \in Procs \ {p} : KeepsLocks(q)
    BY <1>1, <1>2, ConstantsOK, Zenon DEF KeepsLocks
  <2>3. QED
    BY <2>1, <2>2, Zenon
<1>5. /\ del'[p] = del[p] \ {x}
  BY <1>1, <1>2, Zenon DEF TypeOK
<1>6. x \in verified[p] /\ refLock[x] = p /\ \A k \in Procs : x \in verified[k] => k = p
  <2>1. x \in verified[p] /\ refLock[x] = p
    BY <1>1, <1>2, Zenon DEF LockInv, Locked
  <2>2. QED
    BY <2>1, ZenonT(40) DEF IInv, LockInv
<1>7. LockInv(p)'
  BY <1>1, <1>2, <1>5, Zenon DEF LockInv, Reads, Locked, Pruning
<1>8. \A q \in Procs : LockInv(q)'
  BY <1>1, <1>4, <1>7, LockFrame, Zenon DEF IInv
<1>9. ASSUME NEW r \in Refs
      PROVE  ValueInv(r)'
  <2>1. ValueInv(r)
    BY Zenon DEF IInv
  <2>2. loose'[r] \in had[r] \cup {None} /\ packed'[r] \in had[r] \cup {None}
    BY <2>1, <1>1, <1>2, Zenon DEF ValueInv, TypeOK
  <2>3. had[r] \subseteq had'[r] /\ had'[r] \subseteq had[r] \cup {None}
    BY <2>2, <1>2, Zenon
  <2>4. NoNewValue(p, r)
    BY <2>1, <1>2, <1>5, Zenon DEF NoNewValue, ValueInv
  <2>5. QED
    BY <2>1, <2>2, <2>3, <2>4, <1>4, ValueFrame, Zenon
<1>10. ASSUME NEW r \in Refs
      PROVE  PackInv(r)'
  <2>1. PackInv(r)
    BY Zenon DEF IInv
  <2>2. CASE r # x
    <3>1. SameFiles(r)
      BY <2>2, <1>1, <1>2, Zenon DEF SameFiles, TypeOK
    <3>2. SamePacker(p, r)
      BY <2>1, <1>2, <1>5, Zenon DEF SamePacker, PackInv, Scanning, Pruner, Pruning
    <3>3. QED
      BY <2>1, <3>1, <3>2, <1>4, PackFrame, Zenon
  <2>3. CASE r = x
    <3>1. Stable(p, r)
      BY <2>3, <1>6, Zenon DEF IInv, StableInv
    <3>2. loose'[r] = None
      BY <2>3, <3>1, <1>1, <1>2, Zenon DEF Stable, TypeOK
    <3>3. ASSUME NEW q \in Procs, Scanning(q), got[q][r] # None
          PROVE  packed[r] = got[q][r] \/ (r \in unsettled' /\ packed[r] = None)
      <4>1. packedLock = q /\ q # p
        BY <3>3, <1>2, Zenon DEF IInv, LockInv, Scanning
      <4>2. Pruning(p) /\ Pruner(p)
        BY <4>1, <1>1, <1>2, Zenon DEF LockInv, Pruning, Pruner
      <4>3. got[p][r] # None /\ unsettled' = unsettled
        BY <4>2, <2>1, <2>3, <1>2, Zenon DEF PackInv, Pruning
      <4>4. CASE loose[r] = None
        BY <4>3, <4>4, <2>1, <3>3, Zenon DEF PackInv
      <4>5. CASE loose[r] # None
        <5>1. loose[r] = got[p][r]
          BY <4>2, <4>3, <4>5, <3>1, <1>2, Zenon DEF Stable, StillAsRead, Visible, Resolve
        <5>2. packed[r] = loose[r] \/ (r \in unsettled /\ packed[r] = None)
          BY <4>2, <4>3, <5>1, <2>1, ZenonT(40) DEF PackInv
        <5>3. got[q][r] = loose[r]
          BY <4>2, <4>3, <5>1, <2>1, <3>3, Zenon DEF PackInv
        <5>4. QED
          BY <5>2, <5>3, <4>3, Zenon
      <4>6. QED
        BY <4>4, <4>5, Zenon
    <3>4. \A q \in Procs : r \in del'[q] => r \in del[q]
      BY <1>4, <1>5, Zenon DEF Untouched
    <3>5. QED
      BY <2>1, <3>2, <3>3, <3>4, <1>2, Zenon DEF PackInv, Pruner, Pruning, Scanning
  <2>4. QED
    BY <2>2, <2>3, Zenon
<1>11. ASSUME NEW r \in Refs, NEW k \in Procs, r \in verified'[k]
      PROVE  Stable(k, r)'
  <2>1. r \in verified[k] /\ (r \in del'[k] => r \in del[k])
    BY <1>4, <1>2, <1>5, <1>11, Zenon DEF Untouched
  <2>2. Stable(k, r)
    BY <2>1, Zenon DEF IInv, StableInv
  <2>3. CASE r = x
    <3>1. k = p /\ pc[k] = "unlink"
      BY <2>1, <2>3, <1>6, <1>2, Zenon
    <3>2. loose'[r] = None
      BY <2>2, <2>3, <3>1, <1>1, <1>2, Zenon DEF Stable, TypeOK
    <3>3. QED
      BY <2>1, <2>2, <3>1, <3>2, <1>2, Zenon DEF Stable, Before, Pruning
  <2>4. CASE r # x
    <3>1. SameFiles(r)
      BY <2>4, <1>1, <1>2, Zenon DEF SameFiles, TypeOK
    <3>2. SamePacker(p, r)
      BY <1>2, <1>5, ZenonT(40) DEF IInv, SamePacker, PackInv, Scanning, Pruner, Pruning
    <3>3. SameTransaction(k, r)
      BY <2>1, <1>2, Zenon DEF SameTransaction
    <3>4. QED
      BY <2>2, <3>1, <3>2, <3>3, <1>4, StableFrame, Zenon
  <2>5. QED
    BY <2>3, <2>4, Zenon
<1>12. QED
  BY <1>3, <1>8, <1>9, <1>10, <1>11, Zenon DEF IInv, StableInv

\* Reading a reference to be packed (loose_fill_ref_dir) keeps the invariant.
LEMMA PackResolveKeeps ==
  ASSUME IInv, NEW p \in Procs, PackResolve(p)
  PROVE  IInv'
<1>1. TypeOK /\ LockInv(p)
  BY DEF IInv
<1>2. PICK c \in Refs : c = cur[p]
  BY <1>1, Zenon DEF LockInv, Reads, PackResolve
<1>3. /\ pc[p] = "packResolve"
      /\ pc' = [pc EXCEPT ![p] = "packScan"]
      /\ got' = [got EXCEPT ![p][c] = Visible(c)]
      /\ UNCHANGED <<loose, packed, refLock, packedLock, kind, queue, todo, upd, del,
                     val, verified, old, inPacked, cur, had, unsettled>>
  BY <1>2, Zenon DEF PackResolve, store, locks, txn, reading, history, Goto
<1>4. TypeOK'
  <2>1. UNCHANGED <<tries, result, seen>>
    BY Zenon DEF PackResolve, reading, history
  <2>2. pc' \in [Procs -> Places]
    BY <1>1, <1>3, Zenon DEF TypeOK, Places
  <2>3. Visible(c) \in Oid
    BY <1>1 DEF TypeOK, Visible, Resolve
  <2>4. QED
    BY <1>1, <1>3, <2>1, <2>2, <2>3, Zenon DEF TypeOK
<1>5. \A q \in Procs \ {p} : Untouched(q) /\ KeepsLocks(q)
  <2>1. \A q \in Procs \ {p} : Untouched(q)
    BY <1>1, <1>3, Zenon DEF Untouched, TypeOK
  <2>2. \A q \in Procs \ {p} : KeepsLocks(q)
    BY <1>1, <1>3, ConstantsOK, Zenon DEF KeepsLocks
  <2>3. QED
    BY <2>1, <2>2
<1>6. /\ pc'[p] = "packScan"
      /\ got'[p][c] = Visible(c)
  BY <1>1, <1>3, Zenon DEF TypeOK
<1>7. LockInv(p)'
  BY <1>1, <1>3, <1>6, Zenon DEF LockInv, Reads, Locked, Pruning
<1>8. \A q \in Procs : LockInv(q)'
  BY <1>1, <1>5, <1>7, LockFrame DEF IInv
<1>9. ASSUME NEW r \in Refs
      PROVE  ValueInv(r)'
  <2>1. ValueInv(r)
    BY DEF IInv
  <2>2. loose'[r] \in had[r] \cup {None} /\ packed'[r] \in had[r] \cup {None}
    BY <2>1, <1>3, Zenon DEF ValueInv
  <2>3. had[r] \subseteq had'[r] /\ had'[r] \subseteq had[r] \cup {None}
    BY <2>2, <1>3, Zenon
  <2>4. got'[p][r] \in had[r] \cup {None}
    <3>1. CASE r = c
      BY <3>1, <2>1, <1>6, Zenon DEF ValueInv, Visible, Resolve
    <3>2. CASE r # c
      BY <3>2, <2>1, <1>1, <1>3, Zenon DEF ValueInv, TypeOK
    <3>3. QED
      BY <3>1, <3>2, Zenon
  <2>5. NoNewValue(p, r)
    BY <2>1, <2>4, <1>3, <1>6, Zenon DEF NoNewValue, ValueInv
  <2>6. QED
    BY <2>1, <2>2, <2>3, <2>5, <1>5, ValueFrame, Zenon
<1>10. ASSUME NEW r \in Refs
      PROVE  PackInv(r)'
  <2>1. PackInv(r)
    BY DEF IInv
  <2>2. Scanning(p) /\ Scanning(p)' /\ ~Pruner(p) /\ ~Pruner(p)'
    BY <1>3, <1>6, Zenon DEF Scanning, Pruner
  <2>3. CASE r # c
    <3>1. SameFiles(r)
      BY <1>3, Zenon DEF SameFiles
    <3>2. got'[p][r] = got[p][r] /\ del[p] = {}
      BY <2>3, <1>1, <1>3, Zenon DEF TypeOK, LockInv
    <3>3. SamePacker(p, r)
      BY <2>2, <3>2, <1>3, <1>6, Zenon DEF SamePacker
    <3>4. QED
      BY <2>1, <3>1, <3>3, <1>5, PackFrame
  <2>4. CASE r = c
    <3>1. got'[p][r] = IF loose[r] # None THEN loose[r] ELSE packed[r]
      BY <2>4, <1>6, Zenon DEF Visible, Resolve
    <3>2. \A q \in Procs \ {p} : /\ got'[q] = got[q] /\ pc'[q] = pc[q]
                              /\ (Scanning(q)' <=> Scanning(q)) /\ (Pruner(q)' <=> Pruner(q))
      BY <1>5, <1>3, Zenon DEF Untouched, Scanning, Pruner
    <3>3. kind[p] = "pack" /\ del[p] = {} /\ pc'[p] # "idle"
      BY <1>1, <1>3, <1>6, Zenon DEF LockInv
    <3>4. \A q \in Procs : pc'[q] = "idle" => got'[q][r] = None
      BY <2>1, <3>2, <3>3, Zenon DEF PackInv
    <3>5. \A q \in Procs : got'[q][r] # None => kind'[q] = "pack"
      BY <2>1, <3>2, <3>3, <1>3, Zenon DEF PackInv
    <3>6. \A q \in Procs : r \in del'[q] /\ Pruning(q)' => got'[q][r] # None
      BY <2>1, <3>2, <3>3, <1>3, Zenon DEF PackInv, Pruning
    <3>7. \A q \in Procs : r \in queue'[q] /\ Pruner(q)' => got'[q][r] # None
      BY <2>1, <2>2, <3>2, <1>3, Zenon DEF PackInv
    <3>8. ASSUME NEW a \in Procs, Pruner(a)', got'[a][r] # None, loose'[r] = got'[a][r]
          PROVE  /\ packed'[r] = loose'[r] \/ (r \in unsettled' /\ packed'[r] = None)
                 /\ \A q \in Procs : Scanning(q)' /\ got'[q][r] # None => got'[q][r] = loose'[r]
      <4>1. a # p /\ got[a][r] = got'[a][r] /\ Pruner(a)
        BY <2>2, <3>2, <3>8, Zenon
      <4>2. QED
        BY <4>1, <2>1, <2>2, <3>1, <3>2, <3>8, <1>3 DEF PackInv
    <3>9. \A q \in Procs : Scanning(q)' /\ got'[q][r] # None /\ loose'[r] = None =>
            packed'[r] = got'[q][r] \/ (r \in unsettled' /\ packed'[r] = None)
      BY <2>1, <3>1, <3>2, <1>3, Zenon DEF PackInv
    <3>10. QED
      BY <3>4, <3>5, <3>6, <3>7, <3>8, <3>9, Zenon DEF PackInv
  <2>5. QED
    BY <2>3, <2>4, Zenon
<1>11. ASSUME NEW r \in Refs, NEW k \in Procs, r \in verified'[k]
      PROVE  Stable(k, r)'
  <2>1. r \in verified[k] /\ k # p
    BY <1>1, <1>3, <1>11, Zenon DEF LockInv
  <2>2. Stable(k, r) /\ pc'[k] = pc[k] /\ got'[k] = got[k]
    BY <2>1, <1>5, Zenon DEF IInv, StableInv, Untouched
  <2>3. StillAsRead(k, r)' <=> StillAsRead(k, r)
    BY <1>3, Zenon DEF StillAsRead, Visible, Resolve
  <2>4. ASSUME NEW q \in Procs, Scanning(q)', loose[r] = None, packed[r] = None,
               \A s \in Procs : Scanning(s) => got[s][r] = None
        PROVE  got'[q][r] = None
    <3>1. CASE q = p /\ r = c
      BY <3>1, <2>4, <1>6, Zenon DEF Visible, Resolve
    <3>2. CASE q = p /\ r # c
      BY <3>2, <2>4, <1>1, <1>3, Zenon DEF Scanning, TypeOK
    <3>3. CASE q # p
      BY <3>3, <2>4, <1>5, Zenon DEF Scanning, Untouched
    <3>4. QED
      BY <3>1, <3>2, <3>3, Zenon
  <2>5. QED
    BY <2>2, <2>3, <2>4, <1>3, Zenon DEF Stable, Pruning
<1>12. QED
  BY <1>4, <1>8, <1>9, <1>10, <1>11 DEF IInv, StableInv

\* The rename of packed-refs by a packer keeps the invariant.
LEMMA PackCommitKeeps ==
  ASSUME IInv, NEW p \in Procs, PackCommit(p)
  PROVE  IInv'
<1>1. TypeOK /\ LockInv(p)
  BY DEF IInv
<1>2. /\ pc[p] = "packScan"
      /\ pc' = [pc EXCEPT ![p] = "packUnlock"]
      /\ packed' = [k \in Refs |-> IF got[p][k] # None THEN got[p][k] ELSE packed[k]]
      /\ had' = [k \in Refs |-> had[k] \cup {IF loose[k] # None THEN loose[k] ELSE packed'[k]}]
      /\ queue' = [queue EXCEPT ![p] = {k \in Refs : got[p][k] # None}]
      /\ UNCHANGED <<loose, refLock, packedLock, kind, todo, upd, del, val, verified,
                     old, inPacked, cur, got, unsettled>>
  BY Zenon DEF PackCommit, store, locks, txn, reading, history, Goto, Store, Resolve, Packed
<1>3. TypeOK'
  <2>1. Store(loose, [r \in Refs |-> IF r \in Packed(p) THEN got[p][r] ELSE packed[r]],
              unsettled)
    BY Zenon DEF PackCommit
  <2>2. /\ loose \in [Refs -> Oid]
        /\ [r \in Refs |-> IF r \in Packed(p) THEN got[p][r] ELSE packed[r]] \in [Refs -> Oid]
        /\ unsettled \in SUBSET Refs
    BY <1>1 DEF TypeOK, Oid
  <2>3. /\ loose' \in [Refs -> Oid] /\ packed' \in [Refs -> Oid]
        /\ had' \in [Refs -> SUBSET Oid] /\ seen' \in [Procs -> SUBSET Oid]
        /\ unsettled' \subseteq Refs
    BY <2>1, <2>2, StoreTypes, Zenon
  <2>4. UNCHANGED reading
    BY Zenon DEF PackCommit
  <2>5. QED
    BY <1>1, <1>2, <2>3, <2>4, Zenon DEF TypeOK, reading, Places
<1>4. \A q \in Procs \ {p} : Untouched(q) /\ KeepsLocks(q)
  <2>1. \A q \in Procs \ {p} : Untouched(q)
    BY <1>1, <1>2, Zenon DEF Untouched, TypeOK
  <2>2. \A q \in Procs \ {p} : KeepsLocks(q)
    BY <1>1, <1>2, ConstantsOK, Zenon DEF KeepsLocks
  <2>3. QED
    BY <2>1, <2>2
<1>5. /\ pc'[p] = "packUnlock"
      /\ queue'[p] = {k \in Refs : got[p][k] # None}
  BY <1>1, <1>2, Zenon DEF TypeOK
<1>6. LockInv(p)'
  BY <1>1, <1>2, <1>5, Zenon DEF LockInv, Reads, Locked, Pruning
<1>7. \A q \in Procs : LockInv(q)'
  BY <1>1, <1>4, <1>6, LockFrame DEF IInv
<1>8. ASSUME NEW r \in Refs
      PROVE  ValueInv(r)'
  <2>1. ValueInv(r)
    BY DEF IInv
  <2>2. loose'[r] \in had[r] \cup {None} /\ packed'[r] \in had[r] \cup {None}
    BY <2>1, <1>1, <1>2, Zenon DEF ValueInv
  <2>3. had[r] \subseteq had'[r] /\ had'[r] \subseteq had[r] \cup {None}
    BY <2>2, <1>2, Zenon
  <2>4. NoNewValue(p, r)
    BY <2>1, <1>2, <1>5, Zenon DEF NoNewValue, ValueInv
  <2>5. QED
    BY <2>1, <2>2, <2>3, <2>4, <1>4, ValueFrame
<1>9. ASSUME NEW r \in Refs
      PROVE  PackInv(r)'
  <2>1. PackInv(r) /\ packedLock = p /\ kind[p] = "pack" /\ Scanning(p) /\ del[p] = {}
    BY <1>1, <1>2, Zenon DEF IInv, LockInv, Scanning
  <2>2. \A q \in Procs : ~Scanning(q)'
    BY <2>1, <1>4, <1>5, NobodyScans, Zenon
  <2>3. \A q \in Procs \ {p} :
          (Pruner(q)' <=> Pruner(q)) /\ queue'[q] = queue[q] /\ pc'[q] = pc[q]
    BY <1>4, Zenon DEF Untouched, Pruner
  <2>4. \A q \in Procs : r \in queue'[q] /\ Pruner(q)' => got'[q][r] # None
    BY <2>1, <2>3, <1>2, <1>5, Zenon DEF PackInv
  <2>5. ASSUME NEW a \in Procs, Pruner(a)', got[a][r] # None, loose[r] = got[a][r]
        PROVE  packed'[r] = loose[r] \/ (r \in unsettled /\ packed'[r] = None)
    <3>1. CASE got[p][r] # None
      <4>1. packed'[r] = got[p][r]
        BY <3>1, <1>2, Zenon
      <4>2. a # p => got[p][r] = loose[r]
        BY <2>1, <2>3, <2>5, <3>1, Zenon DEF PackInv
      <4>3. QED
        BY <4>1, <4>2, <2>5, Zenon
    <3>2. CASE got[p][r] = None
      <4>1. packed'[r] = packed[r] /\ a # p
        BY <3>2, <2>5, <1>2, Zenon
      <4>2. QED
        BY <4>1, <2>1, <2>3, <2>5, Zenon DEF PackInv
    <3>3. QED
      BY <3>1, <3>2, Zenon
  <2>6. \A q \in Procs : pc'[q] = "idle" => pc[q] = "idle"
    BY <2>3, <1>5, Zenon
  <2>7. QED
    BY <2>1, <2>2, <2>4, <2>5, <2>6, <1>2, Zenon DEF PackInv, Pruning
<1>10. ASSUME NEW r \in Refs, NEW k \in Procs, r \in verified'[k]
      PROVE  Stable(k, r)'
  <2>1. r \in verified[k] /\ k # p
    BY <1>1, <1>2, <1>10, Zenon DEF LockInv
  <2>2. Stable(k, r) /\ PackInv(r) /\ pc'[k] = pc[k]
    BY <2>1, <1>4, Zenon DEF IInv, StableInv, Untouched
  <2>3. Scanning(p) /\ packedLock = p
    BY <1>1, <1>2, Zenon DEF Scanning, LockInv
  <2>4. \A q \in Procs : ~Scanning(q)'
    BY <2>3, <1>4, <1>5, NobodyScans, Zenon
  <2>5. CASE got[p][r] = None \/ packed[r] = got[p][r]
    <3>1. packed'[r] = packed[r]
      BY <2>5, <1>2, Zenon
    <3>2. StillAsRead(k, r)' <=> StillAsRead(k, r)
      BY <3>1, <1>2, Zenon DEF StillAsRead, Visible, Resolve
    <3>3. QED
      BY <2>2, <2>4, <3>1, <3>2, <1>2, Zenon DEF Stable, Pruning
  <2>6. CASE got[p][r] # None /\ packed[r] # got[p][r]
    <3>1. packed'[r] = got[p][r]
      BY <2>6, <1>2, ZenonT(40)
    <3>2. ~(pc[k] = "unlink" /\ ~Pruning(k) /\ r \in del[k])
      BY <2>1, <2>3, Zenon DEF IInv, LockInv
    <3>3. StillAsRead(k, r) /\ loose[r] # None => StillAsRead(k, r)'
      BY <3>1, <1>2, Zenon DEF StillAsRead, Visible, Resolve
    <3>4. StillAsRead(k, r) /\ loose[r] = None /\ pc[k] \in Before => StillAsRead(k, r)'
      <4>1. loose[r] = None => r \in unsettled /\ packed[r] = None
        BY <2>2, <2>3, <2>6, ZenonT(40) DEF PackInv
      <4>2. loose[r] = None /\ pc[k] \in Before => old[k][r] = None
        BY <4>1, <2>2, <2>3, <2>6, Zenon DEF Stable
      <4>3. QED
        BY <4>1, <4>2, <1>2, Zenon DEF StillAsRead
    <3>5. QED
      BY <2>2, <2>4, <3>2, <3>3, <3>4, <1>2, Zenon DEF Stable, Pruning
  <2>7. QED
    BY <2>5, <2>6, Zenon
<1>11. QED
  BY <1>3, <1>7, <1>8, <1>9, <1>10 DEF IInv, StableInv

\* The rename of packed-refs in files_delete_refs keeps the invariant.
LEMMA DeletePackedKeeps ==
  ASSUME IInv, NEW p \in Procs, DeletePacked(p)
  PROVE  IInv'
<1>1. TypeOK /\ LockInv(p)
  BY DEF IInv
<1>2. /\ pc[p] = "deletePacked"
      /\ pc' = [pc EXCEPT ![p] = "deleteUnlock"]
      /\ packed' = [k \in Refs |-> IF k \in queue[p] THEN None ELSE packed[k]]
      /\ had' = [k \in Refs |-> had[k] \cup {IF loose[k] # None THEN loose[k] ELSE packed'[k]}]
      /\ unsettled' = unsettled \cup {k \in queue[p] : loose[k] # None}
                                 \cup {k \in queue[p] : refLock[k] # None}
      /\ UNCHANGED <<loose, refLock, packedLock, kind, queue, todo, upd, del, val,
                     verified, old, inPacked, cur, got>>
  BY Zenon
    DEF DeletePacked, store, locks, txn, reading, history, Goto, Store, Resolve,
     Without, Loose
<1>3. TypeOK'
  <2>1. Store(loose, [r \in Refs |-> IF r \in queue[p] THEN None ELSE packed[r]],
              unsettled \cup {r \in queue[p] : loose[r] # None}
                        \cup {r \in queue[p] : refLock[r] # None})
    BY Zenon DEF DeletePacked, Without, Loose
  <2>2. /\ loose \in [Refs -> Oid]
        /\ [r \in Refs |-> IF r \in queue[p] THEN None ELSE packed[r]] \in [Refs -> Oid]
        /\ unsettled \cup {r \in queue[p] : loose[r] # None}
                        \cup {r \in queue[p] : refLock[r] # None} \in SUBSET Refs
    BY <1>1, Zenon DEF TypeOK, Oid
  <2>3. /\ loose' \in [Refs -> Oid] /\ packed' \in [Refs -> Oid]
        /\ had' \in [Refs -> SUBSET Oid] /\ seen' \in [Procs -> SUBSET Oid]
        /\ unsettled' \subseteq Refs
    BY <2>1, <2>2, StoreTypes, Zenon
  <2>4. UNCHANGED reading
    BY Zenon DEF DeletePacked
  <2>5. QED
    BY <1>1, <1>2, <2>3, <2>4, Zenon DEF TypeOK, reading, Places
<1>4. \A q \in Procs \ {p} : Untouched(q) /\ KeepsLocks(q)
  <2>1. \A q \in Procs \ {p} : Untouched(q)
    BY <1>1, <1>2, Zenon DEF Untouched, TypeOK
  <2>2. \A q \in Procs \ {p} : KeepsLocks(q)
    BY <1>1, <1>2, ConstantsOK, Zenon DEF KeepsLocks
  <2>3. QED
    BY <2>1, <2>2
<1>5. /\ pc'[p] = "deleteUnlock"
  BY <1>1, <1>2, Zenon DEF TypeOK
<1>6. LockInv(p)'
  BY <1>1, <1>2, <1>5, Zenon DEF LockInv, Reads, Locked, Pruning
<1>7. \A q \in Procs : LockInv(q)'
  BY <1>1, <1>4, <1>6, LockFrame DEF IInv
<1>8. ASSUME NEW r \in Refs
      PROVE  ValueInv(r)'
  <2>1. ValueInv(r)
    BY DEF IInv
  <2>2. loose'[r] \in had[r] \cup {None} /\ packed'[r] \in had[r] \cup {None}
    BY <2>1, <1>1, <1>2, Zenon DEF ValueInv
  <2>3. had[r] \subseteq had'[r] /\ had'[r] \subseteq had[r] \cup {None}
    BY <2>2, <1>2, Zenon
  <2>4. NoNewValue(p, r)
    BY <2>1, <1>2, <1>5, Zenon DEF NoNewValue, ValueInv
  <2>5. QED
    BY <2>1, <2>2, <2>3, <2>4, <1>4, ValueFrame
<1>9. ASSUME NEW r \in Refs
      PROVE  PackInv(r)'
  <2>1. PackInv(r) /\ kind[p] = "delete" /\ packedLock = p
    BY <1>1, <1>2, ZenonT(40) DEF IInv, LockInv
  <2>2. \A q \in Procs : ~Scanning(q)'
    BY <2>1, <1>4, <1>5, NobodyScans, Zenon
  <2>3. \A q \in Procs : (Pruner(q)' => Pruner(q)) /\ (pc'[q] = "idle" => pc[q] = "idle")
    BY <2>1, <1>4, <1>2, <1>5, Zenon DEF Untouched, Pruner
  <2>4. CASE r \in queue[p]
    <3>1. packed'[r] = None /\ (loose[r] # None => r \in unsettled')
      BY <2>4, <1>2, Zenon
    <3>2. QED
      BY <2>1, <2>2, <2>3, <3>1, <1>2, Zenon DEF PackInv, Pruning
  <2>5. CASE r \notin queue[p]
    <3>1. packed'[r] = packed[r] /\ (r \in unsettled => r \in unsettled')
      BY <2>5, <1>2, Zenon
    <3>2. QED
      BY <2>1, <2>2, <2>3, <3>1, <1>2, Zenon DEF PackInv, Pruning
  <2>6. QED
    BY <2>4, <2>5
<1>10. ASSUME NEW r \in Refs, NEW k \in Procs, r \in verified'[k]
      PROVE  Stable(k, r)'
  <2>1. r \in verified[k] /\ k # p
    BY <1>1, <1>2, <1>10, Zenon DEF LockInv
  <2>2. Stable(k, r) /\ refLock[r] = k /\ pc'[k] = pc[k]
    BY <2>1, <1>4, Zenon DEF IInv, LockInv, StableInv, Untouched
  <2>3. \A q \in Procs : ~Scanning(q)'
    <3>1. packedLock = p
      BY <1>1, <1>2, Zenon DEF LockInv
    <3>2. QED
      BY <3>1, <1>4, <1>5, NobodyScans, Zenon
  <2>4. CASE r \in queue[p]
    <3>1. packed'[r] = None /\ r \in unsettled'
      BY <2>2, <2>4, <1>2, ConstantsOK, Zenon
    <3>2. StillAsRead(k, r) => StillAsRead(k, r)'
      BY <3>1, <1>2, Zenon DEF StillAsRead, Visible, Resolve
    <3>3. QED
      BY <2>2, <2>3, <3>1, <3>2, <1>2, Zenon DEF Stable, Pruning
  <2>5. CASE r \notin queue[p]
    <3>1. packed'[r] = packed[r] /\ (r \in unsettled => r \in unsettled')
      BY <2>5, <1>2, Zenon
    <3>2. StillAsRead(k, r) => StillAsRead(k, r)'
      BY <3>1, <1>2, Zenon DEF StillAsRead, Visible, Resolve
    <3>3. QED
      BY <2>2, <2>3, <3>1, <3>2, <1>2, Zenon DEF Stable, Pruning
  <2>6. QED
    BY <2>4, <2>5, Zenon
<1>11. QED
  BY <1>3, <1>7, <1>8, <1>9, <1>10 DEF IInv, StableInv
-----------------------------------------------------------------------------
(* The invariant holds.                                                    *)

\* The invariant holds at the start.
LEMMA InitInv ==
  ASSUME FreshValues, Init
  PROVE  IInv
<1>1. TypeOK
  <2>1. /\ loose \in [Refs -> Oid] /\ packed \in [Refs -> Oid]
        /\ had \in [Refs -> SUBSET Oid]
    BY ConstantsOK, Zenon DEF Init, InitMemory, Oid
  <2>2. pc \in [Procs -> Places] /\ kind \in [Procs -> AllKinds \cup {"none"}]
    BY Zenon DEF Init, InitMemory, Places
  <2>3. /\ refLock \in [Refs -> Procs \cup {None}] /\ packedLock \in Procs \cup {None}
        /\ queue \in [Procs -> SUBSET Refs] /\ todo \in [Procs -> SUBSET Refs]
        /\ upd \in [Procs -> SUBSET Refs] /\ del \in [Procs -> SUBSET Refs]
        /\ cur \in [Procs -> Refs \cup {None}]
        /\ verified \in [Procs -> SUBSET Refs] /\ inPacked \in [Procs -> SUBSET Refs]
    BY Zenon DEF Init, InitMemory
  <2>4. /\ val \in [Procs -> Oid] /\ result \in [Procs -> Oid]
        /\ old \in [Procs -> [Refs -> Oid]] /\ got \in [Procs -> [Refs -> Oid]]
        /\ seen \in [Procs -> SUBSET Oid] /\ unsettled \subseteq Refs
    BY Zenon DEF Init, InitMemory, Oid
  <2>5. tries \in [Procs -> Int]
    BY DEF Init, InitMemory
  <2>6. QED
    BY <2>1, <2>2, <2>3, <2>4, <2>5, Zenon DEF TypeOK
<1>2. ASSUME NEW p \in Procs
      PROVE  LockInv(p)
  BY <1>2, Zenon DEF Init, InitMemory, LockInv, Reads, Locked
<1>3. ASSUME NEW r \in Refs
      PROVE  ValueInv(r) /\ PackInv(r) /\ StableInv(r)
  <2>1. had[r] \subseteq Initial \cup {None} /\ loose[r] \in had[r] /\ packed[r] \in had[r]
    BY Zenon DEF Init, InitMemory
  <2>2. \A p \in Procs : Writes[p] \cap had[r] = {}
    BY <2>1, ConstantsOK, Zenon DEF FreshValues
  <2>3. ValueInv(r)
    BY <2>1, <2>2, Zenon DEF Init, InitMemory, ValueInv
  <2>4. PackInv(r)
    BY Zenon DEF Init, InitMemory, PackInv
  <2>5. StableInv(r)
    BY Zenon DEF Init, InitMemory, StableInv
  <2>6. QED
    BY <2>3, <2>4, <2>5, Zenon
<1>4. QED
  BY <1>1, <1>2, <1>3, Zenon DEF IInv

\* Every step of every command keeps the invariant.
LEMMA StepInv ==
  ASSUME FreshValues, IInv, [Next]_vars
  PROVE  IInv'
<1>1. CASE UNCHANGED vars
  <2>1. UNCHANGED <<loose, packed, refLock, packedLock, pc, kind, queue, todo, upd, del,
                    val,
                    cur, verified, old, inPacked, got, tries, result, had, seen, unsettled>>
    BY <1>1, Zenon DEF vars, store, locks, txn, reading, history
  <2>2. TypeOK'
    BY <2>1, Zenon DEF IInv, TypeOK
  <2>3. ASSUME NEW p \in Procs
        PROVE  LockInv(p)'
    <3>1. LockInv(p)
      BY Zenon DEF IInv
    <3>2. QED
      BY <2>1, <3>1, ZenonT(40) DEF LockInv, Pruning
  <2>4. \A r \in Refs : ValueInv(r)'
    BY <2>1, Zenon DEF IInv, ValueInv
  <2>5. \A r \in Refs : PackInv(r)'
    BY <2>1, ZenonT(40) DEF IInv, PackInv, Pruning, Pruner, Scanning
  <2>6. ASSUME NEW r \in Refs
        PROVE  StableInv(r)'
    <3>1. StableInv(r)
      BY Zenon DEF IInv
    <3>2. QED
      BY <2>1, <3>1, Zenon DEF StableInv, Stable, StillAsRead, Visible, Resolve, Pruning,
         Scanning
  <2>7. QED
    BY <2>2, <2>3, <2>4, <2>5, <2>6, Zenon DEF IInv
<1>2. ASSUME NEW p \in Procs, Step(p)
      PROVE  IInv'
  <2>1. CASE \E x \in Refs : \/ LockRef(p, x) \/ CommitRef(p, x) \/ UnlinkLoose(p, x)
                             \/ PackStat(p, x) \/ PruneRef(p, x) \/ DeleteRef(p, x)
    BY <2>1, LockRefKeeps, CommitRefKeeps, UnlinkLooseKeeps, PackStatKeeps, PruneRefKeeps,
       DeleteRefKeeps, Zenon
  <2>2. CASE \/ StartUpdate(p) \/ Verify(p) \/ LockPacked(p) \/ RefsCommitted(p)
             \/ CommitPacked(p) \/ Unlinked(p) \/ UnlockRefs(p) \/ UnlockPacked(p)
    BY <2>2, StartUpdateKeeps, VerifyKeeps, LockPackedKeeps, RefsCommittedKeeps,
       CommitPackedKeeps, UnlinkedKeeps, UnlockRefsKeeps, UnlockPackedKeeps, Zenon
  <2>3. CASE \/ StartPack(p) \/ PackResolve(p) \/ PackCommit(p) \/ PackUnlock(p)
             \/ StartDelete(p) \/ DeletePacked(p) \/ DeleteUnlock(p)
    BY <2>3, StartPackKeeps, PackResolveKeeps, PackCommitKeeps, PackUnlockKeeps,
       StartDeleteKeeps, DeletePackedKeeps, DeleteUnlockKeeps, Zenon
  <2>4. CASE \/ StartRead(p) \/ Stat(p) \/ Open(p) \/ PackedRead(p)
             \/ Fail(p) \/ Quit(p) \/ Crash(p)
    BY <2>4, StartReadKeeps, StatKeeps, OpenKeeps, PackedReadKeeps, FailKeeps, QuitKeeps,
       CrashKeeps, Zenon
  <2>5. QED
    BY <1>2, <2>1, <2>2, <2>3, <2>4, Zenon DEF Step
<1>3. QED
  BY <1>1, <1>2, Zenon DEF Next

\* The inductive invariant holds in every reachable state, for any commands that
\* write fresh values.
THEOREM Invariance ==
  ASSUME FreshValues
  PROVE  Spec => []IInv
<1>1. Init => IInv
  BY InitInv, Zenon
<1>2. IInv /\ [Next]_vars => IInv'
  BY StepInv, Zenon
<1>3. QED
  BY <1>1, <1>2, PTL DEF Spec

\* Every variable holds what the code can store in it.
THEOREM TypeCorrect ==
  ASSUME FreshValues
  PROVE  Spec => []TypeOK
<1>1. IInv => TypeOK
  BY Zenon DEF IInv
<1>2. QED
  BY <1>1, Invariance, PTL

\* What a transaction has read under the lock of a reference (lock_raw_ref) stays
\* its value until the transaction changes it, whatever updates, packers, readers,
\* failures and crashes there are; deletions are excepted.
THEOREM LockedValuesAreStable ==
  ASSUME FreshValues
  PROVE  Spec => []LockedValueStable
<1>1. IInv => LockedValueStable
  <2>1. SUFFICES ASSUME IInv, NEW p \in Procs, NEW r \in verified[p],
                        pc[p] \in {"lockRef", "verify", "lockPacked", "commitRefs",
                                   "commitPacked"}
                 PROVE  refLock[r] = p /\ StillAsRead(p, r)
    BY ZenonT(40) DEF LockedValueStable
  <2>2. r \in Refs /\ refLock[r] = p
    BY <2>1, Zenon DEF IInv, LockInv, TypeOK
  <2>3. Stable(p, r)
    BY <2>1, <2>2, Zenon DEF IInv, StableInv
  <2>4. QED
    BY <2>1, <2>2, <2>3, Zenon DEF Stable, Before
<1>2. QED
  BY <1>1, Invariance, PTL
-----------------------------------------------------------------------------
(* What a step may change of the value of a reference.                     *)

\* The change that OnlyCheckedChanges allows.
Checked(r) ==
  \/ \E p \in Procs : ByTransaction(p, r)
  \/ Visible(r)' = None /\ \E p \in Procs : pc[p] = "deletePacked" /\ r \in queue[p]
  \/ r \in unsettled /\ None \in {Visible(r), Visible(r)'}

\* The change that NothingObsoleteExposed allows.
NotObsolete(r) ==
  Visible(r)' \in had[r] \ {None} => r \in unsettled /\ Visible(r) = None

\* A reference that is written gets a value it never had.
LEMMA CommitRefChanges ==
  ASSUME IInv, NEW p \in Procs, NEW x \in Refs, CommitRef(p, x), NEW r \in Refs,
         Visible(r)' # Visible(r)
  PROVE  Checked(r) /\ NotObsolete(r)
<1>1. TypeOK /\ LockInv(p) /\ ValueInv(x)
  BY Zenon DEF IInv
<1>2. /\ pc[p] = "commitRefs" /\ x \in upd[p]
      /\ loose' = [loose EXCEPT ![x] = val[p]] /\ packed' = packed
  BY Zenon DEF CommitRef, Store
<1>3. r = x
  BY <1>1, <1>2, Zenon DEF Visible, Resolve, TypeOK
<1>4. val[p] \notin had[x] /\ val[p] # None
  BY <1>1, <1>2, ConstantsOK, Zenon DEF ValueInv
<1>5. Visible(r)' = val[p]
  BY <1>1, <1>2, <1>3, <1>4, Zenon DEF Visible, Resolve, TypeOK
<1>6. x \in verified[p] /\ refLock[x] = p /\ ~Pruning(p)
  BY <1>1, <1>2, Zenon DEF LockInv, Locked, Pruning
<1>7. StillAsRead(p, r)
  BY <1>2, <1>3, <1>6, Zenon DEF IInv, StableInv, Stable, Before
<1>8. ByTransaction(p, r)
  BY <1>2, <1>3, <1>5, <1>6, <1>7, Zenon DEF ByTransaction
<1>9. QED
  BY <1>3, <1>4, <1>5, <1>8, Zenon DEF Checked, NotObsolete

\* A deletion makes a reference vanish when it rewrites packed-refs, or later.
LEMMA CommitPackedChanges ==
  ASSUME IInv, NEW p \in Procs, CommitPacked(p), NEW r \in Refs, Visible(r)' # Visible(r)
  PROVE  Checked(r) /\ NotObsolete(r)
<1>1. TypeOK /\ LockInv(p)
  BY Zenon DEF IInv
<1>2. /\ pc[p] = "commitPacked" /\ loose' = loose
      /\ packed' = [k \in Refs |-> IF k \in del[p] THEN None ELSE packed[k]]
  BY Zenon DEF CommitPacked, Store, Without
<1>3. r \in del[p] /\ Visible(r)' = None
  BY <1>2, Zenon DEF Visible, Resolve
<1>4. r \in verified[p] /\ refLock[r] = p /\ ~Pruning(p)
  BY <1>1, <1>2, <1>3, Zenon DEF LockInv, Locked
<1>5. StillAsRead(p, r)
  BY <1>2, <1>4, Zenon DEF IInv, StableInv, Stable, Before
<1>6. ByTransaction(p, r)
  BY <1>3, <1>4, <1>5, Zenon DEF ByTransaction
<1>7. QED
  BY <1>3, <1>6, Zenon DEF Checked, NotObsolete

\* Under the loose file of a deletion there is nothing; under the one of a pruner is
\* the same value, or nothing if a deletion has been there.
LEMMA UnlinkLooseChanges ==
  ASSUME IInv, NEW p \in Procs, NEW x \in Refs, UnlinkLoose(p, x), NEW r \in Refs,
         Visible(r)' # Visible(r)
  PROVE  Checked(r) /\ NotObsolete(r)
<1>1. TypeOK /\ LockInv(p) /\ PackInv(x)
  BY Zenon DEF IInv
<1>2. pc[p] = "unlink" /\ x \in del[p]
  BY Zenon DEF UnlinkLoose
<1>3. /\ loose' = IF x \in inPacked[p] THEN loose ELSE [loose EXCEPT ![x] = None]
      /\ packed' = packed
  BY Zenon DEF UnlinkLoose, Store
<1>4. r = x /\ loose[x] # None
  BY <1>1, <1>3, Zenon DEF Visible, Resolve, TypeOK
<1>5. Visible(r) = loose[x] /\ Visible(r)' = packed[x]
  BY <1>1, <1>3, <1>4, Zenon DEF Visible, Resolve, TypeOK
<1>6. x \in verified[p] /\ refLock[x] = p
  BY <1>1, <1>2, Zenon DEF LockInv, Locked
<1>7. Stable(p, x) /\ StillAsRead(p, x)
  BY <1>2, <1>4, <1>6, Zenon DEF IInv, StableInv, Stable
<1>8. CASE Pruning(p)
  <2>1. got[p][x] # None /\ old[p][x] = got[p][x] /\ Pruner(p)
    BY <1>1, <1>2, <1>7, <1>8, ZenonT(40) DEF PackInv, Stable, Pruner, Pruning
  <2>2. loose[x] = got[p][x]
    BY <1>4, <1>5, <1>7, <2>1, Zenon DEF StillAsRead
  <2>3. x \in unsettled /\ packed[x] = None
    BY <1>1, <1>4, <1>5, <2>1, <2>2, Zenon DEF PackInv
  <2>4. QED
    BY <1>4, <1>5, <2>3, Zenon DEF Checked, NotObsolete
<1>9. CASE ~Pruning(p)
  <2>1. packed[x] = None
    BY <1>2, <1>7, <1>9, Zenon DEF Stable
  <2>2. ByTransaction(p, r)
    BY <1>2, <1>4, <1>5, <1>6, <1>7, <1>9, <2>1, Zenon DEF ByTransaction
  <2>3. QED
    BY <1>5, <2>1, <2>2, Zenon DEF Checked, NotObsolete
<1>10. QED
  BY <1>8, <1>9, Zenon

\* What a packer writes over is what it writes, or it is hidden by a loose file.
LEMMA PackCommitChanges ==
  ASSUME IInv, NEW p \in Procs, PackCommit(p), NEW r \in Refs, Visible(r)' # Visible(r)
  PROVE  Checked(r) /\ NotObsolete(r)
<1>1. PackInv(r) /\ Scanning(p)
  BY Zenon DEF IInv, PackCommit, Scanning
<1>2. /\ loose' = loose
      /\ packed' = [k \in Refs |-> IF got[p][k] # None THEN got[p][k] ELSE packed[k]]
  BY Zenon DEF PackCommit, Store, Packed
<1>3. loose[r] = None /\ got[p][r] # None /\ packed[r] # got[p][r]
  BY <1>2, Zenon DEF Visible, Resolve
<1>4. r \in unsettled /\ packed[r] = None
  BY <1>1, <1>3, Zenon DEF PackInv
<1>5. Visible(r) = None
  BY <1>3, <1>4, Zenon DEF Visible, Resolve
<1>6. QED
  BY <1>4, <1>5, Zenon DEF Checked, NotObsolete

\* files_delete_refs makes references vanish.
LEMMA DeletePackedChanges ==
  ASSUME IInv, NEW p \in Procs, DeletePacked(p), NEW r \in Refs, Visible(r)' # Visible(r)
  PROVE  Checked(r) /\ NotObsolete(r)
<1>1. /\ pc[p] = "deletePacked" /\ loose' = loose
      /\ packed' = [k \in Refs |-> IF k \in queue[p] THEN None ELSE packed[k]]
  BY Zenon DEF DeletePacked, Store, Without
<1>2. r \in queue[p] /\ Visible(r)' = None
  BY <1>1, Zenon DEF Visible, Resolve
<1>3. QED
  BY <1>1, <1>2, Zenon DEF Checked, NotObsolete

\* All other steps change no file.
LEMMA ChangeIsChecked ==
  ASSUME IInv, [Next]_vars, NEW r \in Refs, Visible(r)' # Visible(r)
  PROVE  Checked(r) /\ NotObsolete(r)
<1>1. ~(UNCHANGED store)
  BY Zenon DEF store, Visible, Resolve
<1>2. PICK p \in Procs : Step(p)
  BY <1>1, Zenon DEF Next, vars
<1>3. \/ CommitPacked(p) \/ PackCommit(p) \/ DeletePacked(p)
      \/ \E x \in Refs : CommitRef(p, x) \/ UnlinkLoose(p, x)
  BY <1>1, <1>2, Zenon DEF Step, StartUpdate, LockRef, Verify, LockPacked, RefsCommitted,
     Unlinked,
     UnlockRefs, UnlockPacked, StartPack, PackStat, PackResolve, PackUnlock, PruneRef,
     StartDelete, DeleteUnlock, DeleteRef, StartRead, Stat, Open, PackedRead, Fail, Quit,
     Crash
<1>4. QED
  BY <1>3, CommitRefChanges, CommitPackedChanges, UnlinkLooseChanges, PackCommitChanges,
     DeletePackedChanges, Zenon

\* A reference changes only by a transaction that holds its lock and from the value
\* the transaction has read (files_transaction_finish); packing, pruning, failures
\* and crashes change nothing.
THEOREM ChangesAreChecked ==
  ASSUME FreshValues
  PROVE  Spec => OnlyCheckedChanges
<1>1. IInv /\ [Next]_vars =>
        [\A r \in Refs : Visible(r)' # Visible(r) =>
           \/ \E p \in Procs : ByTransaction(p, r)
           \/ Visible(r)' = None /\ \E p \in Procs : pc[p] = "deletePacked" /\ r \in queue[p]
           \/ r \in unsettled /\ None \in {Visible(r), Visible(r)'}]_vars
  BY ChangeIsChecked, Zenon DEF Checked
<1>2. QED
  BY <1>1, Invariance, PTL DEF Spec, OnlyCheckedChanges

\* A value that was replaced or deleted is never uncovered again
\* (files_transaction_finish removes the packed value before the loose file).
THEOREM ObsoleteValuesStayHidden ==
  ASSUME FreshValues
  PROVE  Spec => NothingObsoleteExposed
<1>1. IInv /\ [Next]_vars =>
        [\A r \in Refs :
           Visible(r)' # Visible(r) /\ Visible(r)' \in had[r] \ {None} =>
             r \in unsettled /\ Visible(r) = None]_vars
  BY ChangeIsChecked, Zenon DEF NotObsolete
<1>2. QED
  BY <1>1, Invariance, PTL DEF Spec, NothingObsoleteExposed
-----------------------------------------------------------------------------
(* Reads without a lock.                                                   *)

\* What a reader that has not answered yet may rely on: the value of the reference
\* is one it may return; and when it is about to read packed-refs, so is the value
\* there and every value that a packer is about to write there.
Reader(p, r) ==
  /\ Visible(r) \in seen[p]
  /\ r \in unsettled => had[r] \cup {None} \subseteq seen[p]
  /\ pc[p] = "packedRead" =>
       /\ packed[r] \in seen[p]
       /\ \A q \in Procs : Scanning(q) /\ got[q][r] # None => got[q][r] \in seen[p]

Answered(p) == result[p] \in seen[p] \/ (tries[p] < 0 /\ result[p] = None)

ReadInv(p) ==
  /\ kind[p] = "read" => pc[p] \in Reads \cup {"done"}
  /\ pc[p] \in Reads => \A r \in Refs : cur[p] = r => Reader(p, r)
  /\ kind[p] = "read" /\ pc[p] = "done" => Answered(p)

\* The steps that change a file.
FileStep(q) ==
  \/ CommitPacked(q) \/ PackCommit(q) \/ DeletePacked(q)
  \/ \E x \in Refs : CommitRef(q, x) \/ UnlinkLoose(q, x)

\* The steps that change none.
TransactionStep(q) ==
  \/ StartUpdate(q) \/ Verify(q) \/ LockPacked(q) \/ RefsCommitted(q)
  \/ Unlinked(q) \/ UnlockRefs(q) \/ UnlockPacked(q)
  \/ \E x \in Refs : LockRef(q, x)

OtherStep(q) ==
  \/ StartPack(q) \/ PackResolve(q) \/ PackUnlock(q) \/ StartDelete(q) \/ DeleteUnlock(q)
  \/ \E x \in Refs : PackStat(q, x) \/ PruneRef(q, x) \/ DeleteRef(q, x)

ReadStep(q) == StartRead(q) \/ Stat(q) \/ Open(q) \/ PackedRead(q)

EndStep(q) == Fail(q) \/ Quit(q) \/ Crash(q)

\* A step is one of these.
LEMMA StepKinds ==
  ASSUME NEW q \in Procs, Step(q)
  PROVE  FileStep(q) \/ TransactionStep(q) \/ OtherStep(q) \/ ReadStep(q) \/ EndStep(q)
BY Zenon DEF Step, FileStep, TransactionStep, OtherStep, ReadStep, EndStep

\* A process that does not take the step is where it was.
Waits(p) ==
  /\ pc'[p] = pc[p] /\ kind'[p] = kind[p] /\ cur'[p] = cur[p]
  /\ result'[p] = result[p] /\ tries'[p] = tries[p]

\* Only the process that takes a step moves.
LEMMA OthersWait ==
  ASSUME TypeOK, NEW q \in Procs, Step(q), NEW p \in Procs, p # q
  PROVE  Waits(p)
<1>1. /\ DOMAIN pc = Procs /\ DOMAIN kind = Procs /\ DOMAIN cur = Procs
      /\ DOMAIN result = Procs /\ DOMAIN tries = Procs
  BY Zenon DEF TypeOK
<1>2. CASE FileStep(q)
  BY <1>1, <1>2, Zenon DEF FileStep, CommitPacked, PackCommit, DeletePacked, CommitRef,
     UnlinkLoose,
     Goto, reading, Waits
<1>3. CASE TransactionStep(q)
  BY <1>1, <1>3, ZenonT(40) DEF TransactionStep, StartUpdate, Verify, LockPacked, RefsCommitted,
     Unlinked, UnlockRefs, UnlockPacked, LockRef, EndTransaction, Goto, reading, Waits
<1>4. CASE OtherStep(q)
  BY <1>1, <1>4, Zenon DEF OtherStep, StartPack, PackResolve, PackUnlock, StartDelete,
     DeleteUnlock, PackStat, PruneRef, DeleteRef, Goto, reading, Waits
<1>5. CASE ReadStep(q)
  BY <1>1, <1>5, Zenon DEF ReadStep, StartRead, Stat, Open, PackedRead, Goto, Waits
<1>6. CASE EndStep(q)
  BY <1>1, <1>6, Zenon DEF EndStep, Fail, Quit, Crash, Exit, EndTransaction, Goto, reading,
     Waits
<1>7. QED
  BY <1>2, <1>3, <1>4, <1>5, <1>6, StepKinds, Zenon


\* Other steps than those of a read neither start nor continue one.
LEMMA NoRead ==
  ASSUME TypeOK, NEW p \in Procs, Step(p), ~ReadStep(p)
  PROVE  /\ pc[p] \notin Reads \cup {"done"} /\ pc'[p] \notin Reads
         /\ kind'[p] = kind[p] \/ kind'[p] # "read"
<1>1. CASE FileStep(p)
  BY <1>1, Zenon DEF FileStep, CommitPacked, PackCommit, DeletePacked, CommitRef,
     UnlinkLoose,
     Goto, TypeOK, Reads
<1>2. CASE TransactionStep(p)
  BY <1>2, Zenon DEF TransactionStep, StartUpdate, Verify, LockPacked, RefsCommitted, Unlinked,
     UnlockRefs, UnlockPacked, LockRef, After, Goto, TypeOK, Reads
<1>3. CASE OtherStep(p)
  <2>1. CASE StartPack(p) \/ PackResolve(p) \/ PackUnlock(p)
    BY <2>1, Zenon DEF StartPack, PackResolve, PackUnlock, Goto, TypeOK, Reads
  <2>2. CASE StartDelete(p) \/ DeleteUnlock(p)
    BY <2>2, Zenon DEF StartDelete, DeleteUnlock, Goto, TypeOK, Reads
  <2>3. ASSUME NEW x \in Refs, PackStat(p, x) \/ PruneRef(p, x) \/ DeleteRef(p, x)
        PROVE  /\ pc[p] \notin Reads \cup {"done"} /\ pc'[p] \notin Reads
               /\ kind'[p] = kind[p] \/ kind'[p] # "read"
    BY <2>3, Zenon DEF PackStat, PruneRef, DeleteRef, Goto, TypeOK, Reads
  <2>4. QED
    BY <1>3, <2>1, <2>2, <2>3, Zenon DEF OtherStep
<1>4. CASE EndStep(p)
  BY <1>4, Zenon DEF EndStep, Fail, Quit, Crash, Goto, TypeOK, Reads
<1>5. QED
  BY <1>1, <1>2, <1>3, <1>4, StepKinds, Zenon

\* What a step that changes no file leaves alone, for the readers that do not take
\* it: a packer that knows a value of r knew it before, or has just read it.
LEMMA QuietForReaders ==
  ASSUME IInv, NEW q \in Procs, Step(q), ~FileStep(q), NEW p \in Procs, p # q,
         NEW r \in Refs
  PROVE  /\ UNCHANGED <<loose, packed, had, unsettled>> /\ seen'[p] = seen[p]
         /\ \A s \in Procs : Scanning(s)' /\ got'[s][r] # None =>
              \/ Scanning(s) /\ got'[s][r] = got[s][r]
              \/ got'[s][r] = Visible(r)
<1>1. TypeOK /\ (pc[q] = "idle" => got[q][r] = None) /\ LockInv(q)
  BY Zenon DEF IInv, PackInv
<1>2. CASE TransactionStep(q)
  BY <1>1, <1>2 DEF TransactionStep, StartUpdate, Verify, LockPacked, RefsCommitted,
     Unlinked, UnlockRefs, UnlockPacked, LockRef, After, Goto, store, history, TypeOK,
     Scanning
<1>3. CASE OtherStep(q)
  <2>1. CASE PackResolve(q)
    <3>1. PICK c \in Refs : cur[q] = c
      BY <1>1, <2>1, Zenon DEF LockInv, PackResolve
    <3>2. got' = [got EXCEPT ![q][c] = Visible(c)] /\ pc' = [pc EXCEPT ![q] = "packScan"]
      BY <2>1, <3>1, Zenon DEF PackResolve, Goto
    <3>3. UNCHANGED <<loose, packed, had, unsettled, seen>> /\ pc[q] = "packResolve"
      BY <2>1, Zenon DEF PackResolve, store, history
    <3>4. ASSUME NEW s \in Procs, Scanning(s)', got'[s][r] # None
          PROVE  \/ Scanning(s) /\ got'[s][r] = got[s][r]
                 \/ got'[s][r] = Visible(r)
      <4>1. CASE s = q /\ r = c
        BY <1>1, <3>2, <4>1, Zenon DEF TypeOK
      <4>2. CASE ~(s = q /\ r = c)
        BY <1>1, <3>2, <3>3, <3>4, <4>2, Zenon DEF TypeOK, Scanning
      <4>3. QED
        BY <4>1, <4>2, Zenon
    <3>5. QED
      BY <3>3, <3>4, Zenon
  <2>2. CASE ~PackResolve(q)
    BY <1>1, <1>3, <2>2, ZenonT(40) DEF OtherStep, StartPack, PackUnlock, StartDelete,
       DeleteUnlock,
       PackStat, PruneRef, DeleteRef, Goto, store, history, TypeOK, Scanning
  <2>3. QED
    BY <2>1, <2>2, Zenon
<1>4. CASE ReadStep(q)
  BY <1>1, <1>4, ZenonT(40) DEF ReadStep, StartRead, Stat, Open, PackedRead, Goto, store,
     history,
     TypeOK, Scanning
<1>5. CASE EndStep(q)
  BY <1>1, <1>5, ZenonT(40) DEF EndStep, Fail, Quit, Crash, Exit, Goto, store, history, TypeOK,
     Scanning
<1>6. QED
  BY <1>2, <1>3, <1>4, <1>5, StepKinds, Zenon

\* Readers that are not done remember every change of their reference.
LEMMA StoreForReaders ==
  ASSUME NEW p \in Procs, pc[p] \in Reads, NEW r \in Refs, cur[p] = r,
         NEW l, NEW k, NEW u, Store(l, k, u)
  PROVE  /\ loose' = l /\ packed' = k /\ unsettled' = u
         /\ seen[p] \subseteq seen'[p] /\ Visible(r)' \in seen'[p]
         /\ r \in u => had'[r] \cup {None} \subseteq seen'[p]
<1>1. seen'[p] = seen[p] \cup {Resolve(l, k, r)} \cup MayReappear(r, u)
  BY Zenon DEF Store, Reads
<1>2. had'[r] = had[r] \cup {Resolve(l, k, r)}
  BY Zenon DEF Store
<1>3. loose' = l /\ packed' = k /\ unsettled' = u
  BY Zenon DEF Store
<1>4. Visible(r)' = Resolve(l, k, r)
  BY <1>3, Zenon DEF Visible, Resolve
<1>5. QED
  BY <1>1, <1>2, <1>3, <1>4, Zenon DEF MayReappear

\* What a change of the files puts into packed-refs.
LEMMA FileStepForReaders ==
  ASSUME IInv, NEW q \in Procs, FileStep(q), NEW p \in Procs, p # q, pc[p] \in Reads,
         NEW r \in Refs, cur[p] = r
  PROVE  /\ seen[p] \subseteq seen'[p] /\ Visible(r)' \in seen'[p]
         /\ r \in unsettled' => had'[r] \cup {None} \subseteq seen'[p]
         /\ got' = got /\ \A s \in Procs : Scanning(s)' => Scanning(s)
         /\ \/ packed'[r] = packed[r]
            \/ packed'[r] = None /\ (packed'[r] = Visible(r)' \/ r \in unsettled')
            \/ Scanning(q) /\ got[q][r] # None /\ packed'[r] = got[q][r]
<1>1. TypeOK
  BY Zenon DEF IInv
<1>2. CASE \E x \in Refs : CommitRef(q, x)
  <2>1. PICK x \in Refs : CommitRef(q, x)
    BY <1>2, Zenon
  <2>2. Store([loose EXCEPT ![x] = val[q]], packed, unsettled \ {x})
    BY <2>1, Zenon DEF CommitRef
  <2>3. got' = got /\ pc' = pc
    BY <2>1, Zenon DEF CommitRef
  <2>4. QED
    BY <2>2, <2>3, StoreForReaders, Zenon DEF Scanning
<1>3. CASE \E x \in Refs : UnlinkLoose(q, x)
  <2>1. PICK x \in Refs : UnlinkLoose(q, x)
    BY <1>3
  <2>2. PICK l, u : Store(l, packed, u)
    BY <2>1, Zenon DEF UnlinkLoose
  <2>3. got' = got /\ pc' = pc
    BY <2>1, Zenon DEF UnlinkLoose
  <2>4. QED
    BY <2>2, <2>3, StoreForReaders, Zenon DEF Scanning
<1>4. CASE CommitPacked(q)
  <2>1. Store(loose, Without(packed, del[q]), unsettled \cup Loose(del[q]))
    BY <1>4, Zenon DEF CommitPacked
  <2>2. got' = got /\ pc' = [pc EXCEPT ![q] = "unlink"]
    BY <1>4, Zenon DEF CommitPacked, Goto
  <2>3. /\ seen[p] \subseteq seen'[p] /\ Visible(r)' \in seen'[p]
        /\ r \in unsettled' => had'[r] \cup {None} \subseteq seen'[p]
        /\ loose' = loose /\ packed' = Without(packed, del[q])
        /\ unsettled' = unsettled \cup Loose(del[q])
    BY <2>1, StoreForReaders, Zenon
  <2>4. \/ packed'[r] = packed[r]
        \/ packed'[r] = None /\ (packed'[r] = Visible(r)' \/ r \in unsettled')
    <3>1. packed'[r] = (IF r \in del[q] THEN None ELSE packed[r])
      BY <2>3, Zenon DEF Without
    <3>2. r \in del[q] /\ loose[r] # None => r \in unsettled'
      BY <2>3, Zenon DEF Loose
    <3>3. loose[r] = None => Visible(r)' = packed'[r]
      BY <2>3, Zenon DEF Visible, Resolve
    <3>4. QED
      BY <3>1, <3>2, <3>3, Zenon
  <2>5. \A s \in Procs : Scanning(s)' => Scanning(s)
    BY <1>1, <2>2, Zenon DEF Scanning, TypeOK
  <2>6. QED
    BY <2>2, <2>3, <2>4, <2>5, Zenon
<1>5. CASE DeletePacked(q)
  <2>1. PICK u : /\ Store(loose, Without(packed, queue[q]), u)
                 /\ Loose(queue[q]) \subseteq u
    BY <1>5, Zenon DEF DeletePacked
  <2>2. got' = got /\ pc' = [pc EXCEPT ![q] = "deleteUnlock"]
    BY <1>5, Zenon DEF DeletePacked, Goto
  <2>3. /\ seen[p] \subseteq seen'[p] /\ Visible(r)' \in seen'[p]
        /\ r \in unsettled' => had'[r] \cup {None} \subseteq seen'[p]
        /\ loose' = loose /\ packed' = Without(packed, queue[q])
        /\ unsettled' = u
    BY <2>1, StoreForReaders, ZenonT(40)
  <2>4. \/ packed'[r] = packed[r]
        \/ packed'[r] = None /\ (packed'[r] = Visible(r)' \/ r \in unsettled')
    <3>1. packed'[r] = (IF r \in queue[q] THEN None ELSE packed[r])
      BY <2>3, Zenon DEF Without
    <3>2. r \in queue[q] /\ loose[r] # None => r \in unsettled'
      BY <2>1, <2>3, Zenon DEF Loose
    <3>3. loose[r] = None => Visible(r)' = packed'[r]
      BY <2>3, Zenon DEF Visible, Resolve
    <3>4. QED
      BY <3>1, <3>2, <3>3, Zenon
  <2>5. \A s \in Procs : Scanning(s)' => Scanning(s)
    BY <1>1, <2>2, Zenon DEF Scanning, TypeOK
  <2>6. QED
    BY <2>2, <2>3, <2>4, <2>5, Zenon
<1>6. CASE PackCommit(q)
  <2>1. Store(loose, [x \in Refs |-> IF x \in Packed(q) THEN got[q][x] ELSE packed[x]],
              unsettled)
    BY <1>6, Zenon DEF PackCommit
  <2>2. got' = got /\ pc' = [pc EXCEPT ![q] = "packUnlock"] /\ Scanning(q)
    BY <1>6, Zenon DEF PackCommit, Goto, Scanning
  <2>3. /\ seen[p] \subseteq seen'[p] /\ Visible(r)' \in seen'[p]
        /\ r \in unsettled' => had'[r] \cup {None} \subseteq seen'[p]
        /\ packed' = [x \in Refs |-> IF x \in Packed(q) THEN got[q][x] ELSE packed[x]]
    BY <2>1, StoreForReaders, Zenon
  <2>4. packed'[r] = packed[r] \/ (got[q][r] # None /\ packed'[r] = got[q][r])
    BY <2>3, Zenon DEF Packed
  <2>5. \A s \in Procs : Scanning(s)' => Scanning(s)
    BY <1>1, <2>2, Zenon DEF Scanning, TypeOK
  <2>6. QED
    BY <2>2, <2>3, <2>4, <2>5, Zenon
<1>7. QED
  BY <1>2, <1>3, <1>4, <1>5, <1>6, Zenon DEF FileStep

\* A reader stays one while others take a step.
LEMMA ReaderWaits ==
  ASSUME IInv, NEW q \in Procs, Step(q), NEW p \in Procs, p # q, ReadInv(p)
  PROVE  ReadInv(p)'
<1>1. TypeOK
  BY Zenon DEF IInv
<1>2. Waits(p)
  BY <1>1, OthersWait, Zenon
<1>3. kind'[p] = "read" => pc'[p] \in Reads \cup {"done"}
  BY <1>2, Zenon DEF Waits, ReadInv
<1>4. ASSUME NEW r \in Refs, pc'[p] \in Reads, cur'[p] = r
      PROVE  Reader(p, r)'
  <2>1. pc[p] \in Reads /\ cur[p] = r /\ Reader(p, r) /\ pc'[p] = pc[p]
    BY <1>2, <1>4, Zenon DEF Waits, ReadInv
  <2>2. CASE FileStep(q)
    <3>1. /\ seen[p] \subseteq seen'[p] /\ Visible(r)' \in seen'[p]
          /\ r \in unsettled' => had'[r] \cup {None} \subseteq seen'[p]
          /\ got' = got /\ \A s \in Procs : Scanning(s)' => Scanning(s)
          /\ \/ packed'[r] = packed[r]
             \/ packed'[r] = None /\ (packed'[r] = Visible(r)' \/ r \in unsettled')
             \/ Scanning(q) /\ got[q][r] # None /\ packed'[r] = got[q][r]
      BY <2>1, <2>2, FileStepForReaders, Zenon
    <3>2. ASSUME pc'[p] = "packedRead"
          PROVE  /\ packed'[r] \in seen'[p]
                 /\ \A s \in Procs : Scanning(s)' /\ got'[s][r] # None =>
                      got'[s][r] \in seen'[p]
      <4>1. /\ packed[r] \in seen[p]
            /\ \A s \in Procs : Scanning(s) /\ got[s][r] # None => got[s][r] \in seen[p]
        BY <2>1, <3>2, Zenon DEF Reader
      <4>2. QED
        BY <3>1, <4>1, Zenon
    <3>3. QED
      BY <3>1, <3>2, Zenon DEF Reader
  <2>3. CASE ~FileStep(q)
    <3>1. /\ UNCHANGED <<loose, packed, had, unsettled>> /\ seen'[p] = seen[p]
          /\ \A s \in Procs : Scanning(s)' /\ got'[s][r] # None =>
               \/ Scanning(s) /\ got'[s][r] = got[s][r]
               \/ got'[s][r] = Visible(r)
      BY <2>3, QuietForReaders, Zenon
    <3>2. Visible(r)' = Visible(r)
      BY <3>1, Zenon DEF Visible, Resolve
    <3>3. ASSUME pc'[p] = "packedRead"
          PROVE  /\ packed'[r] \in seen'[p]
                 /\ \A s \in Procs : Scanning(s)' /\ got'[s][r] # None =>
                      got'[s][r] \in seen'[p]
      <4>1. /\ packed[r] \in seen[p] /\ Visible(r) \in seen[p]
            /\ \A s \in Procs : Scanning(s) /\ got[s][r] # None => got[s][r] \in seen[p]
        BY <2>1, <3>3, Zenon DEF Reader
      <4>2. QED
        BY <3>1, <4>1, Zenon
    <3>4. QED
      BY <2>1, <3>1, <3>2, <3>3, Zenon DEF Reader
  <2>4. QED
    BY <2>2, <2>3, Zenon
<1>5. ASSUME kind'[p] = "read", pc'[p] = "done"
      PROVE  Answered(p)'
  <2>1. kind[p] = "read" /\ pc[p] = "done" /\ Answered(p)
    BY <1>2, <1>5, Zenon DEF Waits, ReadInv
  <2>2. seen'[p] = seen[p]
    <3>1. CASE FileStep(q)
      <4>1. PICK l, k, u : Store(l, k, u)
        BY <3>1, Zenon DEF FileStep, CommitPacked, PackCommit, DeletePacked, CommitRef,
           UnlinkLoose
      <4>2. QED
        BY <2>1, <4>1, Zenon DEF Store
    <3>2. CASE TransactionStep(q)
      BY <3>2, Zenon DEF TransactionStep, StartUpdate, Verify, LockPacked, RefsCommitted,
         Unlinked,
         UnlockRefs, UnlockPacked, LockRef, history
    <3>3. CASE OtherStep(q)
      BY <3>3, Zenon DEF OtherStep, StartPack, PackResolve, PackUnlock, StartDelete,
         DeleteUnlock,
         PackStat, PruneRef, DeleteRef, history
    <3>4. CASE ReadStep(q)
      BY <1>1, <3>4, ZenonT(40) DEF ReadStep, StartRead, Stat, Open, PackedRead, history, TypeOK
    <3>5. CASE EndStep(q)
      BY <3>5, Zenon DEF EndStep, Fail, Quit, Crash, history
    <3>6. QED
      BY <3>1, <3>2, <3>3, <3>4, <3>5, StepKinds, Zenon
  <2>3. QED
    BY <1>2, <2>1, <2>2, Zenon DEF Answered, Waits
<1>6. QED
  BY <1>3, <1>4, <1>5, Zenon DEF ReadInv

\* A reader returns what it may rely on (read_ref_internal).
LEMMA ReaderSteps ==
  ASSUME IInv, NEW p \in Procs, ReadStep(p), ReadInv(p)
  PROVE  ReadInv(p)'
<1>1. TypeOK /\ LockInv(p)
  BY Zenon DEF IInv
<1>2. CASE StartRead(p)
  <2>1. PICK r \in Refs :
          /\ cur' = [cur EXCEPT ![p] = r]
          /\ seen' = [seen EXCEPT ![p] = {Visible(r)} \cup MayReappear(r, unsettled)]
    BY <1>2, Zenon DEF StartRead
  <2>2. pc'[p] = "stat" /\ UNCHANGED <<loose, packed, had, unsettled>>
    BY <1>1, <1>2, Zenon DEF StartRead, Goto, store, TypeOK
  <2>3. cur'[p] = r /\ seen'[p] = {Visible(r)} \cup MayReappear(r, unsettled)
    BY <1>1, <2>1, Zenon DEF TypeOK
  <2>4. Visible(r)' = Visible(r)
    BY <2>2, Zenon DEF Visible, Resolve
  <2>5. Reader(p, r)'
    BY <2>2, <2>3, <2>4, Zenon DEF Reader, MayReappear
  <2>6. QED
    BY <2>2, <2>3, <2>5, Zenon DEF ReadInv, Reads
<1>3. CASE Stat(p) \/ Open(p) \/ PackedRead(p)
  <2>1. PICK r \in Refs : cur[p] = r
    BY <1>1, <1>3, Zenon DEF LockInv, Reads, Stat, Open, PackedRead
  <2>2. /\ pc[p] \in Reads
        /\ UNCHANGED <<loose, packed, had, unsettled, seen, got, kind, cur>>
        /\ \A s \in Procs \ {p} : pc'[s] = pc[s]
    <3>1. pc[p] \in Reads
      BY <1>3, Zenon DEF Stat, Open, PackedRead, Reads
    <3>2. UNCHANGED <<loose, packed, had, unsettled, seen, got, kind, cur>>
      BY <1>3, Zenon DEF Stat, Open, PackedRead, store, history
    <3>3. \E l \in Places : pc' = [pc EXCEPT ![p] = l]
      BY <1>3, Zenon DEF Stat, Open, PackedRead, Goto, Places
    <3>4. \A s \in Procs \ {p} : pc'[s] = pc[s]
      BY <1>1, <3>3, Zenon DEF TypeOK
    <3>5. QED
      BY <3>1, <3>2, <3>4, Zenon
  <2>3. Reader(p, r)
    BY <2>1, <2>2, Zenon DEF ReadInv
  <2>4. Visible(r)' = Visible(r)
    BY <2>2, ZenonT(40) DEF Visible, Resolve
  <2>5. pc'[p] \in Reads \cup {"done"}
    BY <1>1, <1>3, Zenon DEF Stat, Open, PackedRead, Goto, Reads, TypeOK
  <2>6. ASSUME pc'[p] = "packedRead"
        PROVE  /\ packed'[r] \in seen'[p]
               /\ \A s \in Procs : Scanning(s)' /\ got'[s][r] # None => got'[s][r] \in seen'[p]
    <3>1. Stat(p) /\ loose[r] = None
      BY <1>1, <1>3, <2>1, <2>6, Zenon DEF Stat, Open, PackedRead, Goto, TypeOK
    <3>2. packed[r] \in seen[p]
      BY <2>3, <3>1, Zenon DEF Reader, Visible, Resolve
    <3>3. ASSUME NEW s \in Procs, Scanning(s)', got'[s][r] # None
          PROVE  got'[s][r] \in seen'[p]
      <4>1. Scanning(s) /\ got[s][r] # None
        BY <2>2, <2>6, <3>3, Zenon DEF Scanning
      <4>2. /\ packed[r] = got[s][r] \/ r \in unsettled
            /\ got[s][r] \in had[r] \cup {None}
        BY <3>1, <4>1, Zenon DEF IInv, PackInv, ValueInv
      <4>3. QED
        BY <2>2, <2>3, <3>2, <4>2, Zenon DEF Reader
    <3>4. QED
      BY <2>2, <3>2, <3>3, Zenon
  <2>7. Reader(p, r)'
    BY <2>2, <2>3, <2>4, <2>6, Zenon DEF Reader
  <2>8. ASSUME pc'[p] = "done"
        PROVE  Answered(p)'
    <3>1. CASE Stat(p)
      <4>1. pc'[p] = "done" /\ tries'[p] = tries[p] - 1 /\ tries[p] \in Int
        BY <1>1, <2>8, <3>1, Zenon DEF Stat, TypeOK
      <4>2. tries[p] <= 0 /\ result'[p] = None
        BY <1>1, <2>8, <3>1 DEF Stat, Goto, TypeOK
      <4>3. tries'[p] < 0
        BY <4>1, <4>2
      <4>4. QED
        BY <4>2, <4>3, Zenon DEF Answered
    <3>2. CASE Open(p)
      <4>1. result'[p] = loose[r] /\ loose[r] # None
        BY <1>1, <2>1, <2>8, <3>2, Zenon DEF Open, Goto, TypeOK
      <4>2. QED
        BY <2>2, <2>3, <4>1, Zenon DEF Reader, Visible, Resolve, Answered
    <3>3. CASE PackedRead(p)
      <4>1. result'[p] = packed[r] /\ pc[p] = "packedRead"
        BY <1>1, <2>1, <3>3, Zenon DEF PackedRead, TypeOK
      <4>2. QED
        BY <2>2, <2>3, <4>1, Zenon DEF Reader, Answered
    <3>4. QED
      BY <1>3, <3>1, <3>2, <3>3, Zenon
  <2>9. QED
    BY <2>1, <2>2, <2>5, <2>7, <2>8, Zenon DEF ReadInv
<1>4. QED
  BY <1>2, <1>3, Zenon DEF ReadStep

\* The invariant of readers is kept by every step.
LEMMA StepReads ==
  ASSUME IInv, [Next]_vars, NEW p \in Procs, ReadInv(p)
  PROVE  ReadInv(p)'
<1>1. CASE UNCHANGED vars
  <2>1. UNCHANGED <<loose, packed, pc, kind, cur, got, tries, result, had, seen, unsettled>>
    BY <1>1, Zenon DEF vars, store, reading, history
  <2>2. QED
    BY <2>1, Zenon DEF ReadInv, Reader, Answered, Visible, Resolve, Scanning
<1>2. ASSUME NEW q \in Procs, Step(q)
      PROVE  ReadInv(p)'
  <2>1. CASE q # p
    BY <1>2, <2>1, ReaderWaits, Zenon
  <2>2. CASE q = p /\ ReadStep(p)
    BY <2>2, ReaderSteps, Zenon
  <2>3. CASE q = p /\ ~ReadStep(p)
    <3>1. /\ pc[p] \notin Reads \cup {"done"} /\ pc'[p] \notin Reads
          /\ kind'[p] = kind[p] \/ kind'[p] # "read"
      BY <1>2, <2>3, NoRead, Zenon DEF IInv
    <3>2. QED
      BY <3>1, Zenon DEF ReadInv
  <2>4. QED
    BY <2>1, <2>2, <2>3, Zenon
<1>3. QED
  BY <1>1, <1>2, Zenon DEF Next

\* A read without a lock returns a value that the reference had while it was being
\* read (read_ref_internal), whatever others write, pack, prune and delete at the
\* same time; deletions under way and the end of the retries are excepted.
THEOREM ReadsReturnCurrentValues ==
  ASSUME FreshValues
  PROVE  Spec => []ReadsAreCurrent
<1>1. Init => \A p \in Procs : ReadInv(p)
  BY Zenon DEF Init, InitMemory, ReadInv, Reads
<1>2. IInv /\ [Next]_vars /\ (\A p \in Procs : ReadInv(p)) => (\A p \in Procs : ReadInv(p))'
  BY StepReads, Zenon
<1>3. (\A p \in Procs : ReadInv(p)) => ReadsAreCurrent
  BY Zenon DEF ReadInv, Answered, ReadsAreCurrent
<1>4. QED
  BY <1>1, <1>2, <1>3, Invariance, PTL DEF Spec
-----------------------------------------------------------------------------
(* The locks.  The argument needs no more than where the processes are, so *)
(* that it holds whatever values the commands write.                       *)

LockTypes == pc \in [Procs -> Places] /\ refLock \in [Refs -> Procs \cup {None}]

\* The process goes from one of the places to one of the others.
Moves(p, from, to) == pc[p] \in from /\ \E w \in to : pc' = [pc EXCEPT ![p] = w]

\* A step that touches no lock, and leaves no place where a lock may be held for
\* one where it may not.
KeepsAll(p) ==
  /\ UNCHANGED locks
  /\ \E f, t \in Places : /\ pc[p] = f /\ pc' = [pc EXCEPT ![p] = t]
                          /\ f \in WithRefLocks => t \in WithRefLocks
                          /\ f \in WithPackedLock => t \in WithPackedLock

\* A step that takes a lock, and goes where it may be held.
Takes(p) ==
  \/ \E r \in Refs :
       /\ refLock' = [refLock EXCEPT ![r] = p] /\ UNCHANGED packedLock
       /\ Moves(p, {"lockRef"}, {"verify"})
  \/ /\ packedLock' = p /\ UNCHANGED refLock
     /\ \/ Moves(p, {"idle"}, {"packScan", "deletePacked"})
        \/ Moves(p, {"lockPacked"}, {"commitRefs"})

\* A step that removes locks of the process.
Removes(p) ==
  \/ /\ refLock' = [r \in Refs |-> IF refLock[r] = p THEN None ELSE refLock[r]]
     /\ UNCHANGED packedLock
     /\ \/ packedLock = p /\ Moves(p, {"unlockRefs"}, {"unlockPacked"})
        \/ packedLock # p /\ Moves(p, {"unlockRefs"}, {"prune", "deleteNext", "done"})
  \/ \E r \in Refs :
       /\ refLock' = [refLock EXCEPT ![r] = None] /\ UNCHANGED <<packedLock, pc>>
  \/ /\ packedLock' = IF packedLock = p THEN None ELSE packedLock
     /\ UNCHANGED refLock
     /\ Moves(p, {"packScan", "packResolve", "packUnlock", "prune", "deletePacked",
                  "deleteUnlock", "deleteNext"}, {"done"})
  \/ /\ packedLock' = None /\ UNCHANGED refLock
     /\ Moves(p, {"unlockPacked", "packUnlock", "deleteUnlock"},
                 {"prune", "deleteNext", "done"})

LEMMA AfterPlaces == \A p : After(p) \in {"prune", "deleteNext", "done"}
  BY Zenon DEF After

LEMMA LockStepKinds ==
  ASSUME LockTypes, NEW p \in Procs, Step(p)
  PROVE  KeepsAll(p) \/ Takes(p) \/ Removes(p)
<1> USE DEF Goto, Moves
<1>1. CASE \/ StartUpdate(p) \/ Verify(p) \/ RefsCommitted(p) \/ Unlinked(p) \/ Fail(p)
           \/ Crash(p)
  <2>1. UNCHANGED locks
    BY <1>1, Zenon DEF StartUpdate, Verify, RefsCommitted, Unlinked, Fail, Crash
  <2>2. CASE Crash(p)
    BY <2>1, <2>2, Zenon DEF Crash, KeepsAll, LockTypes, Places, WithRefLocks, WithPackedLock
  <2>3. CASE Fail(p)
    BY <2>1, <2>3 DEF Fail, KeepsAll, Places, WithRefLocks, WithPackedLock
  <2>4. CASE Verify(p)
    <3>1. PICK w \in {"lockRef", "lockPacked", "commitRefs"} : pc' = [pc EXCEPT ![p] = w]
      BY <2>4, Zenon DEF Verify
    <3>2. pc[p] = "verify"
      BY <2>4, Zenon DEF Verify
    <3>3. /\ w \in Places /\ w \in WithRefLocks
          /\ pc[p] \in Places /\ pc[p] \notin WithPackedLock
      BY <3>2 DEF Places, WithRefLocks, WithPackedLock
    <3>4. QED
      BY <2>1, <3>1, <3>3, Zenon DEF KeepsAll
  <2>5. CASE RefsCommitted(p)
    <3>1. PICK w \in {"unlockRefs", "unlink", "commitPacked"} : pc' = [pc EXCEPT ![p] = w]
      BY <2>5, Zenon DEF RefsCommitted
    <3>2. pc[p] = "commitRefs"
      BY <2>5, Zenon DEF RefsCommitted
    <3>3. /\ w \in Places /\ w \in WithRefLocks /\ w \in WithPackedLock
          /\ pc[p] \in Places
      BY <3>2 DEF Places, WithRefLocks, WithPackedLock
    <3>4. QED
      BY <2>1, <3>1, <3>3, Zenon DEF KeepsAll
  <2>6. CASE StartUpdate(p) \/ Unlinked(p)
    BY <2>1, <2>6 DEF StartUpdate, Unlinked, KeepsAll, Places, WithRefLocks, WithPackedLock
  <2>7. QED
    BY <1>1, <2>2, <2>3, <2>4, <2>5, <2>6, Zenon
<1>2. CASE \/ CommitPacked(p) \/ PackResolve(p) \/ PackCommit(p) \/ DeletePacked(p)
           \/ StartRead(p) \/ Stat(p) \/ Open(p) \/ PackedRead(p)
  <2>1. UNCHANGED locks
    BY <1>2, Zenon DEF CommitPacked, PackResolve, PackCommit, DeletePacked, StartRead, Stat,
       Open, PackedRead
  <2>2. \/ Moves(p, {"commitPacked"}, {"unlink"})
        \/ Moves(p, {"packResolve"}, {"packScan"})
        \/ Moves(p, {"packScan"}, {"packUnlock"})
        \/ Moves(p, {"deletePacked"}, {"deleteUnlock"})
        \/ Moves(p, {"idle"}, {"stat"})
        \/ Moves(p, {"stat", "open", "packedRead"}, {"stat", "open", "packedRead", "done"})
    BY <1>2, Zenon DEF CommitPacked, PackResolve, PackCommit, DeletePacked, StartRead, Stat,
       Open, PackedRead
  <2>3. KeepsAll(p)
    BY <2>1, <2>2 DEF KeepsAll, Places, WithRefLocks, WithPackedLock
  <2>4. QED
    BY <2>3, Zenon
<1>3. CASE \E r \in Refs : \/ UnlinkLoose(p, r) \/ PackStat(p, r) \/ PruneRef(p, r)
                           \/ DeleteRef(p, r)
  <2>1. UNCHANGED locks
    BY <1>3, Zenon DEF UnlinkLoose, PackStat, PruneRef, DeleteRef
  <2>2. \/ pc[p] = "unlink" /\ pc' = pc
        \/ Moves(p, {"packScan"}, {"packScan", "packResolve"})
        \/ Moves(p, {"prune", "deleteNext"}, {"lockRef"})
    BY <1>3, Zenon DEF UnlinkLoose, PackStat, PruneRef, DeleteRef
  <2>3. pc' = pc => pc' = [pc EXCEPT ![p] = pc[p]]
    BY Zenon DEF LockTypes
  <2>4. KeepsAll(p)
    BY <2>1, <2>2, <2>3 DEF KeepsAll, Places, WithRefLocks, WithPackedLock
  <2>5. QED
    BY <2>4, Zenon
<1>4. CASE \/ LockPacked(p) \/ StartPack(p) \/ StartDelete(p) \/ \E r \in Refs : LockRef(p, r)
  BY <1>4, Zenon DEF LockPacked, StartPack, StartDelete, LockRef, Takes
<1>5. CASE UnlockRefs(p) \/ UnlockPacked(p) \/ PackUnlock(p) \/ DeleteUnlock(p) \/ Quit(p)
  BY <1>5, AfterPlaces, Zenon DEF UnlockRefs, UnlockPacked, PackUnlock, DeleteUnlock, Quit,
     Removes
<1>6. CASE \E r \in Refs : CommitRef(p, r)
  BY <1>6, Zenon DEF CommitRef, Removes
<1>7. QED
  BY <1>1, <1>2, <1>3, <1>4, <1>5, <1>6, Zenon DEF Step

LEMMA LockStep ==
  ASSUME LockTypes, LocksAreInUse, NEW p \in Procs, Step(p)
  PROVE  LockTypes' /\ LocksAreInUse'
<1>1. KeepsAll(p) \/ Takes(p) \/ Removes(p)
  BY LockStepKinds, Zenon
<1>2. None \notin Procs
  BY ConstantsOK, Zenon
<1>3. CASE KeepsAll(p)
  BY <1>3 DEF KeepsAll, LockTypes, LocksAreInUse, locks
<1>4. CASE Takes(p)
  BY <1>4 DEF Takes, Moves, LockTypes, LocksAreInUse, Places, WithRefLocks, WithPackedLock
<1>5. CASE Removes(p)
  BY <1>2, <1>5 DEF Removes, Moves, LockTypes, LocksAreInUse, Places, WithRefLocks,
     WithPackedLock
<1>6. QED
  BY <1>1, <1>3, <1>4, <1>5, Zenon

\* On every path the locks are removed before the command goes on, and no command
\* waits for a lock while it has packed-refs.lock.
THEOREM LocksAreAccountedFor == Spec => []LocksAreInUse
<1>1. Init => LockTypes /\ LocksAreInUse
  BY ConstantsOK DEF Init, LockTypes, LocksAreInUse, Places
<1>2. LockTypes /\ LocksAreInUse /\ [Next]_vars => LockTypes' /\ LocksAreInUse'
  <2>1. CASE UNCHANGED vars
    BY <2>1, Zenon DEF vars, locks, LockTypes, LocksAreInUse
  <2>2. CASE Next
    BY <2>2, LockStep, Zenon DEF Next
  <2>3. QED
    BY <2>1, <2>2, Zenon
<1>3. QED
  BY <1>1, <1>2, PTL DEF Spec
=============================================================================
