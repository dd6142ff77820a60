------------------------------ MODULE RefStore ------------------------------
(***************************************************************************)
(* The references of a Git repository, as several git commands read and    *)
(* write them at once (Git/src/git/refs/files-backend.c and                *)
(* packed-backend.c).                                                      *)
(*                                                                         *)
(* The value of a reference is in a file of its own (loose) or, if it has  *)
(* none, in the file packed-refs (packed).  Every command is a process:    *)
(*                                                                         *)
(*   update    a transaction of updates and deletions                      *)
(*   pack      files_pack_refs: copies the loose references into           *)
(*             packed-refs, then prunes the loose files                    *)
(*   delete    files_delete_refs: removes references from packed-refs all  *)
(*             at once, then each of them by a transaction                 *)
(*   read      files_read_raw_ref                                          *)
(*                                                                         *)
(* A lock is a file that open creates only if it does not exist.  A step   *)
(* is one call that other processes can observe: the creation of a lock,   *)
(* a rename, an unlink, the reading of a file.  A command may fail at any  *)
(* step, and then removes its locks; or be killed, and leave them behind.  *)
(* Reflogs, symbolic references and conflicts between the name of a        *)
(* reference and a directory are left out.                                 *)
(***************************************************************************)
EXTENDS Integers, FiniteSets

CONSTANTS
  Procs,      \* the commands; each of them runs once
  Refs,       \* the names of references
  Values,     \* the object names a reference can hold
  None,       \* no value, no lock, no reference
  Initial,    \* the values in the repository at the start
  Writes,     \* command -> the values it may write
  Kinds       \* the commands to explore, of AllKinds

AllKinds == {"update", "pack", "delete", "read"}

\* remaining_retries of read_ref_internal
Retries == 3

ASSUME ConstantsOK ==
  /\ None \notin Values \cup Procs \cup Refs
  /\ Initial \subseteq Values
  /\ Writes \in [Procs -> SUBSET Values]
  /\ Kinds \subseteq AllKinds

\* No command writes a value that another one writes or that was there before.
FreshValues ==
  \A p \in Procs :
    /\ Writes[p] \cap Initial = {}
    /\ \A q \in Procs \ {p} : Writes[p] \cap Writes[q] = {}

Oid == Values \cup {None}

VARIABLES
  loose,        \* reference -> its value in its own file
  packed,       \* reference -> its value in packed-refs
  refLock,      \* reference -> the process whose <reference>.lock exists
  packedLock,   \* the process whose packed-refs.lock exists
  pc,           \* process: where it is
  kind,         \* process: which command it is
  queue,        \* process: references still to be packed, pruned or deleted
  todo,         \* transaction: updates not yet locked
  upd,          \* transaction: references to write (REF_NEEDS_COMMIT)
  del,          \* transaction: references to delete (REF_DELETING)
  val,          \* transaction: the value it writes (new_oid)
  cur,          \* process: the reference it is working on
  verified,     \* transaction: references whose old value it has read
  old,          \* transaction: those values (lock->old_oid)
  inPacked,     \* transaction: references of type REF_ISPACKED
  got,          \* pack: the values it read
  tries,        \* read: remaining_retries
  result,       \* read: what it returned
  had,          \* history: reference -> the values it has had
  seen,         \* history: process -> what a read may return by now
  unsettled     \* history: references that a deletion removed from packed-refs
                \* only, or under the lock of another process

store   == <<loose, packed>>
history == <<had, seen, unsettled>>
locks   == <<refLock, packedLock>>
txn     == <<todo, upd, del, val, verified, old, inPacked>>
reading == <<tries, result>>
vars    == <<store, locks, pc, kind, queue, txn, cur, got, reading, history>>

\* What a reference resolves to.
Resolve(l, k, r) == IF l[r] # None THEN l[r] ELSE k[r]
Visible(r) == Resolve(loose, packed, r)

\* No command knows anything yet.
InitMemory ==
  /\ kind = [p \in Procs |-> "none"]
  /\ queue = [p \in Procs |-> {}]
  /\ todo = [p \in Procs |-> {}]
  /\ upd = [p \in Procs |-> {}]
  /\ del = [p \in Procs |-> {}]
  /\ val = [p \in Procs |-> None]
  /\ cur = [p \in Procs |-> None]
  /\ verified = [p \in Procs |-> {}]
  /\ old = [p \in Procs |-> [r \in Refs |-> None]]
  /\ inPacked = [p \in Procs |-> {}]
  /\ got = [p \in Procs |-> [r \in Refs |-> None]]
  /\ tries = [p \in Procs |-> 0]
  /\ result = [p \in Procs |-> None]
  /\ had = [r \in Refs |-> {loose[r], packed[r]}]
  /\ seen = [p \in Procs |-> {}]
  /\ unsettled = {}

Init ==
  /\ loose \in [Refs -> Initial \cup {None}]
  /\ packed \in [Refs -> Initial \cup {None}]
  /\ refLock = [r \in Refs |-> None]
  /\ packedLock = None
  /\ pc = [p \in Procs |-> "idle"]
  /\ InitMemory

Goto(p, where) == pc' = [pc EXCEPT ![p] = where]

\* While a deletion is under way a reader may find the reference missing, or a
\* value that it has had.
MayReappear(r, u) == IF r \in u THEN had[r] \cup {None} ELSE {}

\* A change of the files of the repository, with what history records of it.
Store(l, k, u) ==
  /\ loose' = l
  /\ packed' = k
  /\ unsettled' = u
  /\ had' = [r \in Refs |-> had[r] \cup {Resolve(l, k, r)}]
  /\ seen' = [p \in Procs |->
       IF pc[p] \in {"stat", "open", "packedRead"}
       THEN seen[p] \cup {Resolve(l, k, cur[p])} \cup MayReappear(cur[p], u)
       ELSE seen[p]]
-----------------------------------------------------------------------------
(* A transaction: files_transaction_prepare.                               *)

\* What a transaction is about to do is chosen with the command.
StartUpdate(p) ==
  /\ pc[p] = "idle" /\ "update" \in Kinds
  /\ \E u, d \in SUBSET Refs, v \in Writes[p] :
       /\ u \cap d = {} /\ u \cup d # {}
       /\ upd' = [upd EXCEPT ![p] = u]
       /\ del' = [del EXCEPT ![p] = d]
       /\ todo' = [todo EXCEPT ![p] = u \cup d]
       /\ val' = [val EXCEPT ![p] = IF u = {} THEN None ELSE v]
  /\ kind' = [kind EXCEPT ![p] = "update"]
  /\ Goto(p, "lockRef")
  /\ UNCHANGED <<store, locks, queue, verified, old, inPacked, cur, got, reading, history>>

\* Mutant: takes the lock of a reference although another process has it.
MutLockRef(p, r) ==
  /\ pc[p] = "lockRef"
  /\ r \in todo[p]
  /\ refLock' = [refLock EXCEPT ![r] = p]
  /\ todo' = [todo EXCEPT ![p] = @ \ {r}]
  /\ cur' = [cur EXCEPT ![p] = r]
  /\ Goto(p, "verify")
  /\ UNCHANGED <<store, packedLock, kind, queue, upd, del, val, verified, old, inPacked,
                 got, reading, history>>

\* lock_raw_ref creates the lock file; the updates are in the caller's order.
LockRef(p, r) ==
  /\ pc[p] = "lockRef"
  /\ r \in todo[p]
  /\ refLock[r] = None
  /\ refLock' = [refLock EXCEPT ![r] = p]
  /\ todo' = [todo EXCEPT ![p] = @ \ {r}]
  /\ cur' = [cur EXCEPT ![p] = r]
  /\ Goto(p, "verify")
  /\ UNCHANGED <<store, packedLock, kind, queue, upd, del, val, verified, old, inPacked,
                 got, reading, history>>

\* A pruning transaction has the value that was packed for its old value.
Pruning(p) == kind[p] = "pack"

\* Mutant: prunes whatever is there.
MutOldValueOK(p, r) == TRUE

OldValueOK(p, r) == Pruning(p) => Visible(r) = got[p][r]

\* Under the lock: reads the reference, checks the old value the caller gave, and
\* drops a write that would change nothing.  A caller of "update" may have given
\* any old value; Fail is the case that it is another one.
Verify(p) ==
  LET r == cur[p] IN
    /\ pc[p] = "verify"
    /\ OldValueOK(p, r)
    /\ verified' = [verified EXCEPT ![p] = @ \cup {r}]
    /\ old' = [old EXCEPT ![p][r] = Visible(r)]
    /\ inPacked' = [inPacked EXCEPT ![p] =
         IF loose[r] = None /\ packed[r] # None THEN @ \cup {r} ELSE @ \ {r}]
    /\ upd' = [upd EXCEPT ![p] = IF Visible(r) = val[p] THEN @ \ {r} ELSE @]
    /\ Goto(p, IF todo[p] # {} THEN "lockRef"
               ELSE IF del[p] # {} /\ ~Pruning(p) THEN "lockPacked" ELSE "commitRefs")
    /\ UNCHANGED <<store, locks, kind, queue, todo, del, val, cur, got, reading, history>>

\* Deletions hold packed-refs.lock until the end.
LockPacked(p) ==
  /\ pc[p] = "lockPacked"
  /\ packedLock = None
  /\ packedLock' = p
  /\ Goto(p, "commitRefs")
  /\ UNCHANGED <<store, refLock, kind, queue, txn, cur, got, reading, history>>
-----------------------------------------------------------------------------
(* A transaction: files_transaction_finish.                                *)

\* commit_ref renames the lock file to the loose file: the lock is gone with it.
CommitRef(p, r) ==
  /\ pc[p] = "commitRefs"
  /\ r \in upd[p]
  /\ Store([loose EXCEPT ![r] = val[p]], packed, unsettled \ {r})
  /\ refLock' = [refLock EXCEPT ![r] = None]
  /\ upd' = [upd EXCEPT ![p] = @ \ {r}]
  /\ verified' = [verified EXCEPT ![p] = @ \ {r}]
  /\ UNCHANGED <<packedLock, pc, kind, queue, todo, del, val, old, inPacked, cur, got,
                 reading>>

RefsCommitted(p) ==
  /\ pc[p] = "commitRefs"
  /\ upd[p] = {}
  /\ Goto(p, IF del[p] = {} THEN "unlockRefs"
             ELSE IF Pruning(p) THEN "unlink" ELSE "commitPacked")
  /\ UNCHANGED <<store, locks, kind, queue, txn, cur, got, reading, history>>

Without(k, d) == [r \in Refs |-> IF r \in d THEN None ELSE k[r]]
Loose(d) == {r \in d : loose[r] # None}

\* Mutant: takes a loose reference for one that is not in packed-refs.
MutCommitPacked(p) ==
  /\ pc[p] = "commitPacked"
  /\ Store(loose, Without(packed, del[p] \cap inPacked[p]), unsettled \cup Loose(del[p]))
  /\ Goto(p, "unlink")
  /\ UNCHANGED <<locks, kind, queue, txn, cur, got, reading>>

\* The rename of packed-refs.new, which is skipped if no reference is in it.
CommitPacked(p) ==
  /\ pc[p] = "commitPacked"
  /\ Store(loose, Without(packed, del[p]), unsettled \cup Loose(del[p]))
  /\ Goto(p, "unlink")
  /\ UNCHANGED <<locks, kind, queue, txn, cur, got, reading>>

UnlinkLoose(p, r) ==
  /\ pc[p] = "unlink"
  /\ r \in del[p]
  /\ Store(IF r \in inPacked[p] THEN loose ELSE [loose EXCEPT ![r] = None], packed,
           IF Pruning(p) THEN unsettled ELSE unsettled \ {r})
  /\ del' = [del EXCEPT ![p] = @ \ {r}]
  /\ UNCHANGED <<locks, pc, kind, queue, todo, upd, val, verified, old, inPacked, cur, got,
                 reading>>

Unlinked(p) ==
  /\ pc[p] = "unlink"
  /\ del[p] = {}
  /\ Goto(p, "unlockRefs")
  /\ UNCHANGED <<store, locks, kind, queue, txn, cur, got, reading, history>>
-----------------------------------------------------------------------------
(* A transaction: files_transaction_cleanup, after success and failure.    *)

\* Where the command goes on after a transaction.
After(p) == CASE kind[p] = "pack" -> "prune"
              [] kind[p] = "delete" -> "deleteNext"
              [] OTHER -> "done"

\* The transaction and what it knows are freed.
EndTransaction(p) ==
  /\ todo' = [todo EXCEPT ![p] = {}]
  /\ upd' = [upd EXCEPT ![p] = {}]
  /\ del' = [del EXCEPT ![p] = {}]
  /\ val' = [val EXCEPT ![p] = None]
  /\ verified' = [verified EXCEPT ![p] = {}]
  /\ old' = [old EXCEPT ![p] = [r \in Refs |-> None]]
  /\ inPacked' = [inPacked EXCEPT ![p] = {}]
  /\ cur' = [cur EXCEPT ![p] = None]

\* Mutant: packed-refs.lock is kept until the command ends.
MutUnlockRefs(p) ==
  /\ pc[p] = "unlockRefs"
  /\ refLock' = [r \in Refs |-> IF refLock[r] = p THEN None ELSE refLock[r]]
  /\ EndTransaction(p)
  /\ Goto(p, After(p))
  /\ UNCHANGED <<store, packedLock, kind, queue, got, reading, history>>

UnlockRefs(p) ==
  /\ pc[p] = "unlockRefs"
  /\ refLock' = [r \in Refs |-> IF refLock[r] = p THEN None ELSE refLock[r]]
  /\ EndTransaction(p)
  /\ Goto(p, IF packedLock = p THEN "unlockPacked" ELSE After(p))
  /\ UNCHANGED <<store, packedLock, kind, queue, got, reading, history>>

UnlockPacked(p) ==
  /\ pc[p] = "unlockPacked"
  /\ packedLock' = None
  /\ Goto(p, After(p))
  /\ UNCHANGED <<store, refLock, kind, queue, txn, cur, got, reading, history>>
-----------------------------------------------------------------------------
(* git pack-refs: files_pack_refs.                                         *)

StartPack(p) ==
  /\ pc[p] = "idle" /\ "pack" \in Kinds
  /\ packedLock = None
  /\ packedLock' = p
  /\ kind' = [kind EXCEPT ![p] = "pack"]
  /\ queue' = [queue EXCEPT ![p] = Refs]
  /\ Goto(p, "packScan")
  /\ UNCHANGED <<store, refLock, txn, cur, got, reading, history>>

\* loose_fill_ref_dir: readdir and stat find the loose file, or do not.
PackStat(p, r) ==
  /\ pc[p] = "packScan"
  /\ r \in queue[p]
  /\ queue' = [queue EXCEPT ![p] = @ \ {r}]
  /\ cur' = [cur EXCEPT ![p] = r]
  /\ Goto(p, IF loose[r] # None THEN "packResolve" ELSE "packScan")
  /\ UNCHANGED <<store, locks, kind, txn, got, reading, history>>

\* By now the loose file may be gone; what packed-refs says is taken then.
PackResolve(p) ==
  /\ pc[p] = "packResolve"
  /\ got' = [got EXCEPT ![p][cur[p]] = Visible(cur[p])]
  /\ Goto(p, "packScan")
  /\ UNCHANGED <<store, locks, kind, queue, txn, cur, reading, history>>

Packed(p) == {r \in Refs : got[p][r] # None}

PackCommit(p) ==
  /\ pc[p] = "packScan"
  /\ queue[p] = {}
  /\ Store(loose, [r \in Refs |-> IF r \in Packed(p) THEN got[p][r] ELSE packed[r]],
           unsettled)
  /\ queue' = [queue EXCEPT ![p] = Packed(p)]
  /\ Goto(p, "packUnlock")
  /\ UNCHANGED <<locks, kind, txn, cur, got, reading>>

\* packed_refs_unlock; Quit is the case that pruning is not asked for.
PackUnlock(p) ==
  /\ pc[p] = "packUnlock"
  /\ packedLock' = None
  /\ Goto(p, "prune")
  /\ UNCHANGED <<store, refLock, kind, queue, txn, cur, got, reading, history>>

\* prune_ref: a transaction that deletes the loose file only.
PruneRef(p, r) ==
  /\ pc[p] = "prune"
  /\ r \in queue[p]
  /\ queue' = [queue EXCEPT ![p] = @ \ {r}]
  /\ del' = [del EXCEPT ![p] = {r}]
  /\ todo' = [todo EXCEPT ![p] = {r}]
  /\ Goto(p, "lockRef")
  /\ UNCHANGED <<store, locks, kind, upd, val, verified, old, inPacked, cur, got, reading,
                 history>>
-----------------------------------------------------------------------------
(* git branch -d, git remote prune, ...: files_delete_refs.                *)

StartDelete(p) ==
  /\ pc[p] = "idle" /\ "delete" \in Kinds
  /\ packedLock = None
  /\ packedLock' = p
  /\ kind' = [kind EXCEPT ![p] = "delete"]
  /\ \E d \in SUBSET Refs \ {{}} : queue' = [queue EXCEPT ![p] = d]
  /\ Goto(p, "deletePacked")
  /\ UNCHANGED <<store, refLock, txn, cur, got, reading, history>>

\* refs_delete_refs on packed-refs: no lock of a reference is taken.
DeletePacked(p) ==
  /\ pc[p] = "deletePacked"
  /\ Store(loose, Without(packed, queue[p]),
           unsettled \cup Loose(queue[p]) \cup {r \in queue[p] : refLock[r] # None})
  /\ Goto(p, "deleteUnlock")
  /\ UNCHANGED <<locks, kind, queue, txn, cur, got, reading>>

DeleteUnlock(p) ==
  /\ pc[p] = "deleteUnlock"
  /\ packedLock' = None
  /\ Goto(p, "deleteNext")
  /\ UNCHANGED <<store, refLock, kind, queue, txn, cur, got, reading, history>>

DeleteRef(p, r) ==
  /\ pc[p] = "deleteNext"
  /\ r \in queue[p]
  /\ queue' = [queue EXCEPT ![p] = @ \ {r}]
  /\ del' = [del EXCEPT ![p] = {r}]
  /\ todo' = [todo EXCEPT ![p] = {r}]
  /\ Goto(p, "lockRef")
  /\ UNCHANGED <<store, locks, kind, upd, val, verified, old, inPacked, cur, got, reading,
                 history>>
-----------------------------------------------------------------------------
(* Reading without a lock: files_read_raw_ref.                             *)

StartRead(p) ==
  /\ pc[p] = "idle" /\ "read" \in Kinds
  /\ \E r \in Refs :
       /\ cur' = [cur EXCEPT ![p] = r]
       /\ seen' = [seen EXCEPT ![p] = {Visible(r)} \cup MayReappear(r, unsettled)]
  /\ kind' = [kind EXCEPT ![p] = "read"]
  /\ tries' = [tries EXCEPT ![p] = Retries]
  /\ Goto(p, "stat")
  /\ UNCHANGED <<store, locks, queue, txn, got, result, had, unsettled>>

\* lstat, at most Retries times; then the reference is reported as missing.
Stat(p) ==
  /\ pc[p] = "stat"
  /\ tries' = [tries EXCEPT ![p] = @ - 1]
  /\ IF tries[p] <= 0
     THEN /\ result' = [result EXCEPT ![p] = None]
          /\ Goto(p, "done")
     ELSE /\ Goto(p, IF loose[cur[p]] # None THEN "open" ELSE "packedRead")
          /\ UNCHANGED result
  /\ UNCHANGED <<store, locks, kind, queue, txn, cur, got, history>>

\* Mutant: reports a file that is gone by now as a missing reference.
MutOpen(p) ==
  /\ pc[p] = "open"
  /\ result' = [result EXCEPT ![p] = loose[cur[p]]]
  /\ Goto(p, "done")
  /\ UNCHANGED <<store, locks, kind, queue, txn, cur, got, tries, history>>

\* open and read; a file that is gone by now sends the reader back.
Open(p) ==
  /\ pc[p] = "open"
  /\ result' = [result EXCEPT ![p] = loose[cur[p]]]
  /\ Goto(p, IF loose[cur[p]] # None THEN "done" ELSE "stat")
  /\ UNCHANGED <<store, locks, kind, queue, txn, cur, got, tries, history>>

PackedRead(p) ==
  /\ pc[p] = "packedRead"
  /\ result' = [result EXCEPT ![p] = packed[cur[p]]]
  /\ Goto(p, "done")
  /\ UNCHANGED <<store, locks, kind, queue, txn, cur, got, tries, history>>
-----------------------------------------------------------------------------
(* Failures.                                                               *)

\* A lock that is not to be had in time, an old value that is not the expected
\* one, a write or a rename that fails, a signal: the transaction is cleaned up.
Fail(p) ==
  /\ pc[p] \in {"lockRef", "verify", "lockPacked", "commitRefs", "commitPacked", "unlink"}
  /\ Goto(p, "unlockRefs")
  /\ UNCHANGED <<store, locks, kind, queue, txn, cur, got, reading, history>>

\* The process ends, and its memory with it.
Exit(p) ==
  /\ EndTransaction(p)
  /\ queue' = [queue EXCEPT ![p] = {}]
  /\ got' = [got EXCEPT ![p] = [r \in Refs |-> None]]

\* The same outside a transaction, or the end of the command: packed-refs.lock
\* is removed.
Quit(p) ==
  /\ pc[p] \in {"packScan", "packResolve", "packUnlock", "prune",
                "deletePacked", "deleteUnlock", "deleteNext"}
  /\ packedLock' = IF packedLock = p THEN None ELSE packedLock
  /\ Exit(p)
  /\ Goto(p, "done")
  /\ UNCHANGED <<store, refLock, kind, reading, history>>

\* A process that is killed, or a machine that stops, leaves its locks behind.
Crash(p) ==
  /\ pc[p] \notin {"idle", "done", "crashed", "stat", "open", "packedRead"}
  /\ Exit(p)
  /\ Goto(p, "crashed")
  /\ UNCHANGED <<store, locks, kind, reading, history>>

Step(p) ==
  \/ StartUpdate(p) \/ Verify(p) \/ LockPacked(p) \/ RefsCommitted(p) \/ CommitPacked(p)
  \/ Unlinked(p) \/ UnlockRefs(p) \/ UnlockPacked(p)
  \/ StartPack(p) \/ PackResolve(p) \/ PackCommit(p) \/ PackUnlock(p)
  \/ StartDelete(p) \/ DeletePacked(p) \/ DeleteUnlock(p)
  \/ StartRead(p) \/ Stat(p) \/ Open(p) \/ PackedRead(p)
  \/ Fail(p) \/ Quit(p) \/ Crash(p)
  \/ \E r \in Refs :
       \/ LockRef(p, r) \/ CommitRef(p, r) \/ UnlinkLoose(p, r)
       \/ PackStat(p, r) \/ PruneRef(p, r) \/ DeleteRef(p, r)

Next == \E p \in Procs : Step(p)

Spec == Init /\ [][Next]_vars
-----------------------------------------------------------------------------
(* Properties.                                                             *)

Places ==
  {"idle", "lockRef", "verify", "lockPacked", "commitRefs", "commitPacked", "unlink",
   "unlockRefs", "unlockPacked", "packScan", "packResolve", "packUnlock", "prune",
   "deletePacked", "deleteUnlock", "deleteNext", "stat", "open", "packedRead",
   "done", "crashed"}

\* The variables hold what the code can store in them.
TypeOK ==
  /\ loose \in [Refs -> Oid] /\ packed \in [Refs -> Oid]
  /\ refLock \in [Refs -> Procs \cup {None}] /\ packedLock \in Procs \cup {None}
  /\ pc \in [Procs -> Places] /\ kind \in [Procs -> AllKinds \cup {"none"}]
  /\ queue \in [Procs -> SUBSET Refs]
  /\ todo \in [Procs -> SUBSET Refs]
  /\ upd \in [Procs -> SUBSET Refs] /\ del \in [Procs -> SUBSET Refs]
  /\ val \in [Procs -> Oid]
  /\ cur \in [Procs -> Refs \cup {None}]
  /\ verified \in [Procs -> SUBSET Refs] /\ inPacked \in [Procs -> SUBSET Refs]
  /\ old \in [Procs -> [Refs -> Oid]] /\ got \in [Procs -> [Refs -> Oid]]
  /\ result \in [Procs -> Oid] /\ tries \in [Procs -> Int]
  /\ had \in [Refs -> SUBSET Oid] /\ seen \in [Procs -> SUBSET Oid]
  /\ unsettled \subseteq Refs

\* The reference is what the transaction found, or it has vanished, or come back,
\* in the middle of a deletion.
StillAsRead(p, r) ==
  \/ Visible(r) = old[p][r]
  \/ r \in unsettled /\ None \in {Visible(r), old[p][r]}

\* A transaction that writes or deletes the reference, under its lock, and found
\* in it the value that it replaces.
ByTransaction(p, r) ==
  /\ refLock[r] = p /\ ~Pruning(p)
  /\ StillAsRead(p, r)
  /\ \/ r \in upd[p] /\ Visible(r)' = val[p]
     \/ r \in del[p] /\ Visible(r)' = None

\* A reference changes only by a transaction that holds its lock, from the value
\* that the transaction has read under the lock (files_transaction_finish).
\* Packing and pruning, failures and crashes change nothing.  The exceptions are
\* deletions: files_delete_refs removes references from packed-refs without their
\* locks, and a reference of which a deletion has removed the packed value may
\* vanish and reappear, as others pack and prune it, until the deletion is
\* completed or a new value is written.
OnlyCheckedChanges ==
  [][\A r \in Refs : Visible(r)' # Visible(r) =>
       \/ \E p \in Procs : ByTransaction(p, r)
       \/ Visible(r)' = None /\ \E p \in Procs : pc[p] = "deletePacked" /\ r \in queue[p]
       \/ r \in unsettled /\ None \in {Visible(r), Visible(r)'}]_vars

\* A value that was replaced or deleted never comes back: packed-refs may hold an
\* obsolete value, but no step uncovers it (files_transaction_finish).  The one
\* exception is a reference that vanished in the middle of a deletion.
NothingObsoleteExposed ==
  [][\A r \in Refs :
       Visible(r)' # Visible(r) /\ Visible(r)' \in had[r] \ {None} =>
         r \in unsettled /\ Visible(r) = None]_vars

\* From the moment a transaction has read a reference under its lock until it
\* changes it, the reference keeps that value (lock_raw_ref), unless a deletion
\* has removed it from packed-refs without its lock or without its loose file.
LockedValueStable ==
  \A p \in Procs : \A r \in verified[p] :
    pc[p] \in {"lockRef", "verify", "lockPacked", "commitRefs", "commitPacked"} =>
      /\ refLock[r] = p
      /\ StillAsRead(p, r)

\* A read that takes no lock returns a value that the reference had at some moment
\* of the read (read_ref_internal looks at two files one after the other).  There
\* are two exceptions: while a deletion is under way the reader may find nothing,
\* or an earlier value; and when the file was gone at all Retries attempts to open it,
\* the reader gives up and reports nothing (it leaves remaining_retries at -1).
ReadsAreCurrent ==
  \A p \in Procs : kind[p] = "read" /\ pc[p] = "done" =>
    result[p] \in seen[p] \/ (tries[p] < 0 /\ result[p] = None)

\* Where a command has locks of references, and where packed-refs.lock.
WithRefLocks ==
  {"lockRef", "verify", "lockPacked", "commitRefs", "commitPacked", "unlink", "unlockRefs",
   "crashed"}
WithPackedLock ==
  {"packScan", "packResolve", "packUnlock", "deletePacked", "deleteUnlock", "commitRefs",
   "commitPacked", "unlink", "unlockRefs", "unlockPacked", "crashed"}

\* A lock that is in the way belongs to a transaction or a rewriting of
\* packed-refs that is under way, or to a command that was killed: on every path,
\* after success and failure, files_transaction_cleanup and packed_refs_unlock
\* remove what was taken, before the next transaction of the command and before
\* its end.  And whoever has packed-refs.lock waits for no other lock (lockRef,
\* lockPacked), so that commands never wait for each other through it.
LocksAreInUse ==
  /\ \A p \in Procs, r \in Refs : refLock[r] = p => pc[p] \in WithRefLocks
  /\ \A p \in Procs : packedLock = p => pc[p] \in WithPackedLock

\* "make sure nobody touched the ref, and unlink": what prune_ref unlinks is in
\* packed-refs, unless a deletion has just removed it from there.
PruneKeepsValue ==
  [][\A p \in Procs, r \in Refs :
       Pruning(p) /\ UnlinkLoose(p, r) /\ r \notin unsettled => Visible(r)' = Visible(r)]_vars
=============================================================================
