----------------------------- MODULE MCRefStore -----------------------------
(* Instances of RefStore for TLC.  Either every command writes a value of   *)
(* its own, named after the command, or they all write a value that         *)
(* references have had before.                                              *)
EXTENDS RefStore, TLC

CONSTANTS v0, p1, p2, p3, p4, r1, r2

MCProcs == {p1, p2, p3, p4}
MCRefs == {r1, r2}
MCValues == MCProcs \cup {v0}
MCWritesOwn == [p \in MCProcs |-> {p}]
MCWritesAgain == [p \in MCProcs |-> {v0}]

\* Two kinds of states to start in, which commands can leave behind: two of them
\* are done and the others use both references, r2 being packed; or one has crashed
\* with the lock of r2, which does not exist, and the others use r1.
MCInit ==
  /\ loose \in [Refs -> Initial \cup {None}]
  /\ packed \in [Refs -> Initial \cup {None}]
  /\ packedLock = None
  /\ \/ /\ pc = [p \in Procs |-> IF p \in {p1, p2} THEN "idle" ELSE "done"]
        /\ refLock = [r \in Refs |-> None]
        /\ packed[r2] # None
     \/ /\ pc = [p \in Procs |-> IF p = p4 THEN "crashed" ELSE "idle"]
        /\ refLock = [r \in Refs |-> IF r = r2 THEN p4 ELSE None]
        /\ loose[r2] = None /\ packed[r2] = None
  /\ InitMemory

\* Commands that name r2 while its lock is left behind find nothing or fail: they
\* are not followed.  Packing looks for r2 first, which is as good as later.
MCUseful ==
  refLock[r2] = p4 => \A p \in Procs :
    /\ r2 \notin todo[p]
    /\ kind[p] = "delete" => r2 \notin queue[p]
    /\ kind[p] = "read" => cur[p] # r2
    /\ kind[p] = "pack" /\ r2 \in queue[p] => r1 \in queue[p]

MCSpec == MCInit /\ [][Next]_vars

MCSymmetry == Permutations({p1, p2, p3})
=============================================================================
