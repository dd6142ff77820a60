---------------------------- MODULE MCParsePool ----------------------------
(* Instances of ParsePool for TLC.                                         *)
EXTENDS ParsePool

CONSTANTS w1, w2

MCWorkers == {w1, w2}

NoFailures == {}
AllFailures == FailureKinds

\* Four files, the second and the fourth from a file list.
MixedList == {1, 3}
\* Every file is from a file list.
WholeList == Slots
DistinctPaths == [s \in Slots |-> s]
\* The first and the last file have the same path.
RepeatedPath == [s \in Slots |-> IF s = N-1 THEN 0 ELSE s]
=============================================================================
