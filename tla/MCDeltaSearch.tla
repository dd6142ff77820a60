--------------------------- MODULE MCDeltaSearch ---------------------------
(* Instances of DeltaSearch for TLC: objects without names, and paths     *)
(* with boundaries inside the stolen halves and outside.                    *)
EXTENDS DeltaSearch

NoNames == [o \in Objects |-> 0]
Paths(k) == [o \in Objects |-> 1 + o \div k]
MCHashes == {NoNames, Paths(3), Paths(8)}
=============================================================================
