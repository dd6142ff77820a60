---------------------------- MODULE MCDeadStrip ----------------------------
(* Instances of DeadStrip for TLC.                                         *)
EXTENDS DeadStrip, TLC

CONSTANTS a1, a2, a3, null

MCAtoms == {a1, a2, a3}
AllInputs == {"none", "input"}

\* With bitcode there are two graphs, so each is smaller.
Two == [b \in AllInputs |-> IF b = "none" THEN 2 ELSE 1]
TwoOrNone == [b \in AllInputs |-> IF b = "none" THEN 2 ELSE 0]
OneOrNone == [b \in AllInputs |-> IF b = "none" THEN 1 ELSE 0]
One == [b \in AllInputs |-> 1]
Symmetry == Permutations(MCAtoms)
=============================================================================
