CONSTANTS
  a1 = a1
  a2 = a2
  a3 = a3
  NoAtom = none
  Atoms <- MCAtoms
  Attributes <- MCAttributes
SPECIFICATION Spec
CHECK_DEADLOCK FALSE
SYMMETRY Symmetry
INVARIANTS OneSurvivor BestKept DuplicatesNoticed
