CONSTANTS
  a1 = a1
  a2 = a2
  a3 = a3
  null = null
  Atoms <- MCAtoms
  NoAtom <- null
  Inputs = {"none"}
  MaxFanOut <- One
  MaxRoots <- One
  MaxSupports <- TwoOrNone
SPECIFICATION Spec
CHECK_DEADLOCK FALSE
SYMMETRY Symmetry
INVARIANT LiveSupportComplete
