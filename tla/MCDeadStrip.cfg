CONSTANTS
  a1 = a1
  a2 = a2
  a3 = a3
  null = null
  Atoms <- MCAtoms
  NoAtom <- null
  Inputs <- AllInputs
  MaxFanOut <- Two
  MaxRoots <- Two
  MaxSupports <- OneOrNone
SPECIFICATION Spec
CHECK_DEADLOCK FALSE
SYMMETRY Symmetry
INVARIANTS NoDanglingEdges OnlyNeededLive RecursionBounded
