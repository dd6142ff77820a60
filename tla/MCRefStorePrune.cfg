CONSTANTS
  v0 = v0
  p1 = p1
  p2 = p2
  p3 = p3
  p4 = p4
  r1 = r1
  r2 = r2
  Procs <- MCProcs
  Refs <- MCRefs
  Values <- MCValues
  None = None
  Initial = {v0}
  Writes <- MCWritesAgain
  Kinds = {"update", "pack"}
CONSTRAINT MCUseful
SYMMETRY MCSymmetry
SPECIFICATION MCSpec
PROPERTIES PruneKeepsValue
CHECK_DEADLOCK FALSE
