CONSTANTS
  N = 4
  MayFail <- AllFailures
SPECIFICATION FairSpec
CHECK_DEADLOCK FALSE
INVARIANTS ErrorNotLost NeverStarved
PROPERTIES DeliversInOrder MainTerminates
