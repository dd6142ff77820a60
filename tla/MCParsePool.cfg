CONSTANTS
  w1 = w1
  w2 = w2
  N = 4
  Workers <- MCWorkers
  NCPU = 2
  FromFileList <- MixedList
  PathOf <- DistinctPaths
  Pipelined = TRUE
  MayFail <- AllFailures
  MaxSpurious = 1
SPECIFICATION FairSpec
CHECK_DEADLOCK FALSE
INVARIANTS AssertHolds ParsedOnce CountersExact NoEarlyExit NoLostWakeup WorkIsAttended NeverStuck
PROPERTIES SlotsWrittenOnce DeliversInOrder NoIdleRound MainTerminates ErrorReported
