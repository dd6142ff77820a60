CONSTANTS
  N = 16
  T = 3
  W = 2
  Hashes <- MCHashes
SPECIFICATION FairSpec
CHECK_DEADLOCK FALSE
INVARIANTS SearchedOnce HandsToWaiting NobodyLeftBehind NeverStuck
PROPERTIES ReadOutsideLock NoIdleRound SearchEnds
