CONSTANTS
  w1 = w1
  w2 = w2
  N = 3
  Workers <- MCWorkers
  NCPU = 2
  FromFileList <- WholeList
  PathOf <- RepeatedPath
  Pipelined = TRUE
  MayFail <- NoFailures
  MaxSpurious = 0
SPECIFICATION FairSpec
CHECK_DEADLOCK FALSE
PROPERTY ListedFilesAreLinked
