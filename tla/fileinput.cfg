CONSTANTS
  Resources = {1, 2}
  DryRun = FALSE
  N = 2
  Size <- mcSize
  Records <- mcRecords
  EofOnly = {}
  Faulty = {2}
  Capacity = 1
  MaxRuns = 2
CHECK_DEADLOCK FALSE
SPECIFICATION FairSpec
INVARIANTS KnownIsComplete MarkedIsKnown StoppedIsSaved QuietAfterStop
PROPERTY StopReturns
