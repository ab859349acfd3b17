\* Two sessions share one queue with one hardware slot; a pause, no errors: progress.
SPECIFICATION FairSpec
CONSTANTS
  Sess = {0, 1}
  NumTq = 1
  Capacity = 1
  U32 = 8
  MaxLaunch <- OneLaunch
  MaxBatch = 1
  MaxPause = 1
  MaxFault = 0
PROPERTIES
  EveryTaskCompletes
  PauseCompletes
  ClosedIsFreed
CHECK_DEADLOCK FALSE
