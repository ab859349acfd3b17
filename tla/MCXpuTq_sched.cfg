\* Two sessions share one queue with two hardware slots; a pause, an error.
SPECIFICATION Spec
CONSTANTS
  Sess = {0, 1}
  NumTq = 1
  Capacity = 2
  U32 = 8
  MaxLaunch <- FirstTwice
  MaxBatch = 2
  MaxPause = 1
  MaxFault = 1
INVARIANTS
  TypeOK
  CountsDescribeQueue
  HardwareMirrorsPrefix
  PausedIsQuiescent
CHECK_DEADLOCK FALSE
