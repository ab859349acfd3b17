\* Two sessions open, launch, wait and close while the board fails and is reset.
SPECIFICATION ResetFairSpec
CONSTANTS
  Sess = {0, 1}
  NumTq = 1
  Capacity = 1
  U32 = 8
  MaxLaunch <- OneLaunch
  MaxBatch = 1
  MaxPause = 0
  MaxFault = 1
  MaxReset = 1
INVARIANTS
  NoCompletionCrossesReset
  QuiescentAfterReset
  LostTasksAreReported
  FreedIsUnreferenced
  WaitHonestBeforeReset
PROPERTIES
  ResetEnds
CHECK_DEADLOCK FALSE
