SPECIFICATION ReplaySpec
CONSTANTS
  Buffer = {b1, b2}
  KernelTaskTime = 2
  ReplayTime = 2
  MaxMalloc = 3
  MaxLaunch = 3
  Null = Null
  Garbage = Garbage
INVARIANT
  ReplaySafe
CHECK_DEADLOCK FALSE
