SPECIFICATION Spec
CONSTANTS
  Device = {d0, d1}
  Job = {stars, ffts}
  MaxTask = 3
  NoJob = NoJob
INVARIANT
  TaskSafe
CHECK_DEADLOCK FALSE
