SPECIFICATION Spec
CONSTANTS
  TaskTime = 2
  ReplayTime = 2
  MaxLaunch = 2
  MaxFault = 2
INVARIANT
  AnalysisSafe
PROPERTIES
  TaskStopReturns
CHECK_DEADLOCK FALSE
