SPECIFICATION Spec
CONSTANTS
  Bounds <- MCBounds
  Jobs <- MCJobs
INVARIANT
  WrittenIsValid
CHECK_DEADLOCK FALSE
