SPECIFICATION Spec
CONSTANTS
  Bounds <- MCBounds
  Jobs <- MCJobs
INVARIANTS
  InputAccounted
  ProofAvoidsConflicts
  ViewsAreTrue
  BuiltIsValid
  SummaryJoinsErrors
CHECK_DEADLOCK FALSE
