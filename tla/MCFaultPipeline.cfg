SPECIFICATION PipelineSpec
CONSTANTS
  Plans <- MCPlans
  Material <- MCMaterial
  TraceOf <- MCTraceOf
INVARIANTS
  StateNeverAhead
  EndIsCurrent
  PageIsBacked
  OwnPublicationKeepsLookup
  PublicationSound
PROPERTIES
  OthersKept
  WorkIsFresh
CHECK_DEADLOCK FALSE
