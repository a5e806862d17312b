SPECIFICATION Spec
CONSTANTS
  r1 = r1
  r2 = r2
  Reader <- MCReader
  HashId <- MCHashId
  NoReader = NoReader
  ThreadNum = 2
  MaxScheduling = 2
INVARIANT
  PollSafe
PROPERTIES
  StopReturns
CHECK_DEADLOCK FALSE
