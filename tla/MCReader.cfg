SPECIFICATION Spec
CONSTANTS
  MaxBuffer = 4
  UploadSize = 2
  BufSize = 3
  MaxRead = 4
  MaxScheduling = 2
  Word = 16
  MaxData = 6
  MaxError = 1
  MaxFlush = 1
INVARIANT
  ReaderSafe
PROPERTIES
  DataIsRead
  RemoveReturns
CHECK_DEADLOCK FALSE
