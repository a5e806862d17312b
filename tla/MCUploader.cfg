SPECIFICATION Spec
CONSTANTS
  Owner = owner
  Sender = sender
  Producer = {p1, p2}
  Capacity = 1
  MaxChunk = 2
INVARIANT
  UploaderSafe
PROPERTIES
  DroppedIsDestroyed
  ImplementsChannel
CHECK_DEADLOCK FALSE
