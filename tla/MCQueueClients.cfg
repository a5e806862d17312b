SPECIFICATION ClientsSpec
CONSTANTS
  Thread = {t1, t2, t3}
  Item = {a, b}
  NoItem = NoItem
  Capacity = 2
  MaxBatch = 3
  MaxPush = 4
INVARIANT
  QueueSafe
PROPERTIES
  QuitReleases
  QueueIsChannel
CHECK_DEADLOCK FALSE
