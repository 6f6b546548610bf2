SPECIFICATION FairIngest
CONSTANTS
  a = a
  b = b
  c = c
  Universe <- MCUniverse
  Required = {a}
  ChunkSize = 1
  Workers = 1
  FlushAt = 2
  Period = 2
  MaxAge = 0
  LastTime = 2
  MaxStart = 2
INVARIANT AvailableIsStored
PROPERTIES UnfinishedIsRevised RefreshEnds
CHECK_DEADLOCK FALSE
