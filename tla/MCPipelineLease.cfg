CONSTANTS
  Owner = {o1, o2}
  NoOwner = NoOwner
  TTL = {1, 2}
  MaxGeneration = 3
SPECIFICATION FairSpec
PROPERTIES ImplementsRecord OrphanLapses
CHECK_DEADLOCK FALSE
