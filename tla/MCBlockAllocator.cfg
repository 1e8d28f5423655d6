CONSTANTS
  NumBlocks = 3
  Capacity = 3
  NIL = 99
  MaxRefCount = 2
  MaxEntry = 5
  Chunk = {c1, c2}
  PrefixCaching = TRUE
SPECIFICATION PoolSpec
INVARIANTS
  AllocTypeOK
  PoolPartition
  IndexConsistent
  ListsAgree
PROPERTIES
  EntriesNeverReused
CHECK_DEADLOCK FALSE
