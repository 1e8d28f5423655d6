CONSTANTS
  NumBlocks = 3
  MaxRefCount = 4
  MaxEntry = 99
  Chunk = {"a"}
  PrefixCaching = TRUE
  BlockSize = 3
  MaxBatchSize = 4
  Requests <- MixedRequests
  ForkNew = {2}
  MaxSeqs = 4
SPECIFICATION FairSpec
INVARIANTS
  CopiesSafeInOrder
  ArrivalOrder
  TokenBudget
PROPERTIES
  EverySequenceEnds
