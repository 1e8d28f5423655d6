CONSTANTS
  NumBlocks = 3
  MaxRefCount = 4
  MaxEntry = 99
  Chunk = {}
  PrefixCaching = FALSE
  BlockSize = 3
  MaxBatchSize = 4
  Requests <- ShortRequests
  ForkNew = {2}
  MaxSeqs = 4
SPECIFICATION Spec
INVARIANT CopiesSafeInParallel
