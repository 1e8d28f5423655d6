CONSTANTS
  NumBlocks = 2
  MaxRefCount = 2
  MaxEntry = 99
  Chunk = {}
  PrefixCaching = FALSE
  BlockSize = 2
  MaxBatchSize = 2
  Requests <- OneRequest
  ForkNew = {3}
  MaxSeqs = 2
SPECIFICATION FairSpec
PROPERTY EverySequenceEnds
