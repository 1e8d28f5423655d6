CONSTANTS
  NumBlocks = 4
  MaxRefCount = 3
  MaxEntry = 99
  Token = {1, 2}
  StopTokens = {2}
  Chunk <- MCChunk
  PrefixCaching = TRUE
  BlockSize = 2
  MaxBatchSize = 3
  Requests <- MCRequests
  ForkNew = {}
  MaxSeqs = 4
  NumLayers = 2
  Prompts <- SharedPrompts
SPECIFICATION EngineSpec
INVARIANTS
  AttentionReadsOwnContext
  EngineMatchesScheduler
  WorkConserving
PROPERTIES
  ImplementsGeneration
