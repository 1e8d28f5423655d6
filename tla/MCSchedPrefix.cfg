CONSTANTS
  a = a
  b = b
  NumBlocks = 4
  MaxRefCount = 3
  MaxEntry = 99
  Chunk = {a, b}
  PrefixCaching = TRUE
  BlockSize = 2
  MaxBatchSize = 3
  Requests <- PrefixRequests
  ForkNew = {2}
  MaxSeqs = 4
SPECIFICATION SpecB
INVARIANTS
  OwnershipExact
  AdmissionNeverPreempts
  PromptBlocksHoldPrompt
  PrefixesReachable
  WritesArePrivate
PROPERTIES
  AllocSpec
  ImplementsBatching
