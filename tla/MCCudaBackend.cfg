CONSTANTS
  NumLayers = 2
  NumBlocks = 3
  BlockSize = 2
  NumKvHeads = 2
  HeadDim = 1
  Elem <- MCElem
  Zero <- MCZero
  Calls <- GoodCalls
  Queries <- MCQueries
  MaxCalls = 2
SPECIFICATION Spec
INVARIANTS
  BackendsAgree
  NoThreadRace
  AttentionReadsContext
PROPERTIES
  ImplementsStore
CHECK_DEADLOCK FALSE
