CONSTANTS
  MaxBatchSize = 2
  max_waiting = 2
  capacity_tokens = 4
  system_prompts <- OnePrompt
  HISTORY_LEN = 3
  EVENT_LOG_LEN = 4
  TRAFFIC_QUEUE_LIMIT = 1
  TrafficEvery = 1
  ForkEvery = 2
  TrafficLen = {1}
  TrafficNew = {1, 2}
  Commands <- SomeCommands
  MaxTick = 4
  MaxId = 4
SPECIFICATION SimSpec
CHECK_DEADLOCK FALSE
INVARIANTS
  BooksExact
  QueueOrder
  LogTellsState
