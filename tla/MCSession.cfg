CONSTANTS
  MaxBatchSize = 2
  max_waiting = 2
  capacity_tokens = 4
  system_prompts <- NoPrompts
  HISTORY_LEN = 2
  EVENT_LOG_LEN = 2
  TRAFFIC_QUEUE_LIMIT = 1
  TrafficEvery = 2
  ForkEvery = 2
  TrafficLen = {1}
  TrafficNew = {2}
  Commands <- SomeCommands
  MaxTick = 2
  MaxId = 2
  Interval = 2
  IdleTimeout = 2
  PAGE_HISTORY_LEN = 2
  PAGE_EVENT_LOG_LEN = 2
  Unreadable = Unreadable
  MaxCommand = 2
SPECIFICATION FairSpec
CHECK_DEADLOCK FALSE
INVARIANTS
  MirrorConverges
PROPERTIES
  TicksSpaced
  CommandsSettled
  SilentSessionEnds
