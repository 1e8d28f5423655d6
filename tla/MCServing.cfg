CONSTANTS
  Client = {c1, c2}
  Asks <- SomeAsks
  NoMax = NoMax
  default_max_tokens = 2
  max_context = 5
  max_in_flight = 1
  Capacity = 5
  StepFails = TRUE
SPECIFICATION ReadingSpec
CHECK_DEADLOCK FALSE
INVARIANTS
  InFlightExact
  EngineHoldsLive
  MetricsExact
  GoneServedAtMostOnce
PROPERTIES
  
  ShutdownStops
