CONSTANTS
  p1 = p1
  p2 = p2
  Page = {p1, p2}
  Development = {p2}
  MAX_SESSIONS = 1
  MaxSockets = 3
  MaxCommand = 2
SPECIFICATION FairSpec
CHECK_DEADLOCK FALSE
INVARIANTS
  PermitsExact
  CurrentSocket
PROPERTIES
  PageSettles
