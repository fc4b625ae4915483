SPECIFICATION Spec
CONSTANTS
  Clients = {"a", "b"}
  QueueSize = 1
  Casts <- MCCasts
  MaxCasts = 3
PROPERTY EveryBroadcastEnds
CHECK_DEADLOCK FALSE
