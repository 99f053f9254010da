SPECIFICATION FairSpec
CONSTANTS
  MaxEvents = 4
  MaxOpen = 1
  QueueSize = 1
  MaxDrops = 0
  MaxMissed = 0
  MaxConns = 2
  Past = TRUE
PROPERTY AllReceived
CHECK_DEADLOCK FALSE
