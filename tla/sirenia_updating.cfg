SPECIFICATION MCSpec
CONSTANTS
  p1 = p1
  p2 = p2
  p3 = p3
  Peers = {p1, p2, p3}
  WALs = {0}
  SingletonModes = {FALSE}
  Lingering = FALSE
  MaxInc = 1
  MaxIndex = 4
  MaxReg = 2
  MaxFaults = 1
  MaxLosses = 1
  Reconnects = FALSE
  Scenes = {"lost"}
INVARIANT OneUpdateAtATime
CHECK_DEADLOCK FALSE
