SPECIFICATION MCSpec
CONSTANTS
  p1 = p1
  p2 = p2
  p3 = p3
  Peers = {p1, p2, p3}
  WALs = {0, 1}
  SingletonModes = {TRUE, FALSE}
  Lingering = TRUE
  MaxInc = 2
  MaxIndex = 6
  MaxReg = 4
  MaxFaults = 1
  MaxLosses = 1
  Reconnects = TRUE
  Scenes = {"restart", "lost", "reconnect", "log", "singleton"}
INVARIANTS OnePrimaryPerGeneration ChainInv OneRoleEach TargetsSync
PROPERTIES GenerationSteps
CHECK_DEADLOCK FALSE
