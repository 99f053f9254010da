SPECIFICATION Spec
CONSTANTS
  Jobs = {"j1", "j2"}
  Sharing = {"j1", "j2"}
  Stubborn = {"j2"}
  MaxRefused = 0
  MaxUpdates = 0
  MaxCrashes = 0
  MaxFaults = 0
  MaxUnreached = 0
  StopEarly = TRUE
INVARIANT VolumesExclusive
CHECK_DEADLOCK FALSE
