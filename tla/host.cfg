SPECIFICATION MCSpec
CONSTANTS
  Jobs = {"j1", "j2"}
  Sharing = {"j1", "j2"}
  Stubborn = {"j2"}
  MaxRefused = 1
  MaxUpdates = 1
  MaxCrashes = 0
  MaxFaults = 1
  MaxUnreached = 1
  StopEarly = FALSE
  Requests = {"r1", "r2"}
  Kinds = {"NewVolume", "ImportFilesystem", "CreateSnapshot", "ForkVolume", "DestroyVolume"}
  Names = {"v1", "v2", "v3", "layer"}
  Layers = {"layer"}
  Given = {"v1"}
  Resumes = FALSE
  MaxRequests = 4
  MaxRestarts = 1
  MaxClosings = 0
  MaxErrors = 0
  None = "none"
  Parts = {"jobs", "jobs_stop", "jobs_close", "jobs_crash", "volumes", "volumes_receive", "volumes_close"}
INVARIANTS VolumesExclusive VolumesKept DownIsDown Restorable
PROPERTIES JobsSettle Closed
CHECK_DEADLOCK FALSE
