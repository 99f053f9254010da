SPECIFICATION MCSpec
CONSTANTS
  h1 = h1
  h2 = h2
  Critical = {FALSE, TRUE}
  Clients = {"a", "b"}
  Counts = {0, 1}
  MaxRequests = 2
  MaxBreaks = 0
  MaxErrors = 0
  Deletes = FALSE
  Syncs = FALSE
  Hosts = {h1, h2}
  formation <- formations
  MaxOpen = 1
  MaxMissed = 1
  Past = TRUE
  NoHost = "none"
  MaxJobs = 3
  Sizes = {0, 1, 2}
  MaxScales = 0
  MaxExits = 1
  MaxRefused = 0
  MaxLost = 0
  MaxLate = 1
  MaxLeaders = 0
  MaxTags = 0
  MaxDowns = 0
  ProcessTypes <- sorted
  Processes <- processes
  Deployments <- deployments
  MaxStops = 1
  MaxFailed = 1
  MaxTimeouts = 2
  Parts = {"persist", "jobs", "jobs_errors", "jobs_tags", "scale", "scale_breaks", "scale_errors", "scale_sync", "events", "deploy"}
  Types = {"web", "job"}
  MaxEvents = 3
  QueueSize = 1
  MaxDrops = 1
  MaxConns = 2
  Jobs = {"j1", "j2"}
  Volumes = {}
  Requests = {"r1"}
  MaxStates = 2
  BufferSize = 3
  Break = FALSE
SYMMETRY Symmetric
INVARIANTS ScaleAfterJobs NoStray LastWins InOrder EnoughJobs
PROPERTIES NeverBack CompleteMeansScaled
CHECK_DEADLOCK FALSE
