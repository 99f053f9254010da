SPECIFICATION MCSpec
CONSTANTS
  h1 = h1
  h2 = h2
  Critical = {FALSE, TRUE}
  Clients = {"a", "b"}
  Counts = {0, 1}
  MaxRequests = 2
  MaxBreaks = 0
  MaxErrors = 0
  Deletes = FALSE
  Syncs = FALSE
  Hosts = {h1, h2}
  formation <- formations
  MaxOpen = 1
  MaxMissed = 1
  Past = TRUE
  NoHost = "none"
  MaxJobs = 3
  Sizes = {0, 1, 2}
  MaxScales = 0
  MaxExits = 1
  MaxRefused = 0
  MaxLost = 0
  MaxLate = 1
  MaxLeaders = 0
  MaxTags = 0
  MaxDowns = 0
  ProcessTypes <- sorted
  Processes <- processes
  Deployments <- deployments
  MaxStops = 1
  MaxFailed = 2
  MaxTimeouts = 1
  Types = {"web"}
  MaxEvents = 3
  QueueSize = 3
  MaxDrops = 1
  MaxConns = 2
  Jobs = {"j1"}
  Volumes = {"v1"}
  Requests = {"r1"}
  MaxStates = 1
  BufferSize = 2
  Break = TRUE
  Parts = {"persist", "scale_clients", "scale_lost", "events", "deploy"}
PROPERTIES  AllReceived AllPersisted DeployEnds
CHECK_DEADLOCK FALSE
