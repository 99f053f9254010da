SPECIFICATION MCSpec
CONSTANTS
  Hosts = {"h1", "h2"}
  Subnets = {"s1", "s2"}
  Wanted <- wanted
  MaxLost = 1
  MaxRestarts = 2
  MaxResumes = 0
  Kind = "postgres"
  Peers = {"a", "b"}
  Singleton = FALSE
  Unrepaired = FALSE
  MaxChanges = 3
  MaxErrors = 1
  MaxExits = 1
  MaxStalls = 1
  None = "none"
  Parts = {"postgres", "postgres_faults", "mariadb", "mongodb", "singleton", "router_http", "router_update", "router_tcp", "router_resume", "flannel", "flannel_resume", "flannel_three"}
INVARIANTS SafeWrites NoSharedSubnet
PROPERTIES Serves RoutesFollow Routed
CHECK_DEADLOCK FALSE
