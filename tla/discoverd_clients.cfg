SPECIFICATION MCSpec
CONSTANTS
  Parts = {"deployment", "deployment_fair", "expiry", "expiry_restarts", "watch"}
  Ids = {"i1", "i2"}
  Servers = {"s1", "s2"}
  TTL = 2
  LostNotices = FALSE
  Restarts = FALSE
  MaxChanges = 2
  Addrs = {"a1", "a2"}
  MaxCreates = 2
  MaxRestarts = 1
  MaxLost = 1
  Timeouts = TRUE
INVARIANTS OneMarked OnePerforming LiveNotMarked
PROPERTIES FollowsLife CatchesUp DeploymentsEnd
CHECK_DEADLOCK FALSE
