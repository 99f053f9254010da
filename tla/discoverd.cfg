SPECIFICATION MCSpec
CONSTANTS
  i1 = i1
  i2 = i2
  Parts = {"by_hand", "metadata", "oldest", "watch", "watch_replaced"}
  Ids = {i1, i2}
  InstMetas = {"a", "b"}
  Servers = {"s1", "s2"}
  Writers = {"w1", "w2"}
  Configs = {"oldest"}
  Removals = FALSE
  LeaderWrites = FALSE
  MaxLog = 4
  MaxRequests = 2
  MaxRestarts = 0
  MaxEntries = 3
  BufferSize = 5
  MaxDisconnects = 1
  MaxGiveUps = 0
  MaxSnapshots = 0
SYMMETRY Symmetric
INVARIANTS OldestLeads NoLostUpdate InSync
PROPERTIES AdapterNeverBack
CHECK_DEADLOCK FALSE
