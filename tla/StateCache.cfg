SPECIFICATION Spec
CONSTANTS
  Addresses = {a}
  Slots = {1}
  Values = {0, 1}
  Infos = {i1, i2}
  Empty = Empty
  None = None
  TxKinds = {"touch", "create"}
  MaxTransactions = 2
  max_cached_states = 2
  Faulty = TRUE
  MaxStateId = 4
  MaxBlocks = 3
  MaxSnapshots = 1
INVARIANTS CacheCoherent SnapshotsRestorable
PROPERTY HistoryIsFixed
