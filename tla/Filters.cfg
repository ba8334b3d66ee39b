SPECIFICATION Spec
CONSTANTS
  None = None
  a = a
  b = b
  t = t
  u = u
  fork_block_number = 2
  Addresses <- MCAddresses
  Topics <- MCTopics
  RemoteLogs <- MCRemoteLogs
  LogLists <- MCLogLists
  FalsePositives <- MCFalsePositives
  LogFilterOptions <- MCLogFilterOptions
  Lifetime = 1
  MaxNow = 2
  MaxBlocks = 5
  MaxTransactions = 1
  MaxFilters = 1
INVARIANTS NoEventLost EventsInOrder OnlyWanted
PROPERTY OnlyIdleRemoved
