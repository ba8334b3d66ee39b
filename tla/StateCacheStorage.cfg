SPECIFICATION Spec
CONSTANTS
  Addresses = {a}
  Slots = {1, 2}
  Values = {0, 1}
  Infos = {i1}
  Empty = Empty
  None = None
  TxKinds = {"touch"}
  MaxTransactions = 1
  max_cached_states = 2
  Faulty = FALSE
  MaxStateId = 6
  MaxBlocks = 2
  MaxSnapshots = 0
INVARIANT CacheCoherent
