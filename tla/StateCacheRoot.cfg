SPECIFICATION Spec
CONSTANTS
  Addresses = {a}
  Slots = {1}
  Values = {0, 1}
  Infos = {i1, i2}
  Empty = Empty
  None = None
  TxKinds = {"touch"}
  MaxTransactions = 1
  max_cached_states = 2
  Faulty = FALSE
  MaxStateId = 6
  MaxBlocks = 3
  MaxSnapshots = 0
INVARIANT OverrideRootExact
