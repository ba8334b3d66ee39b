SPECIFICATION Spec
CONSTANTS
  None = None
  Amsterdam = TRUE
  Origins <- Both
  genesis_diff = g
  Transactions = {t1, t2}
  Diffs = {d1}
  Delays = {0, 1}
  Intervals = {0, 2}
  ReusedHashes = TRUE
  MaxBlocks = 5
INVARIANTS EveryNumberOnce DiffsExact TransactionIndexExact
PROPERTY ImplementsEagerChain
