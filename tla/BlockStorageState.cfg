SPECIFICATION Spec
CONSTANTS
  None = None
  Amsterdam = TRUE
  Origins <- OnlyForked
  genesis_diff = g
  Transactions = {t1, t2}
  Diffs = {d1, d2}
  Delays = {1}
  Intervals = {0, 2}
  ReusedHashes = FALSE
  MaxBlocks = 5
INVARIANT StateAtBlockExact

