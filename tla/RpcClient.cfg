SPECIFICATION Spec
CONSTANTS
  None = None
  Floats <- MCFloats
  One <- MCOne
  Callers = {c1, c2}
  Requests <- MCRequests
  Transactions = {}
  safe_block_depth = 2
  MaxReorg = 1
  MaxDelay = 1
  MaxBlocks = 4
  MaxIds = 5
  MaxCalls = 3
INVARIANTS CachedIsFinal ReadsOwnAnswer
