SPECIFICATION Spec
CONSTANTS
  None = None
  Contracts = {test, c}
  test = test
  sender = sender
  NewCallers = {x}
  NewOrigins = {o}
  Counts = {1}
  Allowed = {"nested create"}
  MaxDepth = 3
CHECK_DEADLOCK FALSE
INVARIANT OriginRestored
