SPECIFICATION Spec
CONSTANTS
  None = None
  Contracts = {test, c}
  test = test
  sender = sender
  NewCallers = {x}
  NewOrigins = {o}
  Counts = {0, 1, 2}
  Allowed = {}
  MaxDepth = 4
CHECK_DEADLOCK FALSE
INVARIANTS SenderAsPranked OriginAsPranked OutcomeAsExpected
