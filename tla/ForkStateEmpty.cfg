SPECIFICATION Spec
CONSTANTS
  None = None
  NoCode = NoCode
  contract = contract
  other = other
  c = c
  d = d
  Address = {contract, other}
  Slots = {1}
  Codes = {c, d}
  Balances = {0, 1}
  Values = {0, 1, 2}
  Remote <- MCRemote
  Emptied = FALSE
  Codeless = FALSE
  Ephemeral = FALSE
  Destroys = FALSE
  MaxChanges = 2
INVARIANT EmptyIsNone
