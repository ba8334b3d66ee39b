SPECIFICATION AutoSpec
CONSTANTS
  alice = alice
  bob = bob
  None = None
  Address = {alice, bob}
  Transactions <- MCTransactions
  Balances = {12, 40}
  BlockGasLimits = {2}
  transaction_gas_cap = None
  FeeModulus = 1000
  Authorities = {}
  Faulty = {}
  MaxNonce = 2
  MaxOrderId = 3
  MineOrderings = {"Fifo", "Priority"}
  min_gas_price = 1
  InitialBaseFees = {8}
  NextBaseFees = {}
  elasticity_multiplier = 2
  max_change_denominator = 8
PROPERTY SendReturns
