SPECIFICATION MCSpec
CONSTANTS
  alice = alice
  bob = bob
  None = None
  Address <- MCAddress
  Transactions <- MCTransactions
  Balances <- MCBalances
  BlockGasLimits <- MCBlockGasLimits
  transaction_gas_cap = None
  FeeModulus = 65536
  Authorities = {}
  Faulty = {bob}
  MaxNonce = 3
  MaxOrderId = 4
INVARIANTS NoEmptyPendingQueue
