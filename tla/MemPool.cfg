SPECIFICATION MCSpec
CONSTANTS
  alice = alice
  bob = bob
  None = None
  Address <- MCAddress
  Transactions <- MCTransactions
  Balances <- MCBalances
  BlockGasLimits <- MCBlockGasLimits
  transaction_gas_cap = None
  FeeModulus = 65536
  Authorities = {bob}
  Faulty = {bob}
  MaxNonce = 3
  MaxOrderId = 4
INVARIANTS HashMapExact PendingConsecutive ReliablyContiguous ReliablyWaits ReliablyValid ReliablyNonEmpty
PROPERTY ReliablyKept
