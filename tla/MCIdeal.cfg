\* Ideal memory, latency 2: every transaction is eventually returned.
CONSTANTS
  Latency = 2
  MaxTrans = 5

SPECIFICATION Spec

PROPERTIES
  AllTransactionsComplete
