\* Ideal memory, latency 2: is every transaction returned exactly 2 cycles
\* after it was added?
CONSTANTS
  Latency = 2
  MaxTrans = 4

SPECIFICATION Spec

INVARIANTS
  CompletesExactlyOnTime
