SPECIFICATION FairSpec
CONSTANTS
  RING = 4
  TX_NUMS <- MCTxNums
  BUDGET = 1
  RX_MAX = 1
  SMP = TRUE
INVARIANTS
  TypeOK
  RingIntact
  OwedBalanced
  CleanTeardown
PROPERTIES
  QueueWakes
CHECK_DEADLOCK FALSE
