SPECIFICATION Spec
CONSTANTS
  RING = 4
  TX_NUMS <- MCTxNums
  BUDGET = 2
  RX_MAX = 1
  SMP = FALSE
INVARIANTS
  NoneForgotten
CHECK_DEADLOCK FALSE
