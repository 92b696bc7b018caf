CONSTANTS
  Writers = {w1}
  N = 3
  MaxBatch = 4
  MaxWrites = 8
SPECIFICATION TxFairSpec
INVARIANTS TxTypeOK TakenInOrder FlushComplete
PROPERTIES NoOverwrite SendReturns
CHECK_DEADLOCK FALSE
