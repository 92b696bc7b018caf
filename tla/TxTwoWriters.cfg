CONSTANTS
  Writers = {w1, w2}
  N = 3
  MaxBatch = 1
  MaxWrites = 3
SPECIFICATION TxSpec
INVARIANT FlushesAll
CHECK_DEADLOCK FALSE
