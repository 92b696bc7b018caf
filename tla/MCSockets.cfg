CONSTANTS
  Callers = {c1, c2}
  MaxBatch = 2
  Room = 2
  HdrLen = 1
  Lens = {0, 3}
  AnyPort = AnyPort
  Null = Null
  MaxFd = 3
  Starts = 2
SPECIFICATION MCSpec
INVARIANTS BatchIsOwn FilterIsOwn HoldsItsOwn
PROPERTIES OthersUntouched OptionsOnOwn
SYMMETRY CallerSymmetry
CHECK_DEADLOCK FALSE
