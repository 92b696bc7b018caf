CONSTANTS
  Slots = 3
  BlockMax = 2
  Wanted = {1, 2, 4, 5, 7, 8}
  Sound = {1, 2, 5, 7, 8}
  MaxPackets = 8
  ChanSize = 1
SPECIFICATION RingClientSpec
INVARIANTS RxTypeOK RingLosesNothing InOrderToLoop
PROPERTIES DropsOnlyWhenFull RingDelivers
CHECK_DEADLOCK FALSE
