CONSTANTS
  SessionLen = 10
  Base = 3
  Space = 2
  MaxName = 10
  MaxBytes = 6
  MaxSize = 12
  MaxLen = 4
  MaxMsgs = 3
  Names <- MCNames
  MsgLists <- MCMsgLists
  Sizes <- MCSizes
  Payloads <- MCPayloads
  Counts <- MCCounts
  PageMsg = 2
  PageIncrement = 1
  SeqNos <- Numbers
  Message = {m1, m2}
  Nil = Nil
  Word = 65536
  FrameRoom = 2016
  MinWire = 60
  HeadSize = 20
  MaxUDP = 65507
  Ports = {0, 5858, 65535}
  Groups <- MCGroups
  Lengths <- MCLengths
  PageSize = 4096
  MinFrame = 1024
  MaxFrame = 32768
  FramesPerBlock = 1024
  TxStart = 32
  Args <- MCArgs
SPECIFICATION DataSpec
INVARIANTS CacheTypeOK HeadRoundTrip BlockRoundTrip AcceptsOnlyBlocks RefusesNoBlocks FramesAgree FramesInRing
PROPERTY ImplementsStore
CHECK_DEADLOCK FALSE
