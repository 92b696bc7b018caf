CONSTANTS
  SessionLen = 10
  Base = 3
  Space = 2
  MaxName = 10
  MaxBytes = 6
  MaxSize = 12
  MaxLen = 4
  MaxMsgs = 3
  Names <- MCNames
  MsgLists <- MCMsgLists
  Sizes <- MCSizes
  Payloads <- MCPayloads
  Counts <- MCCounts
SPECIFICATION CodecSpec
INVARIANT SessionSurvives
CHECK_DEADLOCK FALSE
