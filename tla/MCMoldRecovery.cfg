CONSTANTS
  srv1 = srv1
  Sessions = {s1}
  NextSeq = 1
  Last = 2
  MaxMessages = 2
  NakWindow = 1
  Servers = {srv1}
  Srvs <- OneServer
  Peer = srv1
  NoAddr = NoAddr
  NoSession = NoSession
  Garbage = Garbage
  Nil = Nil
SPECIFICATION ProgramSpec
INVARIANT RecoversInOrder
PROPERTIES RecoversAll ProcessEnds
CHECK_DEADLOCK FALSE
