CONSTANTS
  srv1 = srv1
  srv2 = srv2
  Sessions = {s1}
  NextSeq = 1
  Last = 3
  MaxMessages = 3
  NakWindow = 2
  Servers = {srv1, srv2}
  Srvs <- NoServer
  Peer = srv1
  NoAddr = NoAddr
  NoSession = NoSession
  Garbage = Garbage
  Nil = Nil
SPECIFICATION OrderSpec
INVARIANTS TypeOK NothingLost NoStall DoneMeansAll
PROPERTIES RequestsMissing StopsAtEnd EosStopLosesNothing Progress
CHECK_DEADLOCK FALSE
