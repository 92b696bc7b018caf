CONSTANTS
  srv1 = srv1
  srv2 = srv2
  Sessions = {s1, s2, s3}
  Nameless = {s3}
  NextSeq = 0
  Last = 1
  MaxMessages = 3
  NakWindow = 2
  Servers = {srv1, srv2}
  Srvs <- NoServer
  Peer = srv1
  NoAddr = NoAddr
  NoSession = NoSession
  Garbage = Garbage
  Nil = Nil
  ChanCap = 1
  MaxBatch = 2
SYMMETRY SessionSymmetry
CONSTRAINT NotMisled
SPECIFICATION Spec
INVARIANTS ClientTypeOK OneSession
PROPERTY ImplementsOrder
CHECK_DEADLOCK FALSE
