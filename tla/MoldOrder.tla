------------------------------- MODULE MoldOrder -------------------------------
(***************************************************************************)
(* Ordering and recovery in the MoldUDP64 client: the goroutine            *)
(* requestLoop, which orders messages (doMsgBuf), caches those that come   *)
(* early and asks for the missing ones (newReq, request), and the          *)
(* application's loop around Read, with which it shares c.ready.           *)
(*                                                                         *)
(* A message is the pair <<session, sequence number>>.  What arrives on    *)
(* c.ch is any packet a server can send during the session, at any time,   *)
(* any number of times, in any order: this covers loss, duplication,       *)
(* reordering and retransmission.  MoldClient adds the goroutine that      *)
(* fills the channel.                                                      *)
(*                                                                         *)
(* An action is one run of the code between two accesses to state another  *)
(* goroutine reads or writes.  Counters kept for DumpStats, and logging,   *)
(* are left out.                                                           *)
(***************************************************************************)
EXTENDS Integers, Sequences, FiniteSets, MsgMap

CONSTANTS
  Sessions,     \* names of the sessions on the multicast group
  NextSeq,      \* Option.NextSeq
  Last,         \* number of messages of each session
  MaxMessages,  \* maxMessages: a packet has fewer messages than this
  NakWindow,    \* nakWindow: most messages one request asks for
  Servers,      \* addresses of request servers
  Srvs,         \* Option.Srvs, the configured ones
  Peer,         \* request server address derived from a packet's sender
  NoAddr,       \* the zero net.UDPAddr
  NoSession,    \* the session name ""
  Garbage,      \* a payload Unmarshal rejects
  Nil           \* Go's nil

EndCnt == 65535             \* MessageCnt of an end-of-session packet, 0xffff

ASSUME OrderAssumption ==
  /\ NextSeq \in Nat
  /\ Last \in Nat \ {0}
  /\ NextSeq <= Last + 1
  /\ MaxMessages \in Nat \ {0, 1} /\ MaxMessages <= EndCnt
  /\ NakWindow \in Nat \ {0} /\ NakWindow < EndCnt
  /\ Srvs \in Seq(Servers) /\ Peer \in Servers
  /\ NoAddr \notin Servers /\ Nil \notin Servers \cup {NoAddr}
  /\ NoSession \notin Sessions

First == IF NextSeq = 0 THEN 1 ELSE NextSeq
End == Last + 1             \* sequence number of the end-of-session packet

VARIABLES
  Running,      \* c.Running
  session,      \* c.session
  reqSrv,       \* c.reqSrv
  (* requestLoop *)
  ppc,          \* its program counter
  eosSeq,       \* msgBB.seqNo in the middle of doMsgBuf on an EOS packet
  res,          \* doMsgBuf's res, on its way to c.ready
  cache,        \* c.cache
  seqNo,        \* c.seqNo: next message expected
  seqMax,       \* c.seqMax
  endSession,   \* c.endSession
  seqEnd,       \* c.seqEnd
  recent,       \* less than reqInterval has passed since c.reqLast
  connReq,      \* c.connReq: the server dialled, or Nil
  robinN,       \* c.robinN
  sent,         \* the request written to c.connReq that the network has, or Nil
  (* shared between requestLoop and Read *)
  bDone,        \* c.bDone
  lastSeq,      \* c.lastSeq
  lastN,        \* c.lastN
  ready,        \* c.ready
  (* the application's loop around Read *)
  apc,          \* its program counter
  ares,         \* Read's res
  aseq,         \* Read's seqNo
  delivered     \* history: every message Read has returned

rxVars == <<session, reqSrv>>
ordVars == <<res, cache, seqNo, lastSeq, lastN>>
eosVars == <<endSession, seqEnd, bDone>>
reqVars == <<seqMax, recent, connReq, robinN, sent>>
appVars == <<apc, ares, aseq, delivered>>
orderVars == <<Running, rxVars, ppc, eosSeq, ordVars, eosVars, reqVars, ready,
               appVars>>

-------------------------------------------------------------------------------
(* Messages, and what doMsgLoop passes on of the packets that carry them *)

\* The messages a .. b-1 of session s, in order.
Stream(s, a, b) == [i \in 1 .. b - a |-> <<s, a + i - 1>>]

Messages == Sessions \X (1 .. Last)

ASSUME NilAssumption == Nil \notin Seq(Messages)

DataBuf(s, n, k) == [seqNo |-> n, msgCnt |-> k, dataBuf |-> Stream(s, n, n + k)]
HeartbeatBuf(n) == [seqNo |-> n, msgCnt |-> 0, dataBuf |-> Nil]
EosBuf == [seqNo |-> End, msgCnt |-> EndCnt, dataBuf |-> Nil]
GarbledBuf == [seqNo |-> 1, msgCnt |-> 1, dataBuf |-> Garbage]

\* The packets of session s.  Each contains as many messages as it announces:
\* MoldClient's ShortBufs are those that do not.
Inputs(s) == {DataBuf(s, r[1], r[2]) :
                r \in {q \in (1 .. Last) \X (1 .. MaxMessages - 1) : q[1] + q[2] <= End}}
             \cup {HeartbeatBuf(n) : n \in 1 .. End}
             \cup {EosBuf, GarbledBuf}

-------------------------------------------------------------------------------
(* NewClient *)

OrderInit ==
  /\ Running = TRUE /\ session = NoSession /\ reqSrv = Srvs
  /\ ppc = "top" /\ eosSeq = 0 /\ res = <<>> /\ cache = <<>>
  /\ seqNo = First /\ seqMax = 0 /\ endSession = FALSE /\ seqEnd = 0
  /\ recent = FALSE /\ connReq = Nil /\ robinN = 0 /\ sent = Nil
  /\ bDone = FALSE /\ lastSeq = 0 /\ lastN = 0 /\ ready = Nil
  /\ apc = "top" /\ ares = Nil /\ aseq = 0 /\ delivered = <<>>

-------------------------------------------------------------------------------
(* newReq and request *)

\* Mutant: c.robinN is compared before it is incremented.
NextRobinLate == IF robinN >= Len(reqSrv) THEN 0 ELSE robinN + 1

\* c.robinN++, back to the first server behind the last.
NextRobin == IF robinN + 1 >= Len(reqSrv) THEN 0 ELSE robinN + 1

\* request: dial c.reqSrv[c.robinN] unless a connection is there, and write.
Request(req) ==
  \/ /\ reqSrv = <<>>
     /\ UNCHANGED <<connReq, robinN, sent>>
  \/ /\ reqSrv # <<>> /\ connReq = Nil      \* DialUDP fails
     /\ UNCHANGED <<connReq, robinN, sent>>
  \/ /\ reqSrv # <<>>
     /\ connReq' = IF connReq = Nil THEN reqSrv[robinN + 1] ELSE connReq
     /\ sent' = req
     /\ robinN' = NextRobin

\* Mutants: the request starts behind the first message that is missing, or
\* always at the first message of all.
ReqForNext(n) ==
  [session |-> session, seqNo |-> seqNo + 1,
   msgCnt |-> IF n - seqNo > NakWindow THEN NakWindow ELSE n - seqNo]

ReqForFirst(n) ==
  [session |-> session, seqNo |-> First,
   msgCnt |-> IF n - First > NakWindow THEN NakWindow ELSE n - First]

\* The request newReq(n) builds: the messages from c.seqNo up to n.
ReqFor(n) ==
  [session |-> session, seqNo |-> seqNo,
   msgCnt |-> IF n - seqNo > NakWindow THEN NakWindow ELSE n - seqNo]

\* Mutants of newReq: c.seqMax is set without a comparison, or a gap of one
\* message counts as none.
NewReqGoesBack(n, max) ==
  /\ seqMax' = IF seqNo < n THEN n ELSE max
  /\ IF seqNo < n /\ ~recent
       THEN recent' = TRUE /\ Request(ReqFor(n))
       ELSE UNCHANGED <<recent, connReq, robinN, sent>>
NewReqShort(n, max) ==
  /\ seqMax' = IF seqNo + 1 < n /\ n > max THEN n ELSE max
  /\ IF seqNo + 1 < n /\ ~recent
       THEN recent' = TRUE /\ Request(ReqFor(n))
       ELSE UNCHANGED <<recent, connReq, robinN, sent>>

\* newReq(n) with max for c.seqMax, and the request its caller then makes.
NewReq(n, max) ==
  /\ seqMax' = IF seqNo < n /\ n > max THEN n ELSE max
  /\ IF seqNo < n /\ ~recent
       THEN recent' = TRUE /\ Request(ReqFor(n))
       ELSE UNCHANGED <<recent, connReq, robinN, sent>>

-------------------------------------------------------------------------------
(* requestLoop and doMsgBuf *)

notProc == <<rxVars, appVars>>

\* for c.Running
PTop ==
  /\ ppc = "top"
  /\ ppc' = IF Running THEN "select" ELSE "done"
  /\ UNCHANGED <<Running, eosSeq, ordVars, eosVars, reqVars, ready, notProc>>

\* case <-ticker.C
PTick ==
  /\ ppc = "select"
  /\ IF seqNo < seqMax THEN NewReq(seqMax, seqMax) ELSE UNCHANGED reqVars
  /\ ppc' = "top"
  /\ UNCHANGED <<Running, eosSeq, ordVars, eosVars, ready, notProc>>

(* case msgBB := <-c.ch *)

\* Unmarshal fails.
PGarbled(m) ==
  /\ ppc = "select" /\ m.dataBuf = Garbage
  /\ ppc' = "top"
  /\ UNCHANGED <<Running, eosSeq, ordVars, eosVars, reqVars, ready, notProc>>

\* A heartbeat names the next message of the session.
PHeartbeat(m) ==
  /\ ppc = "select" /\ m.msgCnt = 0
  /\ NewReq(m.seqNo, seqMax)
  /\ ppc' = "top"
  /\ UNCHANGED <<Running, eosSeq, ordVars, eosVars, ready, notProc>>

\* c.seqEnd after an EOS packet: only the first one sets it.
EndAfter(m) == IF endSession THEN seqEnd ELSE m.seqNo

\* Mutant: c.seqEnd is not looked at.
GotAllAnnounced(end) == seqNo >= seqMax

\* Nothing up to the end of the session is missing.
GotAll(end) == seqNo >= seqMax /\ ~(end > seqMax /\ end > seqNo)

\* Mutants: c.ready is ignored, or the test is the wrong way round.
ReadyIgnored == TRUE
ReadySome == ready # Nil

\* c.ready == nil, looked at without the lock
ReadyNil == ready = Nil

\* An EOS packet while messages are missing: go on asking for them.
PEosMissing(m) ==
  /\ ppc = "select" /\ m.msgCnt = EndCnt
  /\ endSession' = TRUE /\ seqEnd' = EndAfter(m)
  /\ ~GotAll(seqEnd')
  /\ NewReq(m.seqNo,
            IF seqNo >= seqMax /\ ReadyNil THEN seqEnd' ELSE seqMax)
  /\ ppc' = "top"
  /\ UNCHANGED <<Running, bDone, eosSeq, ordVars, ready, notProc>>

\* An EOS packet after the last message: c.bDone is set, then c.ready is
\* looked at, without the lock.
PEosDone(m) ==
  /\ ppc = "select" /\ m.msgCnt = EndCnt
  /\ endSession' = TRUE /\ seqEnd' = EndAfter(m)
  /\ GotAll(seqEnd')
  /\ bDone' = TRUE
  /\ eosSeq' = m.seqNo /\ ppc' = "eos"
  /\ UNCHANGED <<Running, ordVars, reqVars, ready, notProc>>

PEosStop ==
  /\ ppc = "eos"
  /\ Running' = IF ReadyNil THEN FALSE ELSE Running
  /\ NewReq(eosSeq, seqMax)
  /\ eosSeq' = 0 /\ ppc' = "top"
  /\ UNCHANGED <<ordVars, eosVars, ready, notProc>>

\* Neither access is synchronised: the load may take effect before the store.
PEosPeek(m) ==
  /\ ppc = "select" /\ m.msgCnt = EndCnt
  /\ endSession' = TRUE /\ seqEnd' = EndAfter(m)
  /\ GotAll(seqEnd')
  /\ eosSeq' = m.seqNo
  /\ ppc' = IF ReadyNil THEN "sawNil" ELSE "sawSome"
  /\ UNCHANGED <<Running, bDone, ordVars, reqVars, ready, notProc>>

PEosLate ==
  /\ ppc \in {"sawNil", "sawSome"}
  /\ bDone' = TRUE
  /\ Running' = IF ppc = "sawNil" THEN FALSE ELSE Running
  /\ NewReq(eosSeq, seqMax)
  /\ eosSeq' = 0 /\ ppc' = "top"
  /\ UNCHANGED <<ordVars, endSession, seqEnd, ready, notProc>>

IsData(m) == m.msgCnt \notin {0, EndCnt} /\ m.dataBuf # Garbage

\* Every message of the packet was received before.
PRepeat(m) ==
  /\ ppc = "select" /\ IsData(m) /\ m.seqNo + m.msgCnt < seqNo
  /\ ppc' = "top"
  /\ UNCHANGED <<Running, eosSeq, ordVars, eosVars, reqVars, ready, notProc>>

\* The value storeCache returns, c being the cache it leaves behind.
StoreCacheRet(c, m) ==
  LET next == m.seqNo + Len(m.dataBuf)
  IN IF \/ \E n \in m.seqNo .. next - 1 : ~IsNil(cache, n)
        \/ ~IsNil(c, next - 1)
       THEN 0 ELSE m.seqNo

\* The packet is ahead of the next message expected: cache it.
PAhead(m) ==
  /\ ppc = "select" /\ IsData(m) /\ m.seqNo > seqNo
  /\ cache' = UpsetAll(cache, m.seqNo, m.dataBuf)
  /\ LET n == StoreCacheRet(cache', m)
     IN IF n <= seqNo THEN UNCHANGED reqVars ELSE NewReq(n, seqMax)
  /\ ppc' = "top"
  /\ UNCHANGED <<Running, eosSeq, res, seqNo, lastSeq, lastN, eosVars, ready, notProc>>

\* Mutant: the whole packet is taken for new.
FreshWhole(m) == m.dataBuf

\* The messages of packet m that are new.
Fresh(m) == SubSeq(m.dataBuf, seqNo - m.seqNo + 1, Len(m.dataBuf))

\* Mutant: popCache finds nothing.
PopCacheNone(n) == <<>>

\* popCache
PopCache(n) == Merge(cache, n)

\* The packet holds the next message: take what is new in it, and the run
\* of cached messages behind it.
PInOrder(m) ==
  /\ ppc = "select" /\ IsData(m)
  /\ m.seqNo <= seqNo /\ seqNo <= m.seqNo + m.msgCnt
  /\ LET new == Fresh(m)
     IN res' = new \o PopCache(seqNo + Len(new))
  /\ lastSeq' = seqNo /\ lastN' = Len(res')
  /\ ppc' = "seqNo"
  /\ UNCHANGED <<Running, eosSeq, cache, seqNo, eosVars, reqVars, ready, notProc>>

\* c.seqNo moves past them, and the end of the session is noticed.
PSeqNo ==
  /\ ppc = "seqNo"
  /\ seqNo' = seqNo + Len(res)
  /\ LET caughtUp == endSession /\ seqNo' >= seqMax
     IN /\ seqMax' = IF caughtUp /\ seqEnd > seqNo' THEN seqEnd ELSE seqMax
        /\ bDone' = (bDone \/ (caughtUp /\ seqEnd <= seqNo'))
  /\ ppc' = "append"
  /\ UNCHANGED <<Running, eosSeq, res, cache, lastSeq, lastN, endSession, seqEnd,
                 recent, connReq, robinN, sent, ready, notProc>>

\* Under c.readLock, they are added to c.ready.
PAppend ==
  /\ ppc = "append"
  /\ ready' = IF ready = Nil THEN res ELSE ready \o res
  /\ res' = <<>> /\ ppc' = "top"
  /\ UNCHANGED <<Running, eosSeq, cache, seqNo, lastSeq, lastN, eosVars, reqVars,
                 notProc>>

\* doMsgBuf: its beginning on the packet m, and its later parts.
DoMsgBuf(m) == \/ PGarbled(m) \/ PHeartbeat(m) \/ PEosMissing(m) \/ PEosDone(m)
               \/ PEosPeek(m) \/ PRepeat(m) \/ PAhead(m) \/ PInOrder(m)
Processor == PTop \/ PTick \/ PEosStop \/ PEosLate \/ PSeqNo \/ PAppend

-------------------------------------------------------------------------------
(* The application: for cc.Running { cc.Read() } *)

notApp == <<rxVars, ppc, eosSeq, ordVars, eosVars, reqVars>>

\* for c.Running, in Read and around it
ATop ==
  /\ apc = "top"
  /\ apc' = IF Running THEN "take" ELSE "done"
  /\ UNCHANGED <<Running, ready, ares, aseq, delivered, notApp>>

\* Under c.readLock, c.ready is taken and c.lastSeq read.
ATake ==
  /\ apc = "take"
  /\ ares' = ready /\ ready' = Nil /\ aseq' = lastSeq
  /\ apc' = "check"
  /\ UNCHANGED <<Running, delivered, notApp>>

Contents(q) == IF q = Nil THEN <<>> ELSE q

\* Mutant: c.bDone is not looked at.
ReadSome == aseq + Len(Contents(ares)) >= seqNo

\* The end of the session is reached, and the last block is in hand.
ReadAll == bDone /\ aseq + Len(Contents(ares)) >= seqNo

\* Stop once it is; return what was taken.
ACheck ==
  /\ apc = "check"
  /\ Running' = IF ReadAll THEN FALSE ELSE Running
  /\ delivered' = delivered \o Contents(ares)
  /\ ares' = Nil /\ aseq' = 0 /\ apc' = "top"
  /\ UNCHANGED <<ready, notApp>>

Application == ATop \/ ATake \/ ACheck

-------------------------------------------------------------------------------
(* What the rest of the client does to this state *)

notEnv == <<ppc, eosSeq, ordVars, eosVars, seqMax, robinN, sent, ready, appVars>>

\* gotBuff takes the session's name from the first packet.
LearnSession(s) ==
  /\ session = NoSession /\ session' = s
  /\ UNCHANGED <<Running, reqSrv, recent, connReq, notEnv>>

\* doMsgLoop takes the sender of a packet for the request server if there is
\* none: append stores the slice's new length before the element itself.
LearnServer ==
  /\ reqSrv = <<>> /\ reqSrv' = <<NoAddr>>
  /\ UNCHANGED <<Running, session, recent, connReq, notEnv>>

FillServer ==
  /\ reqSrv = <<NoAddr>> /\ reqSrv' = <<Peer>>
  /\ UNCHANGED <<Running, session, recent, connReq, notEnv>>

\* A signal, or no packet for too long.
Stop ==
  /\ Running /\ Running' = FALSE
  /\ UNCHANGED <<session, reqSrv, recent, connReq, notEnv>>

\* Close, on c.connReq.
CloseReq ==
  /\ ~Running /\ connReq # Nil /\ connReq' = Nil
  /\ UNCHANGED <<Running, session, reqSrv, recent, notEnv>>

\* reqInterval passes.
Elapse ==
  /\ recent /\ recent' = FALSE
  /\ UNCHANGED <<Running, session, reqSrv, connReq, notEnv>>

\* The request has left: it reaches a server, or is lost.
Depart ==
  /\ sent # Nil /\ sent' = Nil
  /\ UNCHANGED <<Running, rxVars, ppc, eosSeq, ordVars, eosVars, seqMax, recent,
                 connReq, robinN, ready, appVars>>

Environment == (\E s \in Sessions : LearnSession(s)) \/ LearnServer \/ FillServer
               \/ Stop \/ CloseReq \/ Elapse \/ Depart

OrderNext == \/ Processor \/ Application \/ Environment
             \/ session # NoSession /\ \E m \in Inputs(session) : DoMsgBuf(m)

OrderSpec == OrderInit /\ [][OrderNext]_orderVars

-------------------------------------------------------------------------------
(* Properties *)

Requests == [session : Sessions, seqNo : 1 .. Last, msgCnt : 1 .. NakWindow]

\* Type correctness of the client's state.
TypeOK ==
  /\ Running \in BOOLEAN
  /\ session \in Sessions \cup {NoSession}
  /\ reqSrv \in Seq(Servers \cup {NoAddr})
  /\ ppc \in {"top", "select", "eos", "sawNil", "sawSome", "seqNo", "append", "done"}
  /\ eosSeq \in 0 .. End
  /\ res \in Seq(Messages)
  /\ DOMAIN cache \subseteq 1 .. Last
  /\ \A n \in DOMAIN cache : cache[n] \in Messages
  /\ seqNo \in First .. End /\ seqMax \in 0 .. End
  /\ endSession \in BOOLEAN /\ seqEnd \in 0 .. End
  /\ recent \in BOOLEAN /\ connReq \in Servers \cup {NoAddr, Nil}
  /\ robinN \in Nat /\ (robinN = 0 \/ robinN < Len(reqSrv))
  /\ sent \in Requests \cup {Nil}
  /\ bDone \in BOOLEAN /\ lastSeq \in 0 .. End /\ lastN \in 0 .. Last
  /\ ready \in Seq(Messages) \cup {Nil}
  /\ apc \in {"top", "take", "check", "done"}
  /\ ares \in Seq(Messages) \cup {Nil} /\ aseq \in 0 .. End
  /\ delivered \in Seq(Messages)

\* What doMsgBuf still has in hand counts as received once it is ordered.
NextSeqNo == IF ppc = "seqNo" THEN seqNo + Len(res) ELSE seqNo

\* What Read has returned, what it holds, what waits in c.ready and what doMsgBuf
\* is about to add, end to end.
Received == delivered \o Contents(ares) \o Contents(ready) \o res

\* Messages reach the application exactly once, in order, from one session
\* only, and none is lost between doMsgBuf and Read: what has been received are
\* the session's messages from the first one asked for up to c.seqNo.
NothingLost == Received = Stream(session, First, NextSeqNo)

\* The cache holds only messages of the session, under their own numbers, and
\* never the one expected next: popCache has taken every run it could, so the
\* client never waits, or asks, for a message it already has.
NoStall ==
  /\ \A n \in DOMAIN cache : cache[n] = <<session, n>>
  /\ IsNil(cache, NextSeqNo)

\* c.bDone, on which Read stops the client, means that the end of the session
\* is known and that every message before it has been ordered.
DoneMeansAll == bDone => endSession /\ seqEnd = End /\ seqNo = End

\* A request under way stays within what heartbeats and EOS have announced.
RequestsAnnounced ==
  sent # Nil => /\ sent.session = session
                /\ sent.seqNo <= seqNo
                /\ sent.seqNo + sent.msgCnt <= seqMax

\* Whichever packet or tick makes the client write a request, and however often
\* it repeats it, the request is for the client's own session and starts at the
\* first message missing at that moment: all before it have been received, and
\* it is not in the cache.  It ends within what heartbeats and EOS have announced.
RequestsMissing ==
  [][sent = Nil /\ sent' # Nil
       => /\ sent'.session = session
          /\ Received = Stream(session, First, sent'.seqNo)
          /\ IsNil(cache, sent'.seqNo)
          /\ sent'.seqNo + sent'.msgCnt <= seqMax']_orderVars

\* The client stops by itself only after it has ordered the whole session.
StopsAtEnd == [][Running /\ ~Running' => Stop \/ seqNo = End]_orderVars

\* When doMsgBuf stops the client, because c.ready is nil at an EOS packet,
\* Read has taken every message; it returns those it holds after the stop too.
EosStopLosesNothing ==
  [][(PEosStop \/ PEosLate) /\ Running /\ ~Running'
       => delivered \o Contents(ares) = Stream(session, First, End)]_orderVars

\* Neither the next number nor the highest number announced ever goes back, and
\* what Read has returned is only added to.
Progress ==
  [][/\ seqNo <= seqNo' /\ seqMax <= seqMax'
     /\ Len(delivered) <= Len(delivered')
     /\ SubSeq(delivered', 1, Len(delivered)) = delivered]_orderVars

\* "Read all seqNo ... really stop running": the client stops by itself only
\* when Read has returned, or is about to return, every message.
StopsAfterReadAll ==
  [][Running /\ ~Running' /\ ~Stop
       => delivered' \o Contents(ares') = Stream(session, First, End)]_orderVars

\* "should request for retransmit": a packet ahead of a gap, none of whose
\* messages was cached before, makes the client ask for the gap.
GapRequested ==
  [][\A m \in Inputs(session) :
       PAhead(m) /\ (\A n \in m.seqNo .. m.seqNo + m.msgCnt - 1 : IsNil(cache, n))
         => seqMax' >= m.seqNo]_orderVars

===============================================================================
