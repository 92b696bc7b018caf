------------------------------ MODULE MoldClient ------------------------------
(***************************************************************************)
(* The whole client: MoldOrder together with the goroutine doMsgLoop that  *)
(* takes datagrams off the multicast socket, checks them (gotBuff) and     *)
(* sends them on the channel c.ch, and with Close.                         *)
(*                                                                         *)
(* The network is the set Packets: any of them may arrive at any time, any *)
(* number of times, in any order, or never.  Several sessions may share    *)
(* the multicast group, some of them with names that DecodeHead loses, and *)
(* a packet may contain fewer messages than its header says.               *)
(***************************************************************************)
EXTENDS MoldOrder

CONSTANTS
  ChanCap,      \* capacity of the channel c.ch
  MaxBatch,     \* most packets one MRecv returns; 1 for Recv
  Nameless      \* sessions whose name is blank or has only one character

ASSUME ClientAssumption ==
  /\ ChanCap \in Nat \ {0} /\ MaxBatch \in Nat \ {0} /\ MaxMessages < EndCnt
  /\ Nameless \subseteq Sessions

VARIABLES
  conn,         \* c.conn: "open", "closed" (closed, not yet nil) or "nil"
  rpc,          \* doMsgLoop's program counter
  batch,        \* buffers of the current MRecv still to be looked at
  rbuf,         \* the msgBuf gotBuff is sending on c.ch
  ch,           \* c.ch
  misled        \* history: gotBuff has passed on a packet of a nameless session,
                \* or one with fewer messages than announced

loopVars == <<rpc, batch, rbuf, misled>>
vars == <<orderVars, conn, loopVars, ch>>

-------------------------------------------------------------------------------
(* Packets *)

Packet(s, m) == [session |-> s, buf |-> m, short |-> FALSE]

\* Datagrams gotBuff drops: too short for a header, a header whose messages
\* are missing, or with as many messages as no server puts in a packet.
Damaged(s) == {[Packet(s, HeartbeatBuf(1)) EXCEPT !.short = TRUE],
               Packet(s, [seqNo |-> 1, msgCnt |-> 1, dataBuf |-> Nil]),
               Packet(s, DataBuf(s, 1, MaxMessages))}

\* A message without data: Unmarshal returns as many messages as announced, and
\* those that are missing in the payload are empty.
NoMessage == <<NoSession, 0>>

\* Packets with j messages that announce k.
ShortBufs(s) ==
  {[seqNo |-> r[1], msgCnt |-> r[2],
    dataBuf |-> Stream(s, r[1], r[1] + r[3]) \o [i \in 1 .. r[2] - r[3] |-> NoMessage]] :
     r \in {q \in (1 .. Last) \X (1 .. MaxMessages - 1) \X (1 .. MaxMessages - 1) :
             q[3] < q[2] /\ q[1] + q[3] <= End}}

PacketsOf(s) == {Packet(s, m) : m \in Inputs(s) \cup ShortBufs(s)} \cup Damaged(s)
Packets == UNION {PacketsOf(s) : s \in Sessions}

-------------------------------------------------------------------------------
(* doMsgLoop and gotBuff *)

\* for c.Running
RxTop ==
  /\ rpc = "top"
  /\ rpc' = IF Running THEN "call" ELSE "done"
  /\ UNCHANGED <<batch, rbuf, misled, conn, ch, orderVars>>

\* c.conn.MRecv or c.conn.Recv is called: a nil c.conn is a run-time panic.
RxCall ==
  /\ rpc = "call"
  /\ rpc' = IF conn = "nil" THEN "panic" ELSE "wait"
  /\ UNCHANGED <<batch, rbuf, misled, conn, ch, orderVars>>

\* The call returns packets, or none when recvmmsg times out ...
RxReturn ==
  /\ rpc = "wait" /\ conn = "open"
  /\ batch' \in 0 .. MaxBatch
  /\ rpc' = IF batch' = 0 THEN "top" ELSE "got"
  /\ UNCHANGED <<rbuf, misled, conn, ch, orderVars>>

\* ... or an error once the socket is closed.
RxError ==
  /\ rpc = "wait" /\ conn # "open"
  /\ rpc' = "top"
  /\ UNCHANGED <<batch, rbuf, misled, conn, ch, orderVars>>

\* Mutant: the loop runs once too often.
NextBufLate ==
  /\ batch' = batch - 1
  /\ rpc' = IF batch = 0 THEN "top" ELSE "got"

\* On to the next buffer, or back to the loop's condition after the last.
NextBuf ==
  /\ batch' = batch - 1
  /\ rpc' = IF batch = 1 THEN "top" ELSE "got"

\* The session name DecodeHead finds in a packet.
NameOf(p) == IF p.session \in Nameless THEN NoSession ELSE p.session

\* gotBuff's checks, in its order.
HeadOK(p) == ~p.short /\ (p.buf.msgCnt # EndCnt => p.buf.msgCnt < MaxMessages)
\* Mutant: the session is not compared.
SessionAny(p) == TRUE
SessionOK(p) == session \in {NoSession, NameOf(p)}
PayloadOK(p) == p.buf.msgCnt \notin {0, EndCnt} => p.buf.dataBuf # Nil

Misleads(p) == p.session \in Nameless \/ p.buf \in ShortBufs(p.session)

\* gotBuff on packet p, up to the send on c.ch: an empty name leaves the client
\* without a session, but the packet is passed on.
RxGot(p) ==
  /\ rpc = "got"
  /\ IF HeadOK(p) /\ session = NoSession
       THEN LearnSession(NameOf(p)) ELSE UNCHANGED orderVars
  /\ IF HeadOK(p) /\ SessionOK(p) /\ PayloadOK(p)
       THEN /\ rbuf' = p.buf /\ rpc' = "send" /\ UNCHANGED batch
            /\ misled' = (misled \/ Misleads(p))
       ELSE NextBuf /\ UNCHANGED <<rbuf, misled>>
  /\ UNCHANGED <<conn, ch>>

\* c.ch <- msgBB blocks while the channel is full.
RxSend ==
  /\ rpc = "send" /\ Len(ch) < ChanCap
  /\ ch' = Append(ch, rbuf) /\ rbuf' = Nil
  /\ rpc' = "sent"
  /\ UNCHANGED <<batch, misled, conn, orderVars>>

\* Mutant: every packet's sender is added.
RxLearnAlways ==
  /\ rpc = "sent" /\ reqSrv' = Append(reqSrv, Peer)
  /\ NextBuf
  /\ UNCHANGED <<rbuf, misled, conn, ch, Running, session, recent, connReq, notEnv>>

\* Without a configured request server, the sender's address becomes one.
RxLearn ==
  /\ rpc = "sent" /\ reqSrv = <<>>
  /\ LearnServer
  /\ rpc' = "fill"
  /\ UNCHANGED <<batch, rbuf, misled, conn, ch>>

RxFill ==
  /\ rpc = "fill"
  /\ FillServer /\ NextBuf
  /\ UNCHANGED <<rbuf, misled, conn, ch>>

RxNext ==
  /\ rpc = "sent" /\ reqSrv # <<>>
  /\ NextBuf
  /\ UNCHANGED <<rbuf, misled, conn, ch, orderVars>>

Receiver == \/ RxTop \/ RxCall \/ RxReturn \/ RxError \/ (\E p \in Packets : RxGot(p))
            \/ RxSend \/ RxLearn \/ RxFill \/ RxNext

-------------------------------------------------------------------------------
(* requestLoop, the application and the owner *)

\* case msgBB := <-c.ch
Handle ==
  /\ ch # <<>>
  /\ DoMsgBuf(Head(ch)) /\ ch' = Tail(ch)
  /\ UNCHANGED <<loopVars, conn>>

\* The deferred Close, once the owner's loop on cc.Running has ended.
CloseConn ==
  /\ ~Running /\ conn = "open" /\ conn' = "closed"
  /\ UNCHANGED <<loopVars, ch, orderVars>>

CloseNil ==
  /\ conn = "closed" /\ conn' = "nil"
  /\ IF connReq = Nil THEN UNCHANGED orderVars ELSE CloseReq
  /\ UNCHANGED <<loopVars, ch>>

Owner == CloseConn \/ CloseNil \/ (Stop /\ UNCHANGED <<loopVars, conn, ch>>)

\* A panic ends the process.
Next ==
  /\ rpc # "panic"
  /\ \/ Receiver \/ Handle \/ Owner
     \/ (Processor \/ Application \/ Elapse) /\ UNCHANGED <<loopVars, conn, ch>>

Init == /\ OrderInit
        /\ conn = "open" /\ rpc = "top" /\ batch = 0 /\ rbuf = Nil /\ ch = <<>>
        /\ misled = FALSE

Spec == Init /\ [][Next]_vars

-------------------------------------------------------------------------------
(* Properties *)

\* Type correctness of doMsgLoop's state.
ClientTypeOK ==
  /\ conn \in {"open", "closed", "nil"}
  /\ rpc \in {"top", "call", "wait", "got", "send", "sent", "fill", "done", "panic"}
  /\ batch \in 0 .. MaxBatch
  /\ Len(ch) <= ChanCap

\* Whatever mix of sessions and damaged datagrams the socket returns, what
\* waits in c.ch for requestLoop are sound packets of the one session the
\* client has settled on; until it has settled, there is none.  Only a session
\* whose name DecodeHead loses, and a packet with fewer messages than it
\* announces, can get past gotBuff.
OneSession ==
  ~misled => /\ rbuf # Nil => session # NoSession /\ rbuf \in Inputs(session)
             /\ ch # <<>> => session # NoSession
             /\ \A i \in 1 .. Len(ch) : ch[i] \in Inputs(session)

\* Until then, the client with its goroutines, channel, batches and Close is
\* MoldOrder.
ImplementsOrder == OrderInit /\ [][misled' \/ OrderNext]_orderVars

===============================================================================
