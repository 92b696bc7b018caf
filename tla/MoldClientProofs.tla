--------------------------- MODULE MoldClientProofs ---------------------------
(***************************************************************************)
(* Proofs about what is built on MoldOrder.  MoldClient: the client with   *)
(* doMsgLoop, a channel of any capacity, any batch size and any set of     *)
(* sessions on the multicast group implements MoldOrder, and so inherits   *)
(* what MoldOrderProofs shows of it.  MoldProgram: with a request server,  *)
(* a network that loses what it likes and main, order is kept as well.     *)
(***************************************************************************)
EXTENDS MoldClient, MoldProgram, MoldOrderProofs

-------------------------------------------------------------------------------
(* The inductive invariant *)

Bufs == {p.buf : p \in Packets}

\* OneSession with the program counter: rbuf is filled only between gotBuff's
\* checks and its send, and a buffer is looked at only while some are left.
ClientInv ==
  /\ ClientTypeOK /\ OneSession
  /\ ch \in Seq(Bufs)
  /\ session \in Sessions \cup {NoSession}
  /\ rpc = "send" => rbuf \in Bufs
  /\ rpc = "send" /\ ~misled => session # NoSession /\ rbuf \in Inputs(session)
  /\ rpc # "send" => rbuf = Nil
  /\ rpc \in {"got", "send", "sent", "fill"} => batch # 0

\* A packet belongs to a session, and names it or has no name.
LEMMA PacketSession ==
  ASSUME NEW p \in Packets
  PROVE  p.session \in Sessions /\ NameOf(p) \in Sessions \cup {NoSession}
<1>1. PICK s \in Sessions : p \in PacketsOf(s)
  BY DEF Packets
<1>2. CASE \E m : p = Packet(s, m)
  BY <1>2 DEF Packet, NameOf
<1>3. CASE p = [Packet(s, HeartbeatBuf(1)) EXCEPT !.short = TRUE]
  BY <1>3 DEF Packet, NameOf
<1> QED
  BY <1>1, <1>2, <1>3, Zenon DEF PacketsOf, Damaged

\* gotBuff's checks let only sound packets of one of the sessions through, and
\* packets that mislead.
LEMMA GoodPacket ==
  ASSUME NEW p \in Packets, HeadOK(p), PayloadOK(p), ~Misleads(p)
  PROVE  /\ p.session \in Sessions /\ p.buf \in Inputs(p.session)
         /\ NameOf(p) = p.session
<1>1. PICK s \in Sessions : p \in PacketsOf(s)
  BY DEF Packets
<1>2. CASE \E m \in Inputs(s) : p = Packet(s, m)
  BY <1>2 DEF Packet, NameOf, Misleads
<1>3. CASE p = [Packet(s, HeartbeatBuf(1)) EXCEPT !.short = TRUE]
  BY <1>3 DEF Packet, HeadOK
<1>4. CASE p = Packet(s, [seqNo |-> 1, msgCnt |-> 1, dataBuf |-> Nil])
  BY <1>4 DEF Packet, PayloadOK, EndCnt
<1>5. CASE p = Packet(s, DataBuf(s, 1, MaxMessages))
  BY <1>5, ClientAssumption, OrderAssumption DEF Packet, HeadOK, DataBuf
<1>6. CASE \E m \in ShortBufs(s) : p = Packet(s, m)
  <2>1. p.session = s /\ p.buf \in ShortBufs(s)
    BY <1>6 DEF Packet
  <2> QED
    BY <2>1, Zenon DEF Misleads
<1> QED
  BY <1>1, <1>2, <1>3, <1>4, <1>5, <1>6, Zenon DEF PacketsOf, Damaged

\* What the rest of MoldOrder does leaves the session alone.
LEMMA OrderKeeps ==
  ASSUME Processor \/ Application \/ Elapse \/ Stop \/ \E m : DoMsgBuf(m)
  PROVE  session' = session
<1> USE DEF notProc, notApp, rxVars
<1>1. CASE Processor
  BY <1>1, Zenon DEF Processor, PTop, PTick, PEosStop, PEosLate, PSeqNo, PAppend
<1>2. CASE Application
  BY <1>2, Zenon DEF Application, ATop, ATake, ACheck
<1>3. CASE Elapse \/ Stop
  BY <1>3, Zenon DEF Elapse, Stop
<1>4. CASE \E m : DoMsgBuf(m)
  BY <1>4, Zenon DEF DoMsgBuf, PGarbled, PHeartbeat, PEosMissing, PEosDone, PEosPeek,
     PRepeat, PAhead, PInOrder
<1> QED
  BY <1>1, <1>2, <1>3, <1>4

\* Such steps keep the invariant.
LEMMA OrderStepInv ==
  ASSUME ClientInv, session' = session, UNCHANGED <<loopVars, ch>>,
         conn' \in {"open", "closed", "nil"}
  PROVE  ClientInv'
<1>1. /\ rpc' = rpc /\ batch' = batch /\ rbuf' = rbuf /\ ch' = ch /\ misled' = misled
      /\ session' = session
  BY DEF loopVars
<1>2. ClientTypeOK' /\ OneSession'
  BY <1>1, Zenon DEF ClientInv, ClientTypeOK, OneSession
<1> QED
  BY <1>1, <1>2, Zenon DEF ClientInv

\* On to the next buffer.
LEMMA NextBufKeeps ==
  ASSUME ClientInv, NextBuf, batch # 0
  PROVE  /\ batch' \in 0 .. MaxBatch /\ rpc' \in {"top", "got"}
         /\ rpc' = "got" => batch' # 0
BY ClientAssumption DEF ClientInv, ClientTypeOK, NextBuf

\* gotBuff keeps the invariant.
LEMMA GotInv ==
  ASSUME ClientInv, NEW p \in Packets, RxGot(p)
  PROVE  ClientInv'
<1>1. /\ rpc = "got" /\ rbuf = Nil /\ batch # 0 /\ conn' = conn /\ ch' = ch
  BY Zenon DEF RxGot, ClientInv
<1>2. /\ session' \in Sessions \cup {NoSession}
      /\ session # NoSession => session' = session
  <2>1. CASE HeadOK(p) /\ session = NoSession
    BY <2>1, PacketSession, Zenon DEF RxGot, LearnSession
  <2>2. CASE ~(HeadOK(p) /\ session = NoSession)
    BY <2>2, Zenon DEF RxGot, orderVars, rxVars, ClientInv
  <2> QED
    BY <2>1, <2>2
\* The channel holds packets of the session, or the client was misled before.
<1>3. ~misled => /\ ch # <<>> => session' # NoSession
                 /\ \A i \in 1 .. Len(ch) : ch[i] \in Inputs(session')
  <2>1. CASE session' = session
    BY <2>1, Zenon DEF ClientInv, OneSession
  <2>2. CASE session = NoSession
    BY <2>2 DEF ClientInv, OneSession
  <2> QED
    BY <1>2, <2>1, <2>2, Zenon
<1>4. CASE HeadOK(p) /\ SessionOK(p) /\ PayloadOK(p)
  <2>1. /\ rbuf' = p.buf /\ rpc' = "send" /\ batch' = batch
        /\ misled' = (misled \/ Misleads(p))
    BY <1>4, Zenon DEF RxGot
  <2>2. rbuf' \in Bufs
    BY <2>1, Zenon DEF Bufs
  <2>3. session' = NameOf(p)
    BY <1>4, Zenon DEF RxGot, LearnSession, SessionOK, orderVars, rxVars
  <2>4. ~misled' => ~misled /\ session' # NoSession /\ rbuf' \in Inputs(session')
    <3> SUFFICES ASSUME ~misled'
                 PROVE  ~misled /\ session' # NoSession /\ rbuf' \in Inputs(session')
      OBVIOUS
    <3>1. ~misled /\ ~Misleads(p)
      BY <2>1, Zenon
    <3>2. p.session \in Sessions /\ p.buf \in Inputs(p.session) /\ NameOf(p) = p.session
      BY <1>4, <3>1, GoodPacket, Zenon
    <3>3. NoSession \notin Sessions
      BY OrderAssumption
    <3> QED
      BY <2>1, <2>3, <3>1, <3>2, <3>3, Zenon
  <2>5. ClientTypeOK' /\ OneSession'
    <3>1. ClientTypeOK'
      BY <1>1, <2>1, Zenon DEF ClientInv, ClientTypeOK
    <3>2. OneSession'
      BY <1>1, <1>3, <2>4, Zenon DEF OneSession
    <3> QED
      BY <3>1, <3>2
  <2> QED
    BY <1>1, <1>2, <2>1, <2>2, <2>4, <2>5, Zenon DEF ClientInv
<1>5. CASE ~(HeadOK(p) /\ SessionOK(p) /\ PayloadOK(p))
  <2>1. NextBuf /\ rbuf' = rbuf /\ misled' = misled
    BY <1>5, Zenon DEF RxGot
  <2>2. /\ batch' \in 0 .. MaxBatch /\ rpc' \in {"top", "got"}
        /\ rpc' = "got" => batch' # 0
    BY <1>1, <2>1, NextBufKeeps
  <2>3. ClientTypeOK'
    BY <1>1, <2>2, Zenon DEF ClientInv, ClientTypeOK
  <2>4. OneSession'
    BY <1>1, <1>3, <2>1, Zenon DEF OneSession
  <2> QED
    BY <1>1, <1>2, <2>1, <2>2, <2>3, <2>4 DEF ClientInv
<1> QED
  BY <1>4, <1>5

\* Every step of doMsgLoop keeps the invariant.
LEMMA ReceiverInv ==
  ASSUME ClientInv, Receiver
  PROVE  ClientInv'
<1> USE DEF rxVars, notEnv
<1>1. CASE RxTop \/ RxCall \/ RxReturn \/ RxError
  <2>1. /\ rbuf' = rbuf /\ conn' = conn /\ ch' = ch /\ session' = session
        /\ misled' = misled /\ rpc # "send"
    BY <1>1, Zenon DEF RxTop, RxCall, RxReturn, RxError, orderVars
  <2>2. /\ batch' \in 0 .. MaxBatch
        /\ rpc' \in {"top", "call", "wait", "got", "done", "panic"}
        /\ rpc' = "got" => batch' # 0
    BY <1>1, Zenon DEF RxTop, RxCall, RxReturn, RxError, ClientInv, ClientTypeOK
  <2> QED
    BY <2>1, <2>2 DEF ClientInv, ClientTypeOK, OneSession
<1>2. CASE \E p \in Packets : RxGot(p)
  BY <1>2, GotInv, Zenon
<1>3. CASE RxSend
  <2>1. /\ rpc = "send" /\ rpc' = "sent" /\ rbuf' = Nil /\ ch' = Append(ch, rbuf)
        /\ batch' = batch /\ conn' = conn /\ session' = session /\ misled' = misled
        /\ Len(ch) < ChanCap
    BY <1>3, Zenon DEF RxSend, orderVars
  <2>2. rbuf \in Bufs /\ (~misled => session # NoSession /\ rbuf \in Inputs(session))
    BY <2>1, Zenon DEF ClientInv
  <2>3. /\ ch' \in Seq(Bufs) /\ Len(ch') = Len(ch) + 1
        /\ \A i \in 1 .. Len(ch') : ch'[i] = IF i = Len(ch) + 1 THEN rbuf ELSE ch[i]
    BY <2>1, <2>2, AppendProperties DEF ClientInv
  <2>4. ~misled => \A i \in 1 .. Len(ch') : ch'[i] \in Inputs(session')
    BY <2>1, <2>2, <2>3 DEF ClientInv, OneSession
  <2>5. Len(ch') <= ChanCap
    BY <2>1, <2>3, ClientAssumption, LenProperties DEF ClientInv
  <2>6. OneSession'
    BY <2>1, <2>2, <2>4, Zenon DEF OneSession
  <2> QED
    BY <2>1, <2>3, <2>5, <2>6 DEF ClientInv, ClientTypeOK
<1>4. CASE RxLearn \/ RxFill \/ RxNext
  <2>1. /\ rpc \in {"sent", "fill"} /\ rbuf' = rbuf /\ conn' = conn /\ ch' = ch
        /\ session' = session /\ misled' = misled
    BY <1>4, Zenon DEF RxLearn, RxFill, RxNext, LearnServer, FillServer, orderVars
  <2>2. batch # 0 /\ (NextBuf \/ (rpc' = "fill" /\ batch' = batch))
    BY <1>4, <2>1, Zenon DEF RxLearn, RxFill, RxNext, ClientInv
  <2>3. /\ batch' \in 0 .. MaxBatch /\ rpc' \in {"top", "got", "fill"}
        /\ rpc' # "top" => batch' # 0
    BY <2>2, NextBufKeeps DEF ClientInv, ClientTypeOK
  <2> QED
    BY <2>1, <2>3 DEF ClientInv, ClientTypeOK, OneSession
<1> QED
  BY <1>1, <1>2, <1>3, <1>4 DEF Receiver

\* And so does every other step.
LEMMA ClientNextInv == ClientInv /\ [Next]_vars => ClientInv'
<1> SUFFICES ASSUME ClientInv, [Next]_vars PROVE ClientInv'
  OBVIOUS
<1>0. conn \in {"open", "closed", "nil"}
  BY DEF ClientInv, ClientTypeOK
<1>1. CASE Receiver
  BY <1>1, ReceiverInv
<1>2. CASE Handle
  <2>1. session' = session
    BY <1>2, OrderKeeps, Zenon DEF Handle
  <2>2. /\ ch # <<>> /\ ch' = Tail(ch) /\ UNCHANGED <<loopVars, conn>>
    BY <1>2, Zenon DEF Handle
  <2>3. /\ ch' \in Seq(Bufs) /\ Len(ch') = Len(ch) - 1
        /\ \A i \in 1 .. Len(ch') : ch'[i] = ch[i + 1]
    BY <2>2, HeadTailProperties DEF ClientInv
  <2>4. /\ Len(ch') <= ChanCap
        /\ ~misled => \A i \in 1 .. Len(ch') : ch'[i] \in Inputs(session)
    BY <2>3, ClientAssumption, LenProperties DEF ClientInv, ClientTypeOK, OneSession
  <2> QED
    BY <2>1, <2>2, <2>3, <2>4 DEF ClientInv, ClientTypeOK, OneSession, loopVars
<1>3. CASE CloseConn \/ CloseNil
  <2>1. /\ UNCHANGED <<loopVars, ch>> /\ conn' \in {"closed", "nil"} /\ session' = session
    BY <1>3, Zenon DEF CloseConn, CloseNil, CloseReq, orderVars, rxVars
  <2> QED
    BY <2>1, OrderStepInv
<1>4. CASE (Processor \/ Application \/ Elapse \/ Stop) /\ UNCHANGED <<loopVars, conn, ch>>
  BY <1>0, <1>4, OrderKeeps, OrderStepInv
<1>5. CASE UNCHANGED vars
  <2>1. session' = session /\ UNCHANGED <<loopVars, conn, ch>>
    BY <1>5, Zenon DEF vars, orderVars, rxVars
  <2> QED
    BY <1>0, <2>1, OrderStepInv
<1> QED
  BY <1>1, <1>2, <1>3, <1>4, <1>5, Zenon DEF Next, Owner

\* The client as NewClient leaves it satisfies the invariant.
LEMMA ClientInitInv == Init => ClientInv
<1> SUFFICES ASSUME Init PROVE ClientInv
  OBVIOUS
<1>1. ch \in Seq(Bufs) /\ Len(ch) = 0
  BY DEF Init
<1> QED
  BY <1>1, ClientAssumption DEF Init, OrderInit, ClientInv, ClientTypeOK, OneSession

\* A client that was misled stays so.
LEMMA MisledStays == [Next]_vars => (misled => misled')
<1> SUFFICES ASSUME [Next]_vars, misled PROVE misled'
  OBVIOUS
<1> USE DEF loopVars
<1>1. CASE Receiver
  BY <1>1, Zenon DEF Receiver, RxTop, RxCall, RxReturn, RxError, RxGot, RxSend, RxLearn, RxFill,
     RxNext
<1>2. CASE Handle \/ Owner
  BY <1>2, Zenon DEF Handle, Owner, CloseConn, CloseNil
<1> QED
  BY <1>1, <1>2, Zenon DEF Next, vars

\* Every step of the client is one of MoldOrder's, or none of its business.
LEMMA ClientStepSimulation ==
  ClientInv /\ [Next]_vars => [misled' \/ OrderNext]_orderVars
<1> SUFFICES ASSUME ClientInv, [Next]_vars, ~misled' PROVE [OrderNext]_orderVars
  BY Zenon
<1>0. ~misled
  BY MisledStays
<1>1. CASE Receiver
  <2>1. ASSUME NEW p \in Packets, RxGot(p) PROVE [OrderNext]_orderVars
    <3>1. CASE NameOf(p) = NoSession
      BY <2>1, <3>1, Zenon DEF RxGot, LearnSession, orderVars, rxVars, reqVars, notEnv
    <3>2. CASE NameOf(p) \in Sessions
      BY <2>1, <3>2, Zenon DEF RxGot, OrderNext, Environment
    <3> QED
      BY <3>1, <3>2, PacketSession, Zenon
  <2>2. CASE RxTop \/ RxCall \/ RxReturn \/ RxError \/ RxSend \/ RxNext
    BY <2>2, Zenon DEF RxTop, RxCall, RxReturn, RxError, RxSend, RxNext
  <2>3. CASE RxLearn \/ RxFill
    BY <2>3, Zenon DEF RxLearn, RxFill, OrderNext, Environment
  <2> QED
    BY <1>1, <2>1, <2>2, <2>3, Zenon DEF Receiver
<1>2. CASE Handle
  <2>1. Head(ch) = ch[1] /\ 1 \in 1 .. Len(ch) /\ session # NoSession
    BY <1>0, <1>2 DEF Handle, ClientInv, OneSession
  <2>2. Head(ch) \in Inputs(session)
    BY <1>0, <2>1, Zenon DEF ClientInv, OneSession
  <2>3. DoMsgBuf(Head(ch))
    BY <1>2, Zenon DEF Handle
  <2> QED
    BY <2>1, <2>2, <2>3, Zenon DEF OrderNext
<1>3. CASE Owner
  BY <1>3, Zenon DEF Owner, CloseConn, CloseNil, OrderNext, Environment
<1>4. CASE Processor \/ Application \/ Elapse
  BY <1>4, Zenon DEF OrderNext, Environment
<1>5. CASE UNCHANGED vars
  BY <1>5, Zenon DEF vars
<1> QED
  BY <1>1, <1>2, <1>3, <1>4, <1>5, Zenon DEF Next

-------------------------------------------------------------------------------
(* Theorems *)

\* The invariant holds in every reachable state of the client.
THEOREM ClientInvariance == Spec => []ClientInv
BY ClientInitInv, ClientNextInv, PTL DEF Spec

\* doMsgLoop's state keeps its types; in particular c.ch never holds more than
\* its capacity and no buffer behind the last of a batch is looked at.
THEOREM ClientTypes == Spec => []ClientTypeOK
<1>1. ClientInv => ClientTypeOK
  BY DEF ClientInv
<1> QED
  BY <1>1, ClientInvariance, PTL

\* gotBuff passes on sound packets of one session only, however many sessions
\* share the multicast group and whatever their names, up to the first packet of
\* a nameless session, or with a wrong count, that it lets through.
THEOREM SessionsApart == Spec => []OneSession
<1>1. ClientInv => OneSession
  BY DEF ClientInv
<1> QED
  BY <1>1, ClientInvariance, PTL

\* Up to such a packet the client, with its goroutines, channel, batches and
\* Close, implements the specification of ordering and delivery.
THEOREM ClientImplementsOrder == Spec => ImplementsOrder
<1>1. Init => OrderInit
  BY DEF Init
<1> QED
  BY <1>1, ClientStepSimulation, ClientInvariance, PTL DEF Spec, ImplementsOrder

\* So the application of the whole client, too, reads the messages of one
\* session in order, each exactly once, unless the client was misled.
THEOREM ClientReadsInOrder == Spec => [](~misled => NothingLost)
<1> DEFINE Sound == ~misled => IInv
<1>1. Init => Sound
  BY InitIInv, Zenon DEF Init
<1>2. ClientInv /\ Sound /\ [Next]_vars => Sound'
  <2> SUFFICES ASSUME ClientInv, Sound, [Next]_vars, ~misled' PROVE IInv'
    BY Zenon
  <2>1. [OrderNext]_orderVars
    BY ClientStepSimulation, Zenon
  <2>2. IInv
    BY MisledStays, Zenon
  <2> QED
    BY <2>1, <2>2, NextIInv
<1>3. Sound => (~misled => NothingLost)
  BY Zenon DEF IInv
<1> QED
  BY <1>1, <1>2, <1>3, ClientInvariance, PTL DEF Spec

-------------------------------------------------------------------------------
(* MoldProgram *)

\* An answer under way is a packet of the session the client has learnt.
AnswerFits == reply # Nil => session \in Sessions /\ reply \in Inputs(session)

ProgramInv == mpc = "loop" => IInv /\ AnswerFits

\* What a session consists of does not change.
LEMMA InputsStay == \A s : Inputs(s)' = Inputs(s)
BY Zenon DEF Inputs, DataBuf, HeartbeatBuf, EosBuf, GarbledBuf, Stream

\* An answer stays sound as long as it and the session stay.
LEMMA AnswerStays ==
  ASSUME AnswerFits, session' = session, reply' = reply
  PROVE  AnswerFits'
<1>1. ASSUME reply # Nil PROVE session' \in Sessions /\ reply' \in Inputs(session')
  BY <1>1, Zenon DEF AnswerFits
<1> QED
  BY <1>1, InputsStay, Zenon DEF AnswerFits

\* What the server sends is of the session and ends with it, as the request does.
LEMMA AnswerOfSession ==
  ASSUME IInv, sent # Nil, NEW k \in 1 .. MaxMessages - 1, k <= sent.msgCnt
  PROVE  session \in Sessions /\ DataBuf(sent.session, sent.seqNo, k) \in Inputs(session)
<1> DEFINE n == sent.seqNo
<1>1. /\ sent.session \in Sessions /\ n \in 1 .. Last /\ sent.msgCnt \in 1 .. NakWindow
  <2>1. sent \in Requests
    BY PartsHold, Zenon DEF TypeReq
  <2> QED
    BY <2>1 DEF Requests
<1>2. sent.session = session /\ n + sent.msgCnt <= seqMax
  BY Zenon DEF IInv, RequestsAnnounced
<1>3. seqMax \in Nat /\ seqMax <= End
  BY NumTypes
<1>4. /\ Last \in Nat /\ End \in Nat /\ NakWindow \in Nat /\ MaxMessages \in Nat
  BY Bounds, OrderAssumption
<1> HIDE DEF n
<1>5. n + k <= End
  BY <1>1, <1>2, <1>3, <1>4
<1>6. <<n, k>> \in {q \in (1 .. Last) \X (1 .. MaxMessages - 1) : q[1] + q[2] <= End}
  BY <1>1, <1>5
<1>7. DataBuf(session, n, k) \in Inputs(session)
  <2> DEFINE all == {q \in (1 .. Last) \X (1 .. MaxMessages - 1) : q[1] + q[2] <= End}
  <2> HIDE DEF all
  <2>1. <<n, k>>[1] = n /\ <<n, k>>[2] = k
    OBVIOUS
  <2>2. <<n, k>> \in all
    BY <1>6 DEF all
  <2>3. DataBuf(session, <<n, k>>[1], <<n, k>>[2]) \in {DataBuf(session, r[1], r[2]) : r \in all}
    BY <2>2, Zenon
  <2>4. DataBuf(session, n, k) \in {DataBuf(session, r[1], r[2]) : r \in all}
    BY <2>1, <2>3
  <2> QED
    BY <2>4, Zenon DEF Inputs, all
<1> QED
  BY <1>1, <1>2, <1>7, Zenon DEF n

\* A step of the client keeps the session once it is learnt.
LEMMA SessionStays ==
  ASSUME IInv, OrderNext, session \in Sessions
  PROVE  session' = session
<1>1. session # NoSession
  BY OrderAssumption, Zenon
<1>2. CASE Processor
  BY <1>2, Zenon DEF Processor, PTop, PTick, PEosStop, PEosLate, PSeqNo, PAppend, notProc, rxVars
<1>3. CASE Application
  BY <1>3, Zenon DEF Application, ATop, ATake, ACheck, notApp, rxVars
<1>4. CASE Environment
  BY <1>1, <1>4, Zenon DEF Environment, LearnSession, LearnServer, FillServer, Stop, CloseReq, Elapse,
     Depart, rxVars
<1>5. CASE \E m \in Inputs(session) : DoMsgBuf(m)
  BY <1>5, Zenon DEF DoMsgBuf, PGarbled, PHeartbeat, PEosMissing, PEosDone, PEosPeek,
     PRepeat, PAhead, PInOrder, notProc, rxVars
<1> QED
  BY <1>2, <1>3, <1>4, <1>5, Zenon DEF OrderNext

\* A step of the client, with the answer left alone or taken.
LEMMA ClientMoves ==
  ASSUME IInv, AnswerFits, OrderNext, reply' = reply \/ reply' = Nil
  PROVE  IInv' /\ AnswerFits'
<1>1. IInv'
  BY NextIInv, Zenon
<1>2. ASSUME reply' # Nil PROVE session' \in Sessions /\ reply' \in Inputs(session')
  <2>1. reply' = reply /\ session \in Sessions /\ reply \in Inputs(session)
    BY <1>2, Zenon DEF AnswerFits
  <2>2. session' = session
    BY <2>1, SessionStays
  <2> QED
    BY <2>1, <2>2, Zenon
<1>3. AnswerFits'
  BY <1>2, InputsStay, Zenon DEF AnswerFits
<1> QED
  BY <1>1, <1>3

\* Whatever the network loses, delays and repeats, whatever the server answers
\* and whenever main or a signal stops the client, the application reads the
\* session in order, and no answer lies outside it.
THEOREM ProgramReadsInOrder == ProgramSpec => []RecoversInOrder
<1>1. ProgramInit => ProgramInv
  <2>1. ProgramInit => OrderInit /\ reply = Nil
    BY Zenon DEF ProgramInit, RecoveryInit
  <2> QED
    BY <2>1, InitIInv, Zenon DEF ProgramInv, AnswerFits
<1>2. ProgramInv /\ [ProgramNext]_allVars => ProgramInv'
  <2> SUFFICES ASSUME ProgramInv, [ProgramNext]_allVars, mpc' = "loop"
               PROVE  IInv' /\ AnswerFits'
    BY Zenon DEF ProgramInv
  <2>1. CASE UNCHANGED allVars
    <3>1. UNCHANGED <<orderVars, reply>> /\ mpc = "loop"
      BY <2>1, Zenon DEF allVars, recoveryVars, programVars
    <3>2. IInv /\ AnswerFits
      BY <3>1, Zenon DEF ProgramInv
    <3>3. IInv'
      BY <3>1, <3>2, NextIInv, Zenon
    <3>4. session' = session /\ reply' = reply
      BY <3>1, Zenon DEF orderVars, rxVars
    <3> QED
      BY <3>2, <3>3, <3>4, AnswerStays
  <2>2. CASE MReturn \/ ExitFunc
    <3>1. mpc' = "exited"
      BY <2>2, Zenon DEF MReturn, ExitFunc, Exit
    <3> QED
      BY <3>1
  <2>3. ASSUME ProgramNext, ~MReturn, ~ExitFunc PROVE IInv /\ AnswerFits
    <3>1. mpc = "loop"
      BY <2>3, Zenon DEF ProgramNext, MTimeout, Signal, PSteps, PTicks, PApp, PElapse, PAnswer,
         PLose, PLearn, PInput, PReply, GoesDown, Alive
    <3> QED
      BY <3>1, Zenon DEF ProgramInv
  <2>4. ASSUME ProgramNext, ~MReturn, ~ExitFunc, OrderNext, reply' = reply \/ reply' = Nil
        PROVE  IInv' /\ AnswerFits'
    BY <2>3, <2>4, ClientMoves
  <2> SUFFICES ASSUME ProgramNext, ~MReturn, ~ExitFunc PROVE IInv' /\ AnswerFits'
    BY <2>1, <2>2, Zenon
  <2>5. CASE MTimeout \/ Signal
    <3>1. Stop /\ reply' = reply
      BY <2>5, Zenon DEF MTimeout, Signal, Stop, notEnv, rxVars, reqVars
    <3> QED
      BY <2>4, <3>1, Zenon DEF OrderNext, Environment
  <2>6. CASE PSteps \/ PTicks \/ PApp \/ PElapse \/ PLearn \/ PInput
    <3>1. OrderNext /\ reply' = reply
      BY <2>6, Zenon DEF PSteps, PTicks, PApp, PElapse, PLearn, PInput, Alive, Steps, Tick, AppSteps,
         TimePasses, Learn, HandleInput, OrderNext, Processor, Environment
    <3> QED
      BY <2>4, <3>1, Zenon
  <2>7. CASE PReply
    <3>1. reply # Nil /\ DoMsgBuf(reply) /\ reply' = Nil
      BY <2>7, Zenon DEF PReply, Alive, HandleReply
    <3>2. session \in Sessions /\ reply \in Inputs(session)
      BY <2>3, <3>1, Zenon DEF AnswerFits
    <3>3. session # NoSession
      BY <3>2, OrderAssumption, Zenon
    <3> QED
      BY <2>4, <3>1, <3>2, <3>3, Zenon DEF OrderNext
  <2>8. CASE PAnswer
    <3>1. Answer
      BY <2>8, Zenon DEF PAnswer, Alive
    <3>2. IInv'
      BY <2>3, <3>1, DepartStep, Zenon DEF Answer
    <3>3. PICK k \in 1 .. MaxMessages - 1 :
            k <= sent.msgCnt /\ reply' = DataBuf(sent.session, sent.seqNo, k)
      BY <3>1, Zenon DEF Answer
    <3>4. sent # Nil /\ session' = session
      BY <3>1, Zenon DEF Answer, Depart, rxVars
    <3>5. session \in Sessions /\ reply' \in Inputs(session)
      BY <2>3, <3>3, <3>4, AnswerOfSession
    <3> QED
      BY <3>2, <3>4, <3>5, InputsStay, Zenon DEF AnswerFits
  <2>9. CASE PLose
    <3>1. IInv' /\ session' = session /\ reply' = reply
      BY <2>3, <2>9, DepartStep, Zenon DEF PLose, Alive, LoseRequest, Depart, rxVars
    <3> QED
      BY <2>3, <3>1, AnswerStays
  <2>10. CASE GoesDown
    <3>1. UNCHANGED <<orderVars, reply>>
      BY <2>10, Zenon DEF GoesDown, recoveryVars
    <3>2. IInv'
      BY <2>3, <3>1, NextIInv, Zenon
    <3>3. session' = session /\ reply' = reply
      BY <3>1, Zenon DEF orderVars, rxVars
    <3> QED
      BY <2>3, <3>2, <3>3, AnswerStays
  <2> QED
    BY <2>5, <2>6, <2>7, <2>8, <2>9, <2>10, Zenon DEF ProgramNext
<1>3. ProgramInv => RecoversInOrder
  <2>1. NoSession \notin Sessions
    BY OrderAssumption
  <2> QED
    BY <2>1, Zenon DEF ProgramInv, RecoversInOrder, IInv, AnswerFits
<1> QED
  BY <1>1, <1>2, <1>3, PTL DEF ProgramSpec

===============================================================================
