---------------------------- MODULE MoldOrderProofs ----------------------------
(***************************************************************************)
(* Proofs about MoldOrder: whatever arrives, in whatever order, for any    *)
(* number of messages, packet size and request window.                     *)
(***************************************************************************)
EXTENDS MoldOrder, SequenceTheorems, FiniteSetTheorems, NaturalsInduction,
        WellFoundedInduction, TLAPS

-------------------------------------------------------------------------------
(* Facts about Stream *)

\* A stream is a sequence of its session's messages.
LEMMA StreamType ==
  ASSUME NEW s \in Sessions, NEW a \in 1 .. End, NEW b \in a .. End
  PROVE  /\ Stream(s, a, b) \in Seq(Messages)
         /\ Len(Stream(s, a, b)) = b - a
         /\ \A i \in 1 .. b - a : Stream(s, a, b)[i] = <<s, a + i - 1>>
<1>1. b - a \in Nat
  BY OrderAssumption DEF End
<1>2. \A i \in 1 .. b - a : <<s, a + i - 1>> \in Messages
  BY OrderAssumption DEF End, Messages
<1>3. Stream(s, a, b) \in Seq(Messages)
  BY <1>1, <1>2 DEF Stream
<1>4. Len(Stream(s, a, b)) = b - a
  BY <1>1, <1>2 DEF Stream
<1>5. \A i \in 1 .. b - a : Stream(s, a, b)[i] = <<s, a + i - 1>>
  BY DEF Stream
<1> QED
  BY <1>3, <1>4, <1>5

\* An empty stream, of whatever session, is the empty sequence.
LEMMA StreamEmpty ==
  ASSUME NEW s, NEW a \in Int
  PROVE  Stream(s, a, a) = <<>>
BY DEF Stream

\* Two adjacent streams are one.
LEMMA StreamConcat ==
  ASSUME NEW s \in Sessions, NEW a \in 1 .. End, NEW b \in a .. End, NEW c \in b .. End
  PROVE  Stream(s, a, b) \o Stream(s, b, c) = Stream(s, a, c)
<1> DEFINE t == Stream(s, a, b)  u == Stream(s, b, c)  v == Stream(s, a, c)
<1>1. /\ a \in Int /\ b \in Int /\ c \in Int /\ a <= b /\ b <= c
      /\ b \in 1 .. End /\ c \in a .. End
  BY OrderAssumption DEF End
<1>2. /\ t \in Seq(Messages) /\ Len(t) = b - a
      /\ \A i \in 1 .. b - a : t[i] = <<s, a + i - 1>>
  BY StreamType, Zenon
<1>3. /\ u \in Seq(Messages) /\ Len(u) = c - b
      /\ \A i \in 1 .. c - b : u[i] = <<s, b + i - 1>>
  BY <1>1, StreamType, Zenon
<1>4. /\ v \in Seq(Messages) /\ Len(v) = c - a
      /\ \A i \in 1 .. c - a : v[i] = <<s, a + i - 1>>
  BY <1>1, StreamType, Zenon
<1> HIDE DEF t, u, v
<1>5. /\ t \o u \in Seq(Messages) /\ Len(t \o u) = c - a
      /\ \A i \in 1 .. c - a :
           (t \o u)[i] = IF i <= b - a THEN t[i] ELSE u[i - (b - a)]
  <2>1. /\ t \o u \in Seq(Messages) /\ Len(t \o u) = Len(t) + Len(u)
        /\ \A i \in 1 .. Len(t) + Len(u) :
             (t \o u)[i] = IF i <= Len(t) THEN t[i] ELSE u[i - Len(t)]
    BY <1>2, <1>3, ConcatProperties, Zenon
  <2>2. Len(t) + Len(u) = c - a
    BY <1>1, <1>2, <1>3
  <2> QED
    BY <1>2, <2>1, <2>2
<1>6. ASSUME NEW i \in 1 .. c - a
      PROVE  (t \o u)[i] = v[i]
  <2>1. CASE i <= b - a
    <3>1. i \in 1 .. b - a
      BY <1>1, <2>1
    <3>2. (t \o u)[i] = t[i]
      BY <1>5, <2>1
    <3> QED
      BY <1>2, <1>4, <3>1, <3>2, Zenon
  <2>2. CASE ~(i <= b - a)
    <3>1. i - (b - a) \in 1 .. c - b
      BY <1>1, <2>2
    <3>2. u[i - (b - a)] = <<s, b + (i - (b - a)) - 1>>
      BY <1>3, <3>1
    <3>3. b + (i - (b - a)) - 1 = a + i - 1
      BY <1>1
    <3> QED
      BY <1>4, <1>5, <2>2, <3>2, <3>3, Zenon
  <2> QED
    BY <2>1, <2>2, Zenon
<1>7. t \o u = v
  BY <1>4, <1>5, <1>6, SeqEqual, Zenon
<1> QED
  BY <1>7 DEF t, u, v

\* Cutting the first messages off a stream leaves a stream.
LEMMA StreamCut ==
  ASSUME NEW s \in Sessions, NEW a \in 1 .. End, NEW b \in a .. End, NEW k \in a .. b
  PROVE  SubSeq(Stream(s, a, b), k - a + 1, b - a) = Stream(s, k, b)
<1> DEFINE t == Stream(s, a, b)  u == Stream(s, k, b)
           v == SubSeq(t, k - a + 1, b - a)
<1>1. /\ a \in Int /\ b \in Int /\ k \in Int /\ a <= k /\ k <= b
      /\ k \in 1 .. End /\ b \in k .. End
  BY OrderAssumption DEF End
<1>2. /\ t \in Seq(Messages) /\ Len(t) = b - a
      /\ \A i \in 1 .. b - a : t[i] = <<s, a + i - 1>>
  BY StreamType, Zenon
<1>3. /\ u \in Seq(Messages) /\ Len(u) = b - k
      /\ \A i \in 1 .. b - k : u[i] = <<s, k + i - 1>>
  BY <1>1, StreamType, Zenon
<1> HIDE DEF t, u
<1>4. \A i \in k - a + 1 .. b - a : t[i] \in Messages
  BY <1>1, <1>2, ElementOfSeq
<1>5. /\ v \in Seq(Messages) /\ Len(v) = b - k
      /\ \A i \in 1 .. b - k : v[i] = t[k - a + i]
  <2>1. k - a + 1 \in Int /\ b - a \in Int
    BY <1>1
  <2>2. /\ v \in Seq(Messages)
        /\ Len(v) = IF k - a + 1 <= b - a THEN (b - a) - (k - a + 1) + 1 ELSE 0
        /\ \A i \in 1 .. (b - a) - (k - a + 1) + 1 : v[i] = t[(k - a + 1) + i - 1]
    BY <2>1, <1>4, SubSeqProperties
  <2>3. /\ (b - a) - (k - a + 1) + 1 = b - k
        /\ k - a + 1 <= b - a \/ b - k = 0
        /\ \A i \in 1 .. b - k : (k - a + 1) + i - 1 = k - a + i
    BY <1>1
  <2> HIDE DEF v
  <2> QED
    BY <2>2, <2>3, Zenon
<1> HIDE DEF v
<1>6. ASSUME NEW i \in 1 .. b - k
      PROVE  v[i] = u[i]
  <2>1. k - a + i \in 1 .. b - a /\ a + (k - a + i) - 1 = k + i - 1
    BY <1>1
  <2> QED
    BY <1>2, <1>3, <1>5, <2>1, Zenon
<1>7. v = u
  BY <1>3, <1>5, <1>6, SeqEqual
<1> QED
  BY <1>7 DEF t, u, v

-------------------------------------------------------------------------------
(* The cache *)

\* A set of naturals that is not empty has a least element.
LEMMA LeastNat ==
  ASSUME NEW T \in SUBSET Nat, T # {}
  PROVE  \E k \in T : \A x \in T : k <= x
<1> DEFINE R == OpToRel(<, Nat)
<1>1. \A x, y \in Nat : <<x, y>> \in R <=> x < y
  BY DEF OpToRel
<1>2. IsWellFoundedOn(R, Nat)
  BY NatLessThanWellFounded, Zenon
<1> HIDE DEF R
<1>3. PICK k \in T : \A x \in T : ~(<<x, k>> \in R)
  BY <1>2, WFMin, Zenon
<1>4. ASSUME NEW x \in T
      PROVE  k <= x
  <2>1. x \in Nat /\ k \in Nat /\ ~(<<x, k>> \in R)
    BY <1>3
  <2> QED
    BY <1>1, <2>1
<1> QED
  BY <1>4

\* Merge takes from a cache of the session's messages, filed under their own
\* numbers, a stream that starts at n and goes up to a number not cached.
LEMMA MergeStream ==
  ASSUME NEW s \in Sessions, NEW c, NEW n \in 1 .. End,
         DOMAIN c \subseteq 1 .. Last, \A x \in DOMAIN c : c[x] = <<s, x>>
  PROVE  \E k \in n .. End : Merge(c, n) = Stream(s, n, k) /\ IsNil(c, k)
<1> DEFINE T == {x \in n .. End : x \notin DOMAIN c}
<1>1. /\ n \in Nat /\ End \in Nat /\ n <= End /\ End \notin 1 .. Last
  BY OrderAssumption DEF End
<1>2. T \in SUBSET Nat /\ End \in T
  BY <1>1
<1>3. PICK k \in T : \A x \in T : k <= x
  BY <1>2, LeastNat, Zenon
<1>4. /\ k \in Nat /\ n <= k /\ k <= End /\ k \notin DOMAIN c
  BY <1>1, <1>3
<1>5. \A x \in n .. k - 1 : x \in DOMAIN c
  BY <1>1, <1>3, <1>4
<1>6. RunFrom(c, n) = n .. k - 1
  <2>1. ASSUME NEW x \in RunFrom(c, n)
        PROVE  x \in n .. k - 1
    <3>1. x \in Nat /\ n <= x /\ n .. x \subseteq DOMAIN c
      BY OrderAssumption DEF RunFrom
    <3> QED
      BY <1>1, <1>4, <3>1
  <2>2. ASSUME NEW x \in n .. k - 1
        PROVE  x \in RunFrom(c, n)
    <3>1. x \in DOMAIN c /\ n <= x
      BY <1>1, <1>4, <1>5
    <3>2. n .. x \subseteq DOMAIN c
      BY <1>1, <1>4, <1>5
    <3> QED
      BY <3>1, <3>2 DEF RunFrom
  <2> QED
    BY <2>1, <2>2, Zenon
<1>7. Cardinality(RunFrom(c, n)) = k - n
  BY <1>1, <1>4, <1>6, FS_Interval
<1>8. \A i \in 1 .. k - n : c[n + i - 1] = <<s, n + i - 1>>
  BY <1>1, <1>4, <1>5
<1>9. Merge(c, n) = Stream(s, n, k)
  BY <1>7, <1>8 DEF Merge, Stream
<1> QED
  BY <1>1, <1>4, <1>9 DEF IsNil

-------------------------------------------------------------------------------
(* The inductive invariant *)

\* What ties the program counters to the rest of the state.
Shape ==
  /\ NextSeqNo \in First .. End
  /\ session = NoSession => /\ seqNo = First /\ seqMax = 0 /\ DOMAIN cache = {}
                            /\ sent = Nil /\ ppc \in {"top", "select", "done"}
  /\ endSession => seqEnd = End
  /\ ppc \notin {"seqNo", "append"} => res = <<>>
  /\ ppc \in {"eos", "sawNil", "sawSome"} => endSession /\ seqNo = End /\ eosSeq = End
  /\ ppc = "sawNil" => ready = Nil
  /\ apc # "check" => ares = Nil

IInv == TypeOK /\ NothingLost /\ NoStall /\ DoneMeansAll /\ RequestsAnnounced /\ Shape

\* TypeOK, part by part.
TypeRx == /\ Running \in BOOLEAN /\ session \in Sessions \cup {NoSession}
          /\ reqSrv \in Seq(Servers \cup {NoAddr})
TypeProc == /\ ppc \in {"top", "select", "eos", "sawNil", "sawSome", "seqNo", "append", "done"}
            /\ eosSeq \in 0 .. End /\ res \in Seq(Messages)
            /\ lastSeq \in 0 .. End /\ lastN \in 0 .. Last
TypeCache == DOMAIN cache \subseteq 1 .. Last /\ \A n \in DOMAIN cache : cache[n] \in Messages
TypeSeq == /\ seqNo \in First .. End /\ seqMax \in 0 .. End
           /\ endSession \in BOOLEAN /\ seqEnd \in 0 .. End /\ bDone \in BOOLEAN
TypeReq == /\ recent \in BOOLEAN /\ connReq \in Servers \cup {NoAddr, Nil}
           /\ robinN \in Nat /\ (robinN = 0 \/ robinN < Len(reqSrv))
           /\ sent \in Requests \cup {Nil}
TypeApp == /\ apc \in {"top", "take", "check", "done"}
           /\ ares \in Seq(Messages) \cup {Nil} /\ aseq \in 0 .. End
           /\ delivered \in Seq(Messages) /\ ready \in Seq(Messages) \cup {Nil}

\* The parts make up the whole.
LEMMA TypeParts ==
  /\ TypeOK <=> TypeRx /\ TypeProc /\ TypeCache /\ TypeSeq /\ TypeReq /\ TypeApp
  /\ TypeOK' <=> TypeRx' /\ TypeProc' /\ TypeCache' /\ TypeSeq' /\ TypeReq' /\ TypeApp'
<1>1. TypeOK <=> TypeRx /\ TypeProc /\ TypeCache /\ TypeSeq /\ TypeReq /\ TypeApp
  BY ZenonT(60) DEF TypeOK, TypeRx, TypeProc, TypeCache, TypeSeq, TypeReq, TypeApp
<1>2. TypeOK' <=> TypeRx' /\ TypeProc' /\ TypeCache' /\ TypeSeq' /\ TypeReq' /\ TypeApp'
  BY ZenonT(60) DEF TypeOK, TypeRx, TypeProc, TypeCache, TypeSeq, TypeReq, TypeApp
<1> QED
  BY <1>1, <1>2, Zenon

\* A part keeps its type when its variables keep their values.
LEMMA PartsKept ==
  /\ TypeRx /\ UNCHANGED <<Running, session, reqSrv>> => TypeRx'
  /\ TypeProc /\ UNCHANGED <<ppc, eosSeq, res, lastSeq, lastN>> => TypeProc'
  /\ TypeCache /\ UNCHANGED cache => TypeCache'
  /\ TypeSeq /\ UNCHANGED <<seqNo, seqMax, endSession, seqEnd, bDone>> => TypeSeq'
  /\ TypeReq /\ UNCHANGED <<reqSrv, recent, connReq, robinN, sent>> => TypeReq'
  /\ TypeApp /\ UNCHANGED <<apc, ares, aseq, delivered, ready>> => TypeApp'
<1>1. TypeRx /\ UNCHANGED <<Running, session, reqSrv>> => TypeRx'
  BY Zenon DEF TypeRx
<1>2. TypeProc /\ UNCHANGED <<ppc, eosSeq, res, lastSeq, lastN>> => TypeProc'
  BY Zenon DEF TypeProc
<1>3. TypeCache /\ UNCHANGED cache => TypeCache'
  BY DEF TypeCache
<1>4. TypeSeq /\ UNCHANGED <<seqNo, seqMax, endSession, seqEnd, bDone>> => TypeSeq'
  BY Zenon DEF TypeSeq
<1>5. TypeReq /\ UNCHANGED <<reqSrv, recent, connReq, robinN, sent>> => TypeReq'
  BY Zenon DEF TypeReq
<1>6. TypeApp /\ UNCHANGED <<apc, ares, aseq, delivered, ready>> => TypeApp'
  BY Zenon DEF TypeApp
<1> QED
  BY <1>1, <1>2, <1>3, <1>4, <1>5, <1>6, Zenon

LEMMA PartsHold ==
  ASSUME IInv
  PROVE  TypeRx /\ TypeProc /\ TypeCache /\ TypeSeq /\ TypeReq /\ TypeApp
BY TypeParts, Zenon DEF IInv

\* The numbers the constants stand for.
LEMMA Bounds ==
  /\ End \in Nat /\ Last \in Nat /\ End = Last + 1 /\ First \in 1 .. End
  /\ NakWindow \in Nat \ {0} /\ EndCnt \in Nat \ {0, 1}
BY OrderAssumption DEF First, End, EndCnt

\* The counters are numbers within the session.
LEMMA NumTypes ==
  ASSUME IInv
  PROVE  /\ {seqNo, seqMax, seqEnd, eosSeq, seqNo + Len(res)} \subseteq Nat
         /\ seqMax <= End /\ seqNo <= End /\ seqMax \in seqMax .. End
<1>1. /\ seqNo \in First .. End /\ seqMax \in 0 .. End /\ seqEnd \in 0 .. End
      /\ eosSeq \in 0 .. End
  BY PartsHold, Zenon DEF TypeSeq, TypeProc
<1>2. Len(res) \in Nat
  <2>1. res \in Seq(Messages)
    BY PartsHold, Zenon DEF TypeProc
  <2> QED
    BY <2>1
<1> QED
  BY <1>1, <1>2, Bounds

\* A request that was sent names a number and a count.
LEMMA SentType ==
  ASSUME TypeOK, sent # Nil
  PROVE  sent.seqNo \in Nat /\ sent.msgCnt \in Nat
<1>1. sent \in Requests
  BY Zenon DEF TypeOK
<1> QED
  BY <1>1, Bounds DEF Requests

\* What arrives on c.ch, by the branch of doMsgBuf that takes it.
LEMMA InputsShape ==
  ASSUME NEW s \in Sessions, NEW m \in Inputs(s)
  PROVE  /\ m.msgCnt = 0 => m.seqNo \in 1 .. End
         /\ m.msgCnt = EndCnt => m.seqNo = End
         /\ IsData(m) => /\ m.seqNo \in 1 .. Last /\ m.msgCnt \in Nat \ {0}
                         /\ m.seqNo + m.msgCnt \in m.seqNo .. End
                         /\ m.dataBuf = Stream(s, m.seqNo, m.seqNo + m.msgCnt)
<1>1. CASE \E n \in 1 .. Last, k \in 1 .. MaxMessages - 1 :
             n + k <= End /\ m = DataBuf(s, n, k)
  BY <1>1, Bounds, OrderAssumption DEF DataBuf, IsData
<1>2. CASE \E n \in 1 .. End : m = HeartbeatBuf(n)
  BY <1>2, Bounds DEF HeartbeatBuf, IsData
<1>3. CASE m = EosBuf
  BY <1>3, Bounds DEF EosBuf, IsData
<1>4. CASE m = GarbledBuf
  BY <1>4, Bounds DEF GarbledBuf, IsData
<1> QED
  BY <1>1, <1>2, <1>3, <1>4, SMTT(60) DEF Inputs

\* A call of newReq(n), and the request it may lead to, keep what the
\* invariant says of requests, and c.seqMax only grows.
LEMMA NewReqKeeps ==
  ASSUME TypeOK, RequestsAnnounced, NEW n \in 0 .. End, NEW max \in seqMax .. End,
         session # NoSession \/ n <= seqNo, NewReq(n, max),
         UNCHANGED <<session, reqSrv, seqNo>>
  PROVE  /\ seqMax' \in max .. End /\ recent' \in BOOLEAN
         /\ connReq' \in Servers \cup {NoAddr, Nil}
         /\ robinN' \in Nat /\ (robinN' = 0 \/ robinN' < Len(reqSrv'))
         /\ sent' \in Requests \cup {Nil}
         /\ n <= seqNo => sent' = sent /\ seqMax' = max
         /\ RequestsAnnounced'
<1> USE Bounds
<1>1. /\ seqNo \in First .. End /\ seqMax \in 0 .. End /\ max \in Nat /\ n \in Nat
      /\ seqNo \in Nat /\ seqMax \in Nat /\ 1 <= seqNo
  BY DEF TypeOK
<1>2. seqMax' \in max .. End /\ (seqNo < n => n <= seqMax')
  BY <1>1 DEF NewReq
<1>3. recent' \in BOOLEAN
  BY Zenon DEF NewReq, TypeOK
<1>4. CASE UNCHANGED <<connReq, robinN, sent>>
  <2>1. RequestsAnnounced'
    <3> SUFFICES ASSUME sent # Nil
                 PROVE  sent.seqNo + sent.msgCnt <= seqMax'
      BY <1>4 DEF RequestsAnnounced
    <3>1. sent.seqNo \in Nat /\ sent.msgCnt \in Nat
      BY SentType
    <3>2. sent.seqNo + sent.msgCnt <= seqMax
      BY DEF RequestsAnnounced
    <3> QED
      BY <1>1, <1>2, <3>1, <3>2
  <2>2. n <= seqNo => sent' = sent /\ seqMax' = max
    BY <1>1, <1>4, SMTT(60) DEF NewReq
  <2> QED
    BY <1>2, <1>3, <1>4, <2>1, <2>2, SMTT(60) DEF TypeOK
<1>5. CASE /\ seqNo < n /\ reqSrv # <<>> /\ sent' = ReqFor(n)
           /\ connReq' = IF connReq = Nil THEN reqSrv[robinN + 1] ELSE connReq
           /\ robinN' = IF robinN + 1 >= Len(reqSrv) THEN 0 ELSE robinN + 1
  <2>1. Len(reqSrv) \in Nat \ {0} /\ robinN + 1 \in 1 .. Len(reqSrv)
    BY <1>5, SMTT(60) DEF TypeOK
  <2>2. reqSrv[robinN + 1] \in Servers \cup {NoAddr}
    BY <2>1 DEF TypeOK
  <2>3. connReq' \in Servers \cup {NoAddr, Nil}
    BY <1>5, <2>2 DEF TypeOK
  <2>4. robinN' \in Nat /\ (robinN' = 0 \/ robinN' < Len(reqSrv'))
    BY <1>5, <2>1 DEF TypeOK
  <2>5. session \in Sessions /\ seqNo \in 1 .. Last
    BY <1>1, <1>5 DEF TypeOK
  <2>6. sent' \in Requests
    BY <1>1, <1>5, <2>5 DEF ReqFor, Requests
  <2>7. /\ sent'.session = session /\ sent'.seqNo = seqNo
        /\ sent'.seqNo + sent'.msgCnt <= n
    BY <1>1, <1>5, <2>5, SMTT(60) DEF ReqFor
  <2>8. RequestsAnnounced'
    <3>1. sent'.seqNo \in Nat /\ sent'.msgCnt \in Nat
      BY <2>6 DEF Requests
    <3>2. sent'.seqNo + sent'.msgCnt <= seqMax'
      BY <1>1, <1>2, <1>5, <2>7, <3>1, SMTT(60)
    <3> QED
      BY <1>1, <2>7, <3>2 DEF RequestsAnnounced
  <2> QED
    BY <1>1, <1>2, <1>3, <1>5, <2>3, <2>4, <2>6, <2>8, SMTT(60)
<1> QED
  BY <1>4, <1>5, SMTT(60) DEF NewReq, Request, NextRobin

\* A step of requestLoop that leaves the messages alone, and does not enter or
\* leave the middle of doMsgBuf, keeps them in order.
LEMMA MessagesKept ==
  ASSUME IInv, UNCHANGED <<session, res, cache, seqNo, ready, ares, delivered>>,
         ppc # "seqNo", ppc' # "seqNo"
  PROVE  NothingLost' /\ NoStall' /\ NextSeqNo' \in First .. End
BY Zenon DEF IInv, TypeOK, NothingLost, Received, NoStall, NextSeqNo, Contents, IsNil, Stream

\* Steps that only move requestLoop on.
LEMMA QuietStep ==
  ASSUME IInv, ppc \in {"top", "select"}, ppc' \in {"top", "select", "done"},
         UNCHANGED <<Running, eosSeq, ordVars, eosVars, reqVars, ready, notProc>>
  PROVE  IInv'
<1>1. NothingLost' /\ NoStall' /\ NextSeqNo' \in First .. End
  BY MessagesKept DEF ordVars, notProc, rxVars, appVars
<1> USE DEF ordVars, eosVars, reqVars, notProc, rxVars, appVars
<1>2. TypeOK'
  <2>1. TypeProc'
    <3>1. ppc' \in {"top", "select", "eos", "sawNil", "sawSome", "seqNo", "append", "done"}
      OBVIOUS
    <3> QED
      BY <3>1, PartsHold, Zenon DEF TypeProc
  <2> QED
    BY <2>1, PartsHold, PartsKept, TypeParts, Zenon
<1>3. DoneMeansAll' /\ RequestsAnnounced'
  BY DEF IInv, DoneMeansAll, RequestsAnnounced
<1>4. Shape'
  BY <1>1 DEF IInv, Shape
<1> QED
  BY <1>1, <1>2, <1>3, <1>4 DEF IInv

\* Steps that call newReq.
LEMMA RequestStep ==
  ASSUME IInv, NEW n \in 0 .. End, NEW max \in seqMax .. End, NewReq(n, max),
         session # NoSession \/ (n <= seqNo /\ max = 0),
         ppc \in {"select", "eos", "sawNil", "sawSome"}, ppc' = "top",
         Running' \in BOOLEAN, eosSeq' \in 0 .. End,
         endSession' \in BOOLEAN, seqEnd' \in 0 .. End, bDone' \in BOOLEAN,
         endSession => endSession', endSession' => seqEnd' = End,
         bDone' => endSession' /\ seqNo = End,
         UNCHANGED <<ordVars, ready, notProc>>
  PROVE  IInv'
<1> USE DEF ordVars, notProc, rxVars, appVars
<1>1. NothingLost' /\ NoStall' /\ NextSeqNo' \in First .. End
  BY MessagesKept
<1>2. /\ seqMax' \in max .. End /\ recent' \in BOOLEAN
      /\ connReq' \in Servers \cup {NoAddr, Nil}
      /\ robinN' \in Nat /\ (robinN' = 0 \/ robinN' < Len(reqSrv'))
      /\ sent' \in Requests \cup {Nil}
      /\ n <= seqNo => sent' = sent /\ seqMax' = max
      /\ RequestsAnnounced'
  BY NewReqKeeps, SMTT(60) DEF IInv
<1>3. seqMax' \in 0 .. End
  BY <1>2, Bounds, SMTT(60) DEF IInv, TypeOK
<1>4. TypeOK'
  <2>1. TypeProc'
    BY PartsHold, Zenon DEF TypeProc
  <2>2. TypeSeq' /\ TypeReq'
    BY <1>2, <1>3, PartsHold, Zenon DEF TypeSeq, TypeReq
  <2>3. TypeRx'
    BY PartsHold, Zenon DEF TypeRx
  <2> QED
    BY <2>1, <2>2, <2>3, PartsHold, PartsKept, TypeParts, Zenon
<1>5. DoneMeansAll'
  BY DEF IInv, DoneMeansAll
<1>6. Shape'
  BY <1>1, <1>2 DEF IInv, Shape
<1> QED
  BY <1>1, <1>2, <1>4, <1>5, <1>6, SMTT(60) DEF IInv

\* A packet ahead of a gap is cached, short of the message expected next.
LEMMA AheadStep ==
  ASSUME IInv, session \in Sessions, NEW m \in Inputs(session), PAhead(m)
  PROVE  IInv'
<1> USE DEF ordVars, eosVars, reqVars, notProc, rxVars, appVars
<1> DEFINE a == m.seqNo  b == m.seqNo + m.msgCnt
<1>1. /\ a \in 1 .. Last /\ b \in a .. End /\ b \in Nat /\ m.dataBuf = Stream(session, a, b)
      /\ ppc = "select" /\ seqNo \in First .. End /\ seqNo < a /\ a < b /\ a \in 1 .. End
  <2>1. ppc = "select" /\ IsData(m) /\ seqNo < a
    BY Zenon DEF PAhead
  <2>2. /\ a \in 1 .. Last /\ m.seqNo + m.msgCnt \in a .. End /\ m.msgCnt \in Nat \ {0}
        /\ m.dataBuf = Stream(session, a, m.seqNo + m.msgCnt)
    BY <2>1, InputsShape, Zenon
  <2>3. seqNo \in First .. End
    BY Zenon DEF IInv, TypeOK
  <2> QED
    BY <2>1, <2>2, <2>3, Bounds
<1>2. /\ Len(m.dataBuf) = b - a
      /\ \A i \in 1 .. b - a : m.dataBuf[i] = <<session, a + i - 1>>
  <2>1. /\ Len(Stream(session, a, b)) = b - a
        /\ \A i \in 1 .. b - a : Stream(session, a, b)[i] = <<session, a + i - 1>>
    BY <1>1, StreamType, Zenon
  <2> QED
    BY <1>1, <2>1, Zenon
<1> HIDE DEF b
<1>3. /\ DOMAIN cache' = DOMAIN cache \cup (a .. b - 1)
      /\ \A x \in DOMAIN cache' :
           cache'[x] = IF x \in a .. b - 1 THEN m.dataBuf[x - a + 1] ELSE cache[x]
  <2>1. cache' = [x \in DOMAIN cache \cup a .. b - 1 |->
                    IF x \in a .. b - 1 THEN m.dataBuf[x - a + 1] ELSE cache[x]]
    <3>1. a + Len(m.dataBuf) - 1 = b - 1
      BY <1>1, <1>2, SMTT(60)
    <3>2. cache' = UpsetAll(cache, a, m.dataBuf)
      BY Zenon DEF PAhead
    <3> QED
      BY <3>1, <3>2, Zenon DEF UpsetAll
  <2> QED
    BY <2>1, SMTT(60)
<1>4. \A x \in DOMAIN cache' : cache'[x] = <<session, x>>
  <2> SUFFICES ASSUME NEW x \in DOMAIN cache'
               PROVE  cache'[x] = <<session, x>>
    OBVIOUS
  <2>1. CASE x \in a .. b - 1
    <3>1. x - a + 1 \in 1 .. b - a /\ a + (x - a + 1) - 1 = x
      BY <1>1, <2>1, SMTT(60)
    <3> QED
      BY <1>2, <1>3, <2>1, <3>1, SMTT(60)
  <2>2. CASE x \notin a .. b - 1
    BY <1>3, <2>2, SMTT(60) DEF IInv, NoStall
  <2> QED
    BY <2>1, <2>2, SMTT(60)
<1>5. DOMAIN cache' \subseteq 1 .. Last /\ seqNo \notin DOMAIN cache'
  BY <1>1, <1>3, Bounds, SMTT(60) DEF IInv, TypeOK, NoStall, IsNil, NextSeqNo
<1>6. \A x \in DOMAIN cache' : cache'[x] \in Messages
  BY <1>4, <1>5 DEF Messages
<1>7. NoStall' /\ NothingLost' /\ NextSeqNo' \in First .. End
  BY <1>1, <1>4, <1>5, Zenon DEF PAhead, IInv, NoStall, NothingLost, Received, NextSeqNo, IsNil,
     Contents, Stream
<1>8. /\ seqMax' \in seqMax .. End /\ recent' \in BOOLEAN
      /\ connReq' \in Servers \cup {NoAddr, Nil}
      /\ robinN' \in Nat /\ (robinN' = 0 \/ robinN' < Len(reqSrv'))
      /\ sent' \in Requests \cup {Nil}
      /\ RequestsAnnounced'
  <2>1. CASE UNCHANGED reqVars
    BY <2>1, Bounds DEF PAhead, IInv, TypeOK, RequestsAnnounced
  <2>2. CASE NewReq(StoreCacheRet(cache', m), seqMax)
    <3>1. StoreCacheRet(cache', m) \in 0 .. End
      BY <1>1, Bounds DEF StoreCacheRet
    <3>2. seqMax \in seqMax .. End
      BY Bounds DEF IInv, TypeOK
    <3>3. session # NoSession
      BY OrderAssumption, SMTT(60)
    <3> QED
      BY <2>2, <3>1, <3>2, <3>3, NewReqKeeps, Zenon DEF PAhead, IInv
  <2> QED
    BY <2>1, <2>2, SMTT(60) DEF PAhead
<1>9. TypeOK'
  <2>1. seqMax' \in 0 .. End
    BY <1>8, Bounds, SMTT(60) DEF IInv, TypeOK
  <2> QED
    <3>1. TypeProc'
      BY PartsHold, Zenon DEF PAhead, TypeProc
    <3>2. TypeCache'
      BY <1>5, <1>6, Zenon DEF TypeCache
    <3>3. TypeSeq' /\ TypeReq'
      BY <1>8, <2>1, PartsHold, Zenon DEF PAhead, TypeSeq, TypeReq
    <3>4. UNCHANGED <<Running, session, reqSrv, apc, ares, aseq, delivered, ready>>
      BY Zenon DEF PAhead
    <3> QED
      BY <3>1, <3>2, <3>3, <3>4, PartsHold, PartsKept, TypeParts, Zenon
<1>10. DoneMeansAll'
  BY SMTT(60) DEF PAhead, IInv, DoneMeansAll
<1>11. Shape'
  BY <1>7, OrderAssumption DEF PAhead, IInv, Shape
<1> QED
  BY <1>7, <1>8, <1>9, <1>10, <1>11 DEF IInv

\* The packet with the message expected next, and the cached run behind it,
\* extend the messages in order.
LEMMA InOrderStep ==
  ASSUME IInv, session \in Sessions, NEW m \in Inputs(session), PInOrder(m)
  PROVE  IInv'
<1> USE DEF ordVars, eosVars, reqVars, notProc, rxVars, appVars
<1> DEFINE a == m.seqNo  b == m.seqNo + m.msgCnt
<1>1. /\ a \in 1 .. Last /\ b \in a .. End /\ b \in Nat /\ m.dataBuf = Stream(session, a, b)
      /\ ppc = "select" /\ seqNo \in First .. End /\ seqNo \in a .. b
      /\ seqNo \in 1 .. End /\ a \in 1 .. End /\ b \in 1 .. End /\ b \in seqNo .. End
  <2>1. ppc = "select" /\ IsData(m) /\ a <= seqNo /\ seqNo <= m.seqNo + m.msgCnt
    BY Zenon DEF PInOrder
  <2>2. /\ a \in 1 .. Last /\ m.seqNo + m.msgCnt \in a .. End
        /\ m.dataBuf = Stream(session, a, m.seqNo + m.msgCnt)
    BY <2>1, InputsShape, Zenon
  <2>3. seqNo \in First .. End
    BY Zenon DEF IInv, TypeOK
  <2> QED
    BY <2>1, <2>2, <2>3, Bounds
<1>2. Len(m.dataBuf) = b - a
  <2>1. Len(Stream(session, a, b)) = b - a
    BY <1>1, StreamType, Zenon
  <2> QED
    BY <1>1, <2>1, Zenon
<1> HIDE DEF b
<1>3. Fresh(m) = Stream(session, seqNo, b)
  BY <1>1, <1>2, StreamCut, ZenonT(60) DEF Fresh
<1>4. seqNo + Len(Fresh(m)) = b
  <2>1. Len(Stream(session, seqNo, b)) = b - seqNo
    BY <1>1, StreamType, Zenon
  <2> QED
    BY <1>1, <1>3, <2>1
<1>5. PICK k \in b .. End : Merge(cache, b) = Stream(session, b, k) /\ IsNil(cache, k)
  BY <1>1, MergeStream, Zenon DEF IInv, TypeOK, NoStall
<1>6. res' = Stream(session, seqNo, k)
  BY <1>1, <1>3, <1>4, <1>5, StreamConcat, ZenonT(60) DEF PInOrder, PopCache
<1>7. /\ k \in First .. End /\ k \in seqNo .. End
      /\ res' \in Seq(Messages) /\ Len(res') = k - seqNo
  <2>1. k \in First .. End /\ k \in seqNo .. End
    BY <1>1, <1>5, Bounds, SMTT(60)
  <2> QED
    BY <1>1, <1>6, <2>1, StreamType, Zenon
<1>8. ppc' = "seqNo" /\ NextSeqNo' = k
  BY <1>1, <1>7, SMTT(60) DEF PInOrder, NextSeqNo, PopCache
<1>9. NothingLost'
  <2>1. delivered \o Contents(ares) \o Contents(ready) \o <<>>
          = Stream(session, First, seqNo)
    BY <1>1, Zenon DEF IInv, NothingLost, Received, NextSeqNo, Shape
  <2>2. delivered \o Contents(ares) \o Contents(ready) \in Seq(Messages)
    BY DEF IInv, TypeOK, Contents
  <2>3. delivered \o Contents(ares) \o Contents(ready) = Stream(session, First, seqNo)
    BY <2>1, <2>2, ConcatEmptySeq, SMTT(60)
  <2>4. Stream(session, First, seqNo) \o Stream(session, seqNo, k)
          = Stream(session, First, k)
    <3>1. First \in 1 .. End
      BY Bounds, SMTT(60)
    <3> QED
      BY <1>1, <1>7, <3>1, StreamConcat, Zenon
  <2> QED
    BY <1>6, <1>8, <2>3, <2>4, Zenon DEF PInOrder, NothingLost, Received, Contents, PopCache
<1>10. NoStall'
  BY <1>5, <1>8, Zenon DEF PInOrder, IInv, NoStall, IsNil, PopCache
<1>11. TypeOK'
  <2>1. lastSeq' \in 0 .. End /\ lastN' \in 0 .. Last
    BY <1>1, <1>7, Bounds, SMTT(60) DEF PInOrder, PopCache
  <2> QED
    <3>1. TypeProc'
      BY <1>7, <1>8, <2>1, PartsHold, Zenon DEF PInOrder, TypeProc
    <3>2. UNCHANGED <<Running, rxVars, cache, seqNo, eosVars, reqVars, appVars, ready>>
      BY Zenon DEF PInOrder
    <3> QED
      BY <3>1, <3>2, PartsHold, PartsKept, TypeParts, Zenon
<1>12. DoneMeansAll' /\ RequestsAnnounced'
  BY SMTT(60) DEF PInOrder, IInv, DoneMeansAll, RequestsAnnounced, PopCache
<1>13. Shape'
  <2>1. session # NoSession
    BY OrderAssumption, Zenon
  <2> QED
    BY <1>7, <1>8, <2>1, Zenon DEF PInOrder, IInv, Shape, PopCache
<1> QED
  BY <1>9, <1>10, <1>11, <1>12, <1>13, SMTT(60) DEF IInv

\* When an EOS packet finds nothing missing, c.seqNo is the end of the session.
LEMMA GotAllMeansEnd ==
  ASSUME IInv, GotAll(End)
  PROVE  seqNo = End
BY Bounds DEF IInv, TypeOK, GotAll

\* doMsgBuf on a packet of the session.
LEMMA DoMsgBufStep ==
  ASSUME IInv, session \in Sessions, NEW m \in Inputs(session), DoMsgBuf(m)
  PROVE  IInv'
<1> USE DEF ordVars, eosVars, reqVars, notProc, rxVars, appVars
<1>1. CASE PGarbled(m)
  BY <1>1, QuietStep, SMTT(60) DEF PGarbled
<1>2. CASE PHeartbeat(m)
  <2>1. m.seqNo \in 0 .. End /\ seqMax \in seqMax .. End /\ session # NoSession
    <3>1. m.seqNo \in 1 .. End
      BY <1>2, InputsShape, Zenon DEF PHeartbeat
    <3>2. session # NoSession
      BY OrderAssumption, Zenon
    <3> QED
      <4>1. End \in Nat /\ seqMax \in seqMax .. End
        BY Bounds, NumTypes, Zenon
      <4>2. m.seqNo \in 0 .. End
        BY <3>1, <4>1
      <4> QED
        BY <3>2, <4>1, <4>2, Zenon
  <2> QED
    BY <1>2, <2>1, RequestStep, ZenonT(60)
       DEF PHeartbeat, IInv, TypeOK, DoneMeansAll, Shape
<1>3. ASSUME m.msgCnt = EndCnt, endSession' = TRUE, seqEnd' = EndAfter(m)
      PROVE  m.seqNo = End /\ seqEnd' = End /\ End \in 0 .. End
  BY <1>3, InputsShape, Bounds, SMTT(60) DEF EndAfter, IInv, Shape
<1>4. CASE PEosMissing(m)
  <2> DEFINE max == IF seqNo >= seqMax /\ ready = Nil THEN seqEnd' ELSE seqMax
  <2>1. m.seqNo = End /\ seqEnd' = End /\ End \in 0 .. End
    BY <1>3, <1>4, SMTT(60) DEF PEosMissing, ReadyNil
  <2>2. max \in seqMax .. End /\ session # NoSession
    BY <2>1, Bounds, OrderAssumption, SMTT(60) DEF IInv, TypeOK
  <2>3. NewReq(m.seqNo, max)
    BY <1>4 DEF PEosMissing, ReadyNil
  <2> HIDE DEF max
  <2> QED
    BY <1>4, <2>1, <2>2, <2>3, RequestStep, ZenonT(60)
       DEF PEosMissing, IInv, TypeOK, DoneMeansAll, ReadyNil
<1>5. CASE PEosDone(m) \/ PEosPeek(m)
  <2>1. m.seqNo = End /\ seqEnd' = End /\ End \in 0 .. End /\ GotAll(End)
    BY <1>3, <1>5, Zenon DEF PEosDone, PEosPeek, ReadyNil
  <2>2. seqNo = End
    BY <2>1, GotAllMeansEnd
  <2>3. /\ ppc = "select" /\ ppc' \in {"eos", "sawNil", "sawSome"}
        /\ ppc' = "sawNil" => ready = Nil
        /\ endSession' = TRUE /\ eosSeq' = End /\ bDone' \in BOOLEAN
        /\ UNCHANGED <<Running, ordVars, reqVars, ready, notProc>>
    BY <1>5, <2>1, Zenon DEF PEosDone, PEosPeek, IInv, TypeOK, ReadyNil
  <2>4. NothingLost' /\ NoStall' /\ NextSeqNo' \in First .. End
    BY <2>3, MessagesKept, SMTT(60)
  <2>5. TypeOK'
    <3>1. ppc' \in {"top", "select", "eos", "sawNil", "sawSome", "seqNo", "append", "done"}
      BY <2>3
    <3> QED
      <4>1. TypeProc' /\ TypeSeq'
        BY <2>1, <2>3, <3>1, PartsHold, Zenon DEF TypeProc, TypeSeq
      <4> QED
        BY <2>3, <4>1, PartsHold, PartsKept, TypeParts, Zenon
  <2>6. DoneMeansAll' /\ RequestsAnnounced'
    BY <2>1, <2>2, <2>3, SMTT(60) DEF IInv, DoneMeansAll, RequestsAnnounced
  <2>7. Shape'
    <3>1. session # NoSession
      BY OrderAssumption, Zenon
    <3> QED
      BY <2>1, <2>2, <2>3, <2>4, <3>1, Zenon DEF IInv, Shape
  <2> QED
    BY <2>4, <2>5, <2>6, <2>7, SMTT(60) DEF IInv
<1>6. CASE PRepeat(m)
  BY <1>6, QuietStep DEF PRepeat
<1>7. CASE PAhead(m)
  BY <1>7, AheadStep
<1>8. CASE PInOrder(m)
  BY <1>8, InOrderStep
<1> QED
  BY <1>1, <1>2, <1>4, <1>5, <1>6, <1>7, <1>8, SMTT(60) DEF DoMsgBuf

\* The other steps of requestLoop.
LEMMA ProcessorStep ==
  ASSUME IInv, Processor
  PROVE  IInv'
<1> USE DEF ordVars, eosVars, reqVars, notProc, rxVars, appVars
<1>1. CASE PTop
  BY <1>1, QuietStep, SMTT(60) DEF PTop
<1>2. CASE PTick
  <2>1. CASE seqNo < seqMax
    <3>1. seqMax \in 0 .. End /\ seqMax \in seqMax .. End /\ session # NoSession
      BY <2>1, Bounds, SMTT(60) DEF IInv, TypeOK, Shape
    <3> QED
      BY <1>2, <2>1, <3>1, RequestStep, ZenonT(60)
         DEF PTick, IInv, TypeOK, DoneMeansAll, Shape
  <2>2. CASE ~(seqNo < seqMax)
    BY <1>2, <2>2, QuietStep, SMTT(60) DEF PTick
  <2> QED
    BY <2>1, <2>2, SMTT(60)
<1>3. CASE PEosStop \/ PEosLate
  <2>1. /\ ppc \in {"eos", "sawNil", "sawSome"} /\ ppc' = "top" /\ eosSeq' = 0
        /\ NewReq(eosSeq, seqMax) /\ Running' \in BOOLEAN /\ bDone' \in BOOLEAN
        /\ UNCHANGED <<ordVars, endSession, seqEnd, ready, notProc>>
    BY <1>3, ZenonT(60) DEF PEosStop, PEosLate, IInv, TypeOK, ReadyNil
  <2>2. /\ session # NoSession /\ endSession /\ seqEnd = End /\ seqNo = End
        /\ eosSeq = End
    BY <2>1 DEF IInv, Shape
  <2>3. /\ eosSeq \in 0 .. End /\ 0 \in 0 .. End /\ seqMax \in seqMax .. End
        /\ End \in 0 .. End
    BY <2>2, Bounds DEF IInv, TypeOK
  <2>4. /\ endSession' /\ endSession' \in BOOLEAN /\ seqEnd' = End
        /\ ppc \in {"select", "eos", "sawNil", "sawSome"}
    BY <2>1, <2>2, Zenon DEF IInv, TypeOK
  <2> QED
    BY <2>1, <2>2, <2>3, <2>4, RequestStep, Zenon
<1>4. CASE PSeqNo
  <2>1. /\ ppc = "seqNo" /\ ppc' = "append" /\ seqNo' = NextSeqNo
        /\ NextSeqNo' = NextSeqNo /\ NextSeqNo \in First .. End
    BY <1>4, SMTT(60) DEF PSeqNo, NextSeqNo, IInv, Shape
  <2>2. /\ seqNo \in Nat /\ seqMax \in Nat /\ seqMax <= End /\ seqNo' \in Nat
        /\ seqNo <= seqNo' /\ seqNo' <= End /\ End \in Nat
    <3>1. seqNo' = seqNo + Len(res)
      BY <1>4, Zenon DEF PSeqNo
    <3>2. Len(res) \in Nat
      <4>1. res \in Seq(Messages)
        BY PartsHold, Zenon DEF TypeProc
      <4> QED
        BY <4>1
    <3> QED
      BY <2>1, <3>1, <3>2, Bounds, NumTypes
  <2>3. session # NoSession
    BY <2>1, SMTT(60) DEF IInv, Shape
  <2>4. seqMax' \in seqMax .. End
    <3>1. seqMax' = seqMax \/ (endSession /\ seqNo' >= seqMax /\ seqEnd > seqNo' /\ seqMax' = seqEnd)
      BY <1>4, Zenon DEF PSeqNo
    <3>2. endSession => seqEnd = End
      BY Zenon DEF IInv, Shape
    <3> QED
      BY <2>2, <3>1, <3>2
  <2>5. bDone' \in BOOLEAN
    BY <1>4, Zenon DEF PSeqNo, IInv, TypeOK
  <2>6. NothingLost' /\ NoStall'
    BY <1>4, <2>1, Zenon DEF PSeqNo, IInv, NothingLost, Received, NoStall, Contents, IsNil, Stream
  <2>7. TypeOK'
    <3>1. seqMax' \in 0 .. End
      BY <2>2, <2>4
    <3> QED
      <4>1. TypeProc' /\ TypeSeq'
        BY <1>4, <2>1, <2>5, <3>1, PartsHold, Zenon DEF PSeqNo, TypeProc, TypeSeq
      <4>2. UNCHANGED <<Running, rxVars, cache, recent, connReq, robinN, sent, appVars, ready>>
        BY <1>4, Zenon DEF PSeqNo
      <4> QED
        BY <4>1, <4>2, PartsHold, PartsKept, TypeParts, Zenon
  <2>8. DoneMeansAll'
    <3>1. CASE bDone
      BY <1>4, <2>2, <3>1, SMTT(60) DEF PSeqNo, IInv, DoneMeansAll
    <3>2. CASE ~bDone /\ bDone'
      <4>1. endSession /\ seqEnd <= seqNo'
        BY <1>4, <3>2, Zenon DEF PSeqNo
      <4>2. endSession' /\ seqEnd = End /\ seqEnd' = End
        BY <1>4, <4>1 DEF PSeqNo, IInv, Shape
      <4>3. seqNo' = End
        BY <2>2, <4>1, <4>2, SMTT(60)
      <4> QED
        BY <4>2, <4>3 DEF DoneMeansAll
    <3> QED
      BY <3>1, <3>2, SMTT(60) DEF DoneMeansAll
  <2>9. RequestsAnnounced'
    <3> SUFFICES ASSUME sent # Nil
                 PROVE  sent.seqNo <= seqNo' /\ sent.seqNo + sent.msgCnt <= seqMax'
      BY <1>4, SMTT(60) DEF PSeqNo, IInv, RequestsAnnounced
    <3>1. sent.seqNo \in Nat /\ sent.msgCnt \in Nat
      BY SentType DEF IInv
    <3>2. sent.seqNo <= seqNo /\ sent.seqNo + sent.msgCnt <= seqMax
      BY SMTT(60) DEF IInv, RequestsAnnounced
    <3> QED
      BY <2>2, <2>4, <3>1, <3>2, SMTT(60)
  <2>10. Shape'
    BY <1>4, <2>1, <2>3 DEF PSeqNo, IInv, Shape
  <2> QED
    BY <2>6, <2>7, <2>8, <2>9, <2>10, SMTT(60) DEF IInv
<1>5. CASE PAppend
  <2> DEFINE held == delivered \o Contents(ares)
  <2>1. /\ ppc = "append" /\ ppc' = "top" /\ res' = <<>> /\ NextSeqNo' = NextSeqNo
    BY <1>5, SMTT(60) DEF PAppend, NextSeqNo
  <2>2. /\ held \in Seq(Messages) /\ Contents(ready) \in Seq(Messages)
        /\ res \in Seq(Messages)
    BY SMTT(60) DEF IInv, TypeOK, Contents
  <2>3. ready' = Contents(ready) \o res /\ ready' \in Seq(Messages)
    BY <1>5, <2>2, ConcatEmptySeq, SMTT(60) DEF PAppend, Contents
  <2>4. Contents(ready') = ready'
    BY <2>3, NilAssumption, Zenon DEF Contents
  <2>5. NothingLost'
    <3>1. held' = held
      BY <1>5 DEF PAppend, Contents
    <3>2. held \o Contents(ready) \o res = Stream(session, First, NextSeqNo)
      BY DEF IInv, NothingLost, Received
    <3> HIDE DEF held
    <3>3. held \o (Contents(ready) \o res) = held \o Contents(ready) \o res
      BY <2>2, ConcatAssociative, SMTT(60)
    <3>4. held \o ready' \o <<>> = held \o ready'
      BY <2>2, <2>3, ConcatEmptySeq, ConcatProperties, SMTT(60)
    <3>5. held' \o Contents(ready)' \o res' = Stream(session, First, NextSeqNo)
      BY <2>1, <2>3, <2>4, <3>1, <3>2, <3>3, <3>4, ZenonT(60) DEF Contents
    <3>6. Stream(session, First, NextSeqNo)' = Stream(session, First, NextSeqNo)
      BY <1>5, <2>1, SMTT(60) DEF PAppend, Stream
    <3> QED
      BY <3>5, <3>6 DEF NothingLost, Received, held
  <2>6. NoStall'
    BY <1>5, <2>1, SMTT(60) DEF PAppend, IInv, NoStall, IsNil
  <2>7. TypeOK'
    <3>1. <<>> \in Seq(Messages)
      BY SMTT(60)
    <3> QED
      <4>1. TypeProc' /\ TypeApp'
        BY <1>5, <2>1, <2>3, <3>1, PartsHold, Zenon DEF PAppend, TypeProc, TypeApp
      <4>2. UNCHANGED <<Running, rxVars, cache, seqNo, eosVars, reqVars>>
        BY <1>5, Zenon DEF PAppend
      <4> QED
        BY <4>1, <4>2, PartsHold, PartsKept, TypeParts, Zenon
  <2>8. DoneMeansAll' /\ RequestsAnnounced'
    BY <1>5, SMTT(60) DEF PAppend, IInv, DoneMeansAll, RequestsAnnounced
  <2>9. Shape'
    <3>1. /\ ppc = "append" /\ ppc' = "top" /\ res' = <<>>
          /\ UNCHANGED <<seqNo, seqMax, cache, sent, eosVars, eosSeq, notProc>>
      BY <1>5, Zenon DEF PAppend
    <3>2. session # NoSession
      BY <3>1 DEF IInv, Shape
    <3>3. NextSeqNo' \in First .. End
      BY <2>1, Zenon DEF IInv, Shape
    <3>4. session' # NoSession /\ (endSession' => seqEnd' = End) /\ (apc' # "check" => ares' = Nil)
      BY <3>1, <3>2, Zenon DEF IInv, Shape
    <3> QED
      BY <3>1, <3>3, <3>4 DEF Shape
  <2> QED
    BY <2>5, <2>6, <2>7, <2>8, <2>9, SMTT(60) DEF IInv
<1> QED
  BY <1>1, <1>2, <1>3, <1>4, <1>5, SMTT(60) DEF Processor

\* The application's loop around Read.
LEMMA ApplicationStep ==
  ASSUME IInv, Application
  PROVE  IInv'
<1> USE DEF ordVars, eosVars, reqVars, notApp, rxVars
<1>1. /\ UNCHANGED <<session, reqSrv, ppc, eosSeq, res, cache, seqNo, lastSeq, lastN,
                     endSession, seqEnd, bDone, seqMax, recent, connReq, robinN, sent>>
      /\ Running' \in BOOLEAN
  BY Zenon DEF Application, ATop, ATake, ACheck, IInv, TypeOK, ReadAll
<1>2. NoStall' /\ DoneMeansAll' /\ RequestsAnnounced' /\ NextSeqNo' = NextSeqNo
  <2>1. NextSeqNo' = NextSeqNo /\ DoneMeansAll' /\ RequestsAnnounced'
    BY <1>1, Zenon DEF IInv, DoneMeansAll, RequestsAnnounced, NextSeqNo
  <2>2. NoStall'
    BY <1>1, <2>1, Zenon DEF IInv, NoStall, IsNil
  <2> QED
    BY <2>1, <2>2, Zenon
<1>3. /\ delivered \in Seq(Messages) /\ Contents(ares) \in Seq(Messages)
      /\ Contents(ready) \in Seq(Messages) /\ Contents(Nil) = <<>>
  BY SMTT(60) DEF IInv, TypeOK, Contents
<1>4. ASSUME apc' \in {"top", "take", "check", "done"}, aseq' \in 0 .. End,
             ares' \in Seq(Messages) \cup {Nil}, ready' \in Seq(Messages) \cup {Nil},
             delivered' \in Seq(Messages)
      PROVE  TypeOK'
  <2>1. TypeApp' /\ TypeRx'
    BY <1>1, <1>4, PartsHold, Zenon DEF TypeApp, TypeRx
  <2> QED
    BY <1>1, <2>1, PartsHold, PartsKept, TypeParts, Zenon
<1>4a. ASSUME ready' = ready \/ ready' = Nil, apc' = "check" \/ ares' = Nil
      PROVE  Shape'
  <2>1. /\ NextSeqNo' \in First .. End
        /\ session' = NoSession => /\ seqNo' = First /\ seqMax' = 0 /\ DOMAIN cache' = {}
                                   /\ sent' = Nil /\ ppc' \in {"top", "select", "done"}
    BY <1>1, <1>2, Zenon DEF IInv, Shape
  <2>2. /\ endSession' => seqEnd' = End
        /\ ppc' \notin {"seqNo", "append"} => res' = <<>>
        /\ ppc' \in {"eos", "sawNil", "sawSome"}
             => endSession' /\ seqNo' = End /\ eosSeq' = End
    BY <1>1, Zenon DEF IInv, Shape
  <2>3. ppc' = "sawNil" => ready' = Nil
    BY <1>1, <1>4a, Zenon DEF IInv, Shape
  <2> QED
    BY <1>4a, <2>1, <2>2, <2>3, Zenon DEF Shape
<1>5. TypeOK' /\ Shape' /\ delivered' \o Contents(ares)' \o Contents(ready)'
                              = delivered \o Contents(ares) \o Contents(ready)
  <2>1. CASE ATop
    <3>1. TypeOK'
      <4>1. apc' \in {"top", "take", "check", "done"}
        BY <2>1 DEF ATop
      <4>2. UNCHANGED <<aseq, ares, ready, delivered>>
        BY <2>1, Zenon DEF ATop
      <4> QED
        BY <1>4, <4>1, <4>2, Zenon DEF IInv, TypeOK
    <3>2. Shape'
      <4>1. ready' = ready /\ ares' = Nil
        BY <2>1, Zenon DEF ATop, IInv, Shape
      <4> QED
        BY <1>4a, <4>1, Zenon
    <3> QED
      BY <2>1, <3>1, <3>2 DEF ATop, Contents
  <2>2. CASE ATake
    <3>1. TypeOK'
      <4>1. /\ apc' = "check" /\ aseq' \in 0 .. End /\ delivered' \in Seq(Messages)
            /\ ares' \in Seq(Messages) \cup {Nil} /\ ready' = Nil
        BY <2>2, Zenon DEF ATake, IInv, TypeOK
      <4> QED
        BY <1>4, <4>1, Zenon
    <3>2. Shape'
      BY <1>4a, <2>2, Zenon DEF ATake
    <3>3. Contents(ares) = <<>> /\ Contents(ares)' = Contents(ready) /\ Contents(ready)' = <<>>
      BY <2>2, SMTT(60) DEF ATake, IInv, Shape, Contents
    <3>4. /\ delivered \o <<>> = delivered
          /\ delivered \o Contents(ready) \in Seq(Messages)
      BY <1>3, ConcatEmptySeq, ConcatProperties
    <3>5. delivered \o Contents(ready) \o <<>> = delivered \o Contents(ready)
      BY <3>4, ConcatEmptySeq
    <3> QED
      BY <2>2, <3>1, <3>2, <3>3, <3>4, <3>5, SMTT(60) DEF ATake
  <2>3. CASE ACheck
    <3>1. /\ delivered' = delivered \o Contents(ares) /\ ares' = Nil
          /\ delivered' \in Seq(Messages)
      <4>1. delivered' = delivered \o Contents(ares) /\ ares' = Nil
        BY <2>3, Zenon DEF ACheck
      <4>2. delivered \o Contents(ares) \in Seq(Messages)
        BY <1>3, ConcatProperties, Zenon
      <4> QED
        BY <4>1, <4>2, Zenon
    <3>2. TypeOK'
      <4>1. 0 \in 0 .. End
        BY Bounds
      <4>2. apc' = "top" /\ aseq' = 0 /\ ready' = ready
        BY <2>3, Zenon DEF ACheck
      <4> QED
        BY <1>4, <3>1, <4>1, <4>2, Zenon DEF IInv, TypeOK
    <3>3. Shape'
      BY <1>4a, <2>3, Zenon DEF ACheck
    <3>4. delivered' \o <<>> = delivered'
      BY <3>1, ConcatEmptySeq, SMTT(60)
    <3>5. Contents(ares)' = <<>> /\ Contents(ready)' = Contents(ready)
      BY <2>3, SMTT(60) DEF ACheck, Contents, ReadAll
    <3> QED
      BY <3>1, <3>2, <3>3, <3>4, <3>5, SMTT(60)
  <2> QED
    BY <2>1, <2>2, <2>3, ZenonT(60) DEF Application
<1>6. NothingLost'
  <2>1. Stream(session, First, NextSeqNo)' = Stream(session, First, NextSeqNo)
    BY <1>1, <1>2, SMTT(60) DEF Stream
  <2> QED
    BY <1>1, <1>5, <2>1, SMTT(60) DEF IInv, NothingLost, Received
<1> QED
  BY <1>2, <1>5, <1>6, SMTT(60) DEF IInv

\* The request leaves: the client does not notice.
LEMMA DepartStep ==
  ASSUME IInv, Depart
  PROVE  IInv'
<1> USE DEF Depart, rxVars, ordVars, eosVars, appVars
<1>1. TypeOK'
  <2>1. TypeReq'
    BY PartsHold, Zenon DEF TypeReq
  <2> QED
    BY <2>1, PartsHold, PartsKept, TypeParts, Zenon
<1>2. NothingLost' /\ NoStall' /\ DoneMeansAll'
  BY Zenon DEF IInv, NothingLost, Received, NoStall, DoneMeansAll, NextSeqNo, Contents, IsNil,
     Stream
<1>3. RequestsAnnounced'
  BY DEF RequestsAnnounced
<1>4. Shape'
  BY Zenon DEF IInv, Shape, NextSeqNo
<1> QED
  BY <1>1, <1>2, <1>3, <1>4, Zenon DEF IInv

\* What the rest of the client does.
LEMMA EnvironmentStep ==
  ASSUME IInv, Environment
  PROVE  IInv'
<1> SUFFICES ASSUME ~Depart PROVE IInv'
  BY DepartStep
<1> USE DEF ordVars, eosVars, notEnv, appVars
<1>1. UNCHANGED notEnv
  BY Zenon DEF Environment, LearnSession, LearnServer, FillServer, Stop, CloseReq, Elapse
<1>2. NextSeqNo' = NextSeqNo /\ DoneMeansAll'
  BY <1>1 DEF IInv, NextSeqNo, DoneMeansAll
<1>3. CASE \E s \in Sessions : LearnSession(s)
  <2>1. /\ session = NoSession /\ session' \in Sessions /\ session' # NoSession
        /\ UNCHANGED <<Running, reqSrv, recent, connReq>>
    BY <1>3, OrderAssumption, SMTT(60) DEF LearnSession
  <2>2. /\ seqNo = First /\ NextSeqNo = First /\ DOMAIN cache = {} /\ sent = Nil
    BY <2>1, SMTT(60) DEF IInv, Shape, NextSeqNo
  <2>3. TypeOK'
    <3>1. TypeRx'
      BY <2>1, PartsHold, Zenon DEF TypeRx
    <3> QED
      BY <1>1, <2>1, <3>1, PartsHold, PartsKept, TypeParts, Zenon
  <2>4. NothingLost'
    <3>1. \A s : Stream(s, First, First) = <<>>
      BY StreamEmpty, Bounds
    <3> QED
      BY <1>1, <1>2, <2>2, <3>1, ZenonT(60) DEF IInv, NothingLost, Received, Contents
  <2>5. NoStall' /\ RequestsAnnounced'
    BY <1>1, <1>2, <2>2, Zenon DEF IInv, NoStall, RequestsAnnounced, IsNil
  <2>6. Shape'
    BY <1>1, <1>2, <2>1, SMTT(60) DEF IInv, Shape
  <2> QED
    BY <1>2, <2>3, <2>4, <2>5, <2>6, SMTT(60) DEF IInv
<1>4. CASE UNCHANGED session
  <2>1. TypeOK'
    <3>0. ASSUME robinN = 0, reqSrv' \in Seq(Servers \cup {NoAddr}),
                 UNCHANGED <<Running, recent, connReq>>
          PROVE  TypeOK'
      <4>1. TypeRx' /\ TypeReq'
        BY <1>1, <1>4, <3>0, PartsHold, Zenon DEF TypeRx, TypeReq
      <4> QED
        BY <1>1, <4>1, PartsHold, PartsKept, TypeParts, Zenon
    <3>1. CASE LearnServer
      <4>1. robinN = 0
        <5>1. Len(reqSrv) = 0
          BY <3>1, SMTT(60) DEF LearnServer
        <5>2. robinN \in Nat /\ (robinN = 0 \/ robinN < Len(reqSrv))
          BY Zenon DEF IInv, TypeOK
        <5> QED
          BY <5>1, <5>2
      <4>2. reqSrv' \in Seq(Servers \cup {NoAddr})
        BY <3>1, SMTT(60) DEF LearnServer
      <4>3. UNCHANGED <<Running, recent, connReq>>
        BY <3>1, Zenon DEF LearnServer
      <4> QED
        BY <1>1, <1>4, <3>0, <4>1, <4>2, <4>3, Zenon
    <3>2. CASE FillServer
      <4>1. robinN = 0
        <5>1. Len(reqSrv) = 1
          BY <3>2, SMTT(60) DEF FillServer
        <5>2. robinN \in Nat /\ (robinN = 0 \/ robinN < Len(reqSrv))
          BY Zenon DEF IInv, TypeOK
        <5> QED
          BY <5>1, <5>2
      <4>2. reqSrv' \in Seq(Servers \cup {NoAddr})
        BY <3>2, OrderAssumption, SMTT(60) DEF FillServer
      <4>3. UNCHANGED <<Running, recent, connReq>>
        BY <3>2, Zenon DEF FillServer
      <4> QED
        BY <1>1, <1>4, <3>0, <4>1, <4>2, <4>3, Zenon
    <3>3. CASE Stop \/ CloseReq \/ Elapse
      <4>1. /\ Running' \in BOOLEAN /\ recent' \in BOOLEAN /\ reqSrv' = reqSrv
            /\ connReq' \in Servers \cup {NoAddr, Nil}
        BY <3>3, ZenonT(60) DEF Stop, CloseReq, Elapse, IInv, TypeOK
      <4> QED
        <5>1. TypeRx' /\ TypeReq'
          BY <1>1, <1>4, <4>1, PartsHold, Zenon DEF TypeRx, TypeReq
        <5> QED
          BY <1>1, <5>1, PartsHold, PartsKept, TypeParts, Zenon
    <3>4. CASE \E s \in Sessions : LearnSession(s)
      <4>1. NoSession \notin Sessions
        BY OrderAssumption
      <4> QED
        BY <1>4, <3>4, <4>1, Zenon DEF LearnSession
    <3> QED
      BY <3>1, <3>2, <3>3, <3>4, SMTT(60) DEF Environment
  <2>2. NothingLost' /\ NoStall' /\ RequestsAnnounced'
    BY <1>1, <1>2, <1>4, ZenonT(60) DEF IInv, NothingLost, Received, NoStall, RequestsAnnounced,
       Contents, IsNil, Stream
  <2>3. Shape'
    BY <1>1, <1>2, <1>4, SMTT(60) DEF IInv, Shape
  <2> QED
    BY <1>2, <2>1, <2>2, <2>3, SMTT(60) DEF IInv
<1> QED
  BY <1>3, <1>4, Zenon DEF Environment, LearnServer, FillServer, Stop, CloseReq, Elapse

\* The initial state of NewClient satisfies the invariant.
LEMMA InitIInv == OrderInit => IInv
<1> SUFFICES ASSUME OrderInit PROVE IInv
  BY SMTT(60)
<1> USE DEF OrderInit
<1>1. TypeOK
  <2>1. /\ Srvs \in Seq(Servers \cup {NoAddr}) /\ First \in First .. End
        /\ 0 \in 0 .. End /\ 0 \in 0 .. Last /\ <<>> \in Seq(Messages)
        /\ DOMAIN <<>> = {}
    BY Bounds, OrderAssumption, SMTT(60)
  <2> QED
    BY <2>1, Zenon DEF TypeOK
<1>2. NothingLost
  <2>1. Stream(session, First, First) = <<>>
    BY StreamEmpty, Bounds, SMTT(60)
  <2>2. NextSeqNo = First
    BY DEF NextSeqNo
  <2>3. <<>> \o <<>> = <<>>
    OBVIOUS
  <2> QED
    BY <2>1, <2>2, <2>3, SMTT(60) DEF NothingLost, Received, Contents
<1>3. NoStall /\ DoneMeansAll /\ RequestsAnnounced
  BY SMTT(60) DEF NoStall, DoneMeansAll, RequestsAnnounced, IsNil
<1>4. Shape
  BY Bounds DEF Shape, NextSeqNo
<1> QED
  BY <1>1, <1>2, <1>3, <1>4, SMTT(60) DEF IInv

\* Every step keeps the invariant.
LEMMA NextIInv == IInv /\ [OrderNext]_orderVars => IInv'
<1> SUFFICES ASSUME IInv, [OrderNext]_orderVars PROVE IInv'
  OBVIOUS
<1>1. CASE Processor
  BY <1>1, ProcessorStep
<1>2. CASE Application
  BY <1>2, ApplicationStep, SMTT(60)
<1>3. CASE Environment
  BY <1>3, EnvironmentStep
<1>4. CASE session # NoSession /\ \E m \in Inputs(session) : DoMsgBuf(m)
  <2>1. session \in Sessions
    BY <1>4, SMTT(60) DEF IInv, TypeOK
  <2> QED
    BY <1>4, <2>1, DoMsgBufStep, SMTT(60)
<1>5. CASE UNCHANGED orderVars
  <2> USE <1>5 DEF orderVars, rxVars, ordVars, eosVars, reqVars, appVars
  <2>1. TypeOK' /\ NextSeqNo' = NextSeqNo
    <3>1. NextSeqNo' = NextSeqNo
      BY Zenon DEF NextSeqNo
    <3> QED
      BY <3>1, PartsHold, PartsKept, TypeParts, Zenon
  <2>2. NothingLost' /\ NoStall'
    BY <2>1, ZenonT(60) DEF IInv, NothingLost, Received, NoStall, Contents, IsNil, Stream
  <2>3. DoneMeansAll' /\ RequestsAnnounced' /\ Shape'
    BY <2>1, Zenon DEF IInv, DoneMeansAll, RequestsAnnounced, Shape
  <2> QED
    BY <2>1, <2>2, <2>3, Zenon DEF IInv
<1> QED
  BY <1>1, <1>2, <1>3, <1>4, <1>5, SMTT(60) DEF OrderNext

-------------------------------------------------------------------------------
(* Theorems *)

\* The invariant holds in every reachable state, for every choice of constants.
THEOREM Invariance == OrderSpec => []IInv
BY InitIInv, NextIInv, PTL DEF OrderSpec

\* The state of requestLoop and Read keeps its types; in particular c.robinN
\* stays within c.reqSrv, and every request asks for 1 to nakWindow messages.
THEOREM TypeCorrect == OrderSpec => []TypeOK
<1>1. IInv => TypeOK
  BY SMTT(60) DEF IInv
<1> QED
  BY <1>1, Invariance, PTL

\* Read returns the messages of one session in order, each exactly once, with
\* nothing lost on the way from doMsgBuf through c.ready.
THEOREM ReadInOrder == OrderSpec => []NothingLost
<1>1. IInv => NothingLost
  BY SMTT(60) DEF IInv
<1> QED
  BY <1>1, Invariance, PTL

\* doMsgBuf never leaves the next message behind in the cache.
THEOREM CacheDrained == OrderSpec => []NoStall
<1>1. IInv => NoStall
  BY DEF IInv
<1> QED
  BY <1>1, Invariance, PTL

\* c.bDone is set only when the whole session has been ordered.
THEOREM DoneIsDone == OrderSpec => []DoneMeansAll
<1>1. IInv => DoneMeansAll
  BY DEF IInv
<1> QED
  BY <1>1, Invariance, PTL

\* A request that is written was built by newReq, and so starts at c.seqNo.
LEMMA WrittenRequest ==
  ASSUME OrderNext, sent = Nil, sent' # Nil
  PROVE  sent'.seqNo = seqNo /\ session' = session /\ ppc \notin {"seqNo", "append"}
<1> USE DEF ordVars, eosVars, reqVars, notProc, rxVars, appVars, notApp, notEnv
<1>1. ASSUME NEW n, NEW max, NewReq(n, max) PROVE sent'.seqNo = seqNo
  <2>1. sent' = ReqFor(n)
    BY <1>1, Zenon DEF NewReq, Request
  <2> QED
    BY <2>1 DEF ReqFor
<1>2. CASE Processor
  <2>1. CASE PTop \/ PSeqNo \/ PAppend
    BY <2>1, Zenon DEF PTop, PSeqNo, PAppend
  <2>2. CASE PTick
    BY <1>1, <2>2, Zenon DEF PTick
  <2>3. CASE PEosStop
    BY <1>1, <2>3, Zenon DEF PEosStop
  <2>4. CASE PEosLate
    BY <1>1, <2>4, Zenon DEF PEosLate
  <2> QED
    BY <1>2, <2>1, <2>2, <2>3, <2>4, Zenon DEF Processor
<1>3. CASE Application \/ Environment
  BY <1>3, Zenon DEF Application, ATop, ATake, ACheck, Environment, LearnSession, LearnServer,
     FillServer, Stop, CloseReq, Elapse, Depart
<1>4. ASSUME NEW m, DoMsgBuf(m)
      PROVE  sent'.seqNo = seqNo /\ session' = session /\ ppc \notin {"seqNo", "append"}
  <2>1. CASE PHeartbeat(m)
    BY <1>1, <2>1, Zenon DEF PHeartbeat
  <2>2. CASE PEosMissing(m)
    BY <1>1, <2>2, Zenon DEF PEosMissing
  <2>3. CASE PAhead(m)
    BY <1>1, <2>3, Zenon DEF PAhead
  <2>4. CASE PGarbled(m) \/ PEosDone(m) \/ PEosPeek(m) \/ PRepeat(m) \/ PInOrder(m)
    BY <2>4, Zenon DEF PGarbled, PEosDone, PEosPeek, PRepeat, PInOrder
  <2> QED
    BY <1>4, <2>1, <2>2, <2>3, <2>4, Zenon DEF DoMsgBuf
<1> QED
  BY <1>2, <1>3, <1>4, Zenon DEF OrderNext

\* Every request, first or repeated, starts at the first message missing when
\* it is written, and stays within what was announced.
THEOREM RequestsSound == OrderSpec => RequestsMissing
<1> DEFINE Fits == /\ sent'.session = session
                   /\ Received = Stream(session, First, sent'.seqNo)
                   /\ IsNil(cache, sent'.seqNo)
                   /\ sent'.seqNo + sent'.msgCnt <= seqMax'
<1>1. ASSUME IInv, [OrderNext]_orderVars
      PROVE  [sent = Nil /\ sent' # Nil => Fits]_orderVars
  <2> SUFFICES ASSUME OrderNext, sent = Nil, sent' # Nil PROVE Fits
    BY <1>1, Zenon
  <2>1. sent'.seqNo = seqNo /\ session' = session /\ ppc \notin {"seqNo", "append"}
    BY WrittenRequest
  <2>2. NextSeqNo = sent'.seqNo
    BY <2>1 DEF NextSeqNo
  <2>3. Received = Stream(session, First, sent'.seqNo) /\ IsNil(cache, sent'.seqNo)
    BY <1>1, <2>2, Zenon DEF IInv, NothingLost, NoStall
  <2>4. IInv'
    BY <1>1, NextIInv
  <2>5. sent'.session = session' /\ sent'.seqNo + sent'.msgCnt <= seqMax'
    BY <2>4, Zenon DEF IInv, RequestsAnnounced
  <2> QED
    BY <2>1, <2>3, <2>5, Zenon
<1> QED
  BY <1>1, Invariance, PTL DEF OrderSpec, RequestsMissing

\* Apart from the owner's Stop, only the end of the session stops the client.
THEOREM StopsOnlyAtEnd == OrderSpec => StopsAtEnd
<1>1. ASSUME IInv, [OrderNext]_orderVars
      PROVE  [Running /\ ~Running' => Stop \/ seqNo = End]_orderVars
  <2> SUFFICES ASSUME Running, ~Running', ~Stop
               PROVE  seqNo = End
    BY SMTT(60)
  <2> USE DEF ordVars, eosVars, reqVars, notProc, rxVars, appVars
  <2>1. CASE Processor
    BY <1>1, <2>1, Zenon
       DEF Processor, PTop, PTick, PEosStop, PEosLate, PSeqNo, PAppend, IInv, Shape, ReadyNil
  <2>2. CASE Application
    BY <1>1, <2>2, Zenon DEF Application, ATop, ATake, ACheck, IInv, DoneMeansAll, ReadAll
  <2>3. CASE Environment
    BY <2>3, Zenon DEF Environment, LearnSession, LearnServer, FillServer, CloseReq, Elapse,
       Depart
  <2>4. CASE \E m \in Inputs(session) : DoMsgBuf(m)
    BY <2>4, Zenon DEF DoMsgBuf, PGarbled, PHeartbeat, PEosMissing, PEosDone, PEosPeek,
       PRepeat, PAhead, PInOrder, PopCache, ReadyNil
  <2>5. CASE UNCHANGED orderVars
    BY <2>5 DEF orderVars
  <2> QED
    BY <1>1, <2>1, <2>2, <2>3, <2>4, <2>5, SMTT(60) DEF OrderNext
<1> QED
  BY <1>1, Invariance, PTL DEF OrderSpec, StopsAtEnd

\* The stop on an EOS packet with c.ready nil leaves no message unread, even
\* when the load of c.ready takes effect before the store to c.bDone.
THEOREM EosStopSafe == OrderSpec => EosStopLosesNothing
<1>1. ASSUME IInv, [OrderNext]_orderVars
      PROVE  [(PEosStop \/ PEosLate) /\ Running /\ ~Running'
                => delivered \o Contents(ares) = Stream(session, First, End)]_orderVars
  <2> SUFFICES ASSUME PEosStop \/ PEosLate, Running, ~Running'
               PROVE  delivered \o Contents(ares) = Stream(session, First, End)
    BY SMTT(60)
  <2>1. /\ ready = Nil /\ res = <<>> /\ seqNo = End /\ NextSeqNo = End
    BY <1>1, Zenon DEF PEosStop, PEosLate, IInv, Shape, NextSeqNo, ReadyNil
  <2>2. delivered \o Contents(ares) \o <<>> \o <<>> = Stream(session, First, End)
    BY <1>1, <2>1, SMTT(60) DEF IInv, NothingLost, Received, Contents
  <2>3. delivered \o Contents(ares) \in Seq(Messages)
    BY <1>1 DEF IInv, TypeOK, Contents
  <2> QED
    BY <2>2, <2>3, ConcatEmptySeq, SMTT(60)
<1> QED
  BY <1>1, Invariance, PTL DEF OrderSpec, EosStopLosesNothing

\* c.seqNo, c.seqMax and what Read has returned only ever grow.
THEOREM OnlyForward == OrderSpec => Progress
<1> DEFINE Forward == /\ seqNo <= seqNo' /\ seqMax <= seqMax'
                      /\ Len(delivered) <= Len(delivered')
                      /\ SubSeq(delivered', 1, Len(delivered)) = delivered
<1>1. ASSUME IInv, [OrderNext]_orderVars
      PROVE  [Forward]_orderVars
  <2> SUFFICES ASSUME OrderNext PROVE Forward
    BY <1>1, Zenon
  <2> USE DEF ordVars, eosVars, reqVars, notProc, rxVars, appVars, notApp, notEnv
  <2>1. /\ seqNo \in Int /\ seqMax \in Int /\ seqEnd \in Int /\ End \in Int
        /\ delivered \in Seq(Messages)
    <3>1. delivered \in Seq(Messages)
      BY <1>1, PartsHold, Zenon DEF TypeApp
    <3> QED
      BY <1>1, <3>1, Bounds, NumTypes
  <2>2. SubSeq(delivered, 1, Len(delivered)) = delivered
    BY <2>1, SubSeqFull, Zenon
  <2>3. ASSUME UNCHANGED delivered, seqNo <= seqNo', seqMax <= seqMax' PROVE Forward
    BY <2>1, <2>2, <2>3
  <2>4. ASSUME NEW k \in Int, NEW max \in Int, max >= seqMax, NewReq(k, max)
        PROVE  seqMax <= seqMax'
    BY <2>1, <2>4 DEF NewReq
  <2>5. CASE Processor
    <3>1. CASE PTop \/ PAppend
      <4>1. UNCHANGED <<delivered, seqNo, seqMax>>
        BY <3>1, Zenon DEF PTop, PAppend
      <4> QED
        BY <2>1, <2>3, <4>1
    <3>2. CASE PTick
      <4>1. /\ UNCHANGED <<delivered, seqNo>>
            /\ UNCHANGED seqMax \/ NewReq(seqMax, seqMax)
        BY <3>2, Zenon DEF PTick
      <4>2. seqMax <= seqMax'
        BY <2>1, <2>4, <4>1
      <4> QED
        BY <2>1, <2>3, <4>1, <4>2
    <3>3. CASE PEosStop \/ PEosLate
      <4>1. eosSeq \in Int
        BY <1>1, NumTypes
      <4>2. UNCHANGED <<delivered, seqNo>> /\ NewReq(eosSeq, seqMax)
        BY <3>3, Zenon DEF PEosStop, PEosLate
      <4>3. seqMax <= seqMax'
        BY <2>1, <2>4, <4>1, <4>2
      <4> QED
        BY <2>1, <2>3, <4>2, <4>3
    <3>4. CASE PSeqNo
      <4>1. Len(res) \in Nat
        <5>1. res \in Seq(Messages)
          BY <1>1, PartsHold, Zenon DEF TypeProc
        <5> QED
          BY <5>1
      <4>2. /\ UNCHANGED delivered /\ seqNo' = seqNo + Len(res)
            /\ seqMax' = seqMax \/ (seqNo' >= seqMax /\ seqEnd > seqNo' /\ seqMax' = seqEnd)
        BY <3>4, Zenon DEF PSeqNo
      <4> QED
        BY <2>1, <2>3, <4>1, <4>2
    <3> QED
      BY <2>5, <3>1, <3>2, <3>3, <3>4 DEF Processor
  <2>6. CASE Application
    <3>1. CASE ATop \/ ATake
      <4>1. UNCHANGED <<delivered, seqNo, seqMax>>
        BY <3>1, Zenon DEF ATop, ATake
      <4> QED
        BY <2>1, <2>3, <4>1
    <3>2. CASE ACheck
      <4>1. Contents(ares) \in Seq(Messages)
        <5>1. ares \in Seq(Messages) \cup {Nil}
          BY <1>1, PartsHold, Zenon DEF TypeApp
        <5> QED
          BY <5>1 DEF Contents
      <4>2. /\ Len(delivered) <= Len(delivered \o Contents(ares))
            /\ SubSeq(delivered \o Contents(ares), 1, Len(delivered)) = delivered
        BY <2>1, <4>1
      <4> QED
        <5>1. UNCHANGED <<seqNo, seqMax>> /\ delivered' = delivered \o Contents(ares)
          BY <3>2, Zenon DEF ACheck
        <5> QED
          BY <2>1, <4>2, <5>1
    <3> QED
      BY <2>6, <3>1, <3>2 DEF Application
  <2>7. CASE Environment
    <3>1. UNCHANGED <<delivered, seqNo, seqMax>>
      BY <2>7, Zenon
         DEF Environment, LearnSession, LearnServer, FillServer, Stop, CloseReq, Elapse, Depart
    <3> QED
      BY <2>1, <2>3, <3>1
  <2>8. CASE session # NoSession /\ \E m \in Inputs(session) : DoMsgBuf(m)
    <3>1. PICK m \in Inputs(session) : DoMsgBuf(m)
      BY <2>8
    <3>2. session \in Sessions
      BY <1>1, <2>8 DEF IInv, TypeOK
    <3>3. CASE PGarbled(m) \/ PRepeat(m) \/ PEosDone(m) \/ PEosPeek(m) \/ PInOrder(m)
      <4>1. UNCHANGED <<delivered, seqNo, seqMax>>
        BY <3>3, Zenon DEF PGarbled, PRepeat, PEosDone, PEosPeek, PInOrder
      <4> QED
        BY <2>1, <2>3, <4>1
    <3>4. CASE PHeartbeat(m)
      <4>1. m.seqNo \in Int
        BY <3>2, <3>4, InputsShape, Bounds DEF PHeartbeat
      <4> QED
        BY <2>1, <2>3, <2>4, <3>4, <4>1 DEF PHeartbeat
    <3>5. CASE PEosMissing(m)
      <4>1. m.seqNo \in Int
        BY <2>1, <3>2, <3>5, InputsShape DEF PEosMissing
      <4>2. seqEnd' \in Int /\ (seqNo >= seqMax => seqEnd' > seqMax)
        BY <2>1, <3>5, <4>1 DEF PEosMissing, GotAll, EndAfter
      <4> QED
        BY <2>1, <2>3, <2>4, <3>5, <4>1, <4>2 DEF PEosMissing
    <3>6. CASE PAhead(m)
      <4>1. m.seqNo \in Int
        <5>1. m.seqNo \in 1 .. Last
          BY <3>2, <3>6, InputsShape, Zenon DEF PAhead
        <5> QED
          BY <5>1
      <4>2. StoreCacheRet(cache', m) \in {0, m.seqNo}
        BY Zenon DEF StoreCacheRet
      <4> QED
        <5>1. /\ UNCHANGED <<delivered, seqNo>>
              /\ UNCHANGED seqMax \/ NewReq(StoreCacheRet(cache', m), seqMax)
          BY <3>6, Zenon DEF PAhead
        <5>2. seqMax <= seqMax'
          BY <2>1, <2>4, <4>1, <4>2, <5>1
        <5> QED
          BY <2>1, <2>3, <5>1, <5>2
    <3> QED
      BY <3>1, <3>3, <3>4, <3>5, <3>6 DEF DoMsgBuf
  <2> QED
    BY <2>5, <2>6, <2>7, <2>8 DEF OrderNext
<1> QED
  BY <1>1, Invariance, PTL DEF OrderSpec, Progress

===============================================================================
