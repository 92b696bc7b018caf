---------------------------- MODULE MoldDataProofs ----------------------------
(***************************************************************************)
(* Proofs about the codec (MoldCodec), the frames (UdpFrame) and the       *)
(* layout of the rings (RingLayout).                                       *)
(***************************************************************************)
EXTENDS MoldCodec, UdpFrame, RingLayout, SequenceTheorems, TLAPS

-------------------------------------------------------------------------------
(* Frames *)

\* A packet that fits is captured with its own length, which is not padded,
\* and every length in its headers is right; one that does not fit has a
\* tp_len for which the kernel refuses it, even where the sum wraps.
LEMMA LengthsRight ==
  ASSUME NEW n \in Nat, HeadSize <= n, n <= MaxUDP
  PROVE  /\ n % Word = n /\ n # 0
         /\ (n + UDPHead) % Word = n + UDPHead
         /\ (n + IPHead + UDPHead) % Word = n + IPHead + UDPHead
         /\ n + AllHeads <= FrameRoom => (n + IPHead + UDPHead + EthHead) % Word = n + AllHeads
         /\ ~(n + AllHeads <= FrameRoom) =>
              LET tp == (n + IPHead + UDPHead + EthHead) % Word
              IN tp < EthHead \/ tp > FrameRoom
<1> USE DEF EthHead, IPHead, UDPHead, AllHeads
<1>1. /\ Word \in Nat \ {0} /\ FrameRoom \in Nat /\ HeadSize \in Nat \ {0} /\ MaxUDP \in Nat
      /\ FrameRoom < Word /\ MaxUDP + 28 < Word
  BY FrameAssumption
<1>2. ASSUME NEW k \in Nat, k < Word PROVE k % Word = k
  BY <1>1, <1>2
<1>3. n % Word = n /\ n # 0 /\ (n + 8) % Word = n + 8 /\ (n + 20 + 8) % Word = n + 28
  BY <1>1, <1>2
<1>4. CASE n + 42 < Word
  BY <1>1, <1>2, <1>3, <1>4
<1>5. CASE ~(n + 42 < Word)
  <2>1. (n + 42) % Word = n + 42 - Word
    BY <1>1, <1>5
  <2> QED
    BY <1>1, <1>3, <1>5, <2>1
<1> QED
  BY <1>4, <1>5

\* What Listen is handed of a packet that is sent.
LEMMA ReceivedFrame ==
  ASSUME NEW n \in Nat, HeadSize <= n, n <= MaxUDP, NEW p \in Ports, NEW g \in Groups
  PROVE  Received(SendFrame(n, p, g), p, g)
           = IF n + AllHeads <= FrameRoom THEN {[len |-> n, data |-> n]} ELSE {}
<1> DEFINE f == SendFrame(n, p, g)
           tp == (n + IPHead + UDPHead + EthHead) % Word
<1>1. /\ {Word, FrameRoom, MinWire, HeadSize, MaxUDP} \subseteq Nat \ {0}
      /\ MinWire <= AllHeads + HeadSize /\ AllHeads + HeadSize <= FrameRoom
      /\ p \in Nat /\ p % Word = p
  BY FrameAssumption DEF EthHead, IPHead, UDPHead, AllHeads
<1>2. /\ f.dst = JoinedHWAddr(g) /\ f.tpLen = tp
      /\ f.head.etherType = "IPv4" /\ f.head.protocol = "UDP" /\ f.head.dstPort = p
      /\ f.head.ipLen = n + IPHead + UDPHead /\ f.head.udpLen = n + UDPHead
      /\ f.data = IF n < FrameRoom - AllHeads THEN n ELSE FrameRoom - AllHeads
  BY <1>1, LengthsRight
     DEF SendFrame, CopyFx, BuildRawUDP, GetMulticastHWAddr, JoinedHWAddr
<1> HIDE DEF f
<1>3. CASE n + AllHeads <= FrameRoom
  <2> USE DEF EthHead, IPHead, UDPHead, AllHeads
  <2>1. tp = n + AllHeads
    BY <1>3, LengthsRight
  <2>2. CapturedLens(f) = {n + AllHeads}
    BY <1>1, <1>2, <2>1 DEF CapturedLens
  <2>3. Sendable(f) /\ PassesBPF(f, p) /\ Accepts(f, n + AllHeads, p)
    BY <1>1, <1>2, <1>3, <2>1 DEF Sendable, PassesBPF, Accepts
  <2>4. PayloadLens(f, n + AllHeads) = {n}
    BY <1>2 DEF PayloadLens
  <2>5. f.data = n
    BY <1>1, <1>2, <1>3
  <2>6. {l \in CapturedLens(f) : /\ Sendable(f) /\ f.dst = JoinedHWAddr(g)
                                 /\ PassesBPF(f, p) /\ Accepts(f, l, p)} = {n + AllHeads}
    BY <1>2, <2>2, <2>3
  <2>7. UNION {PayloadLens(f, ln) : ln \in {n + AllHeads}} = {n}
    BY <2>4
  <2>8. Received(f, p, g)
          = {[len |-> k, data |-> IF k < f.data THEN k ELSE f.data] : k \in {n}}
    BY <2>6, <2>7, Zenon DEF Received
  <2>9. Received(f, p, g) = {[len |-> n, data |-> n]}
    BY <2>5, <2>8
  <2> QED
    BY <1>3, <2>9 DEF f
<1>4. CASE ~(n + AllHeads <= FrameRoom)
  <2>1. ~Sendable(f)
    <3>1. tp \in Nat /\ (tp < EthHead \/ tp > FrameRoom)
      BY <1>1, <1>4, LengthsRight DEF EthHead, IPHead, UDPHead
    <3> QED
      BY <1>1, <1>2, <3>1 DEF Sendable, EthHead
  <2>2. {l \in CapturedLens(f) : /\ Sendable(f) /\ f.dst = JoinedHWAddr(g)
                                 /\ PassesBPF(f, p) /\ Accepts(f, l, p)} = {}
    BY <2>1
  <2>3. Received(f, p, g) = {}
    BY <2>2 DEF Received
  <2> QED
    BY <1>4, <2>3 DEF f
<1> QED
  BY <1>3, <1>4

\* Send and Listen agree on every packet: for all frame sizes, header sizes,
\* ports and groups the code can be built for, and every length.
THEOREM SenderAndListenerAgree == FrameSpec => []FramesAgree
<1>1. FrameInit => pktLen \in Nat
  BY DEF FrameInit
<1>2. pktLen \in Nat /\ [FrameNext]_pktLen => (pktLen \in Nat)'
  BY FrameAssumption DEF FrameNext
<1>3. pktLen \in Nat => FramesAgree
  BY ReceivedFrame DEF FramesAgree
<1> QED
  BY <1>1, <1>2, <1>3, PTL DEF FrameSpec

-------------------------------------------------------------------------------
(* Rings *)

\* Of two powers of two, the larger is a multiple of the smaller.
LEMMA PowersDivide ==
  ASSUME NEW a \in Powers, NEW b \in Powers, a <= b, b < UInt16
  PROVE  \E q \in Powers : b = a * q
<1>1. a \in {1, 2, 4, 8, 16, 32, 64, 128, 256, 512, 1024, 2048, 4096, 8192, 16384, 32768}
  BY DEF Powers, UInt16
<1>2. b \in {1, 2, 4, 8, 16, 32, 64, 128, 256, 512, 1024, 2048, 4096, 8192, 16384, 32768}
  BY DEF Powers, UInt16
<1> QED
  BY <1>1, <1>2 DEF Powers

\* NewZSocket asks for frames of exactly the size it is given.
LEMMA FrameSizeKept ==
  ASSUME NEW m \in Nat, FrameSizeOK(m)
  PROVE  /\ m \in Powers /\ MinFrame <= m /\ m < UInt16
         /\ FrameSize(m) = m
<1>1. /\ MinFrame \in Powers /\ PageSize \in Powers /\ MaxFrame \in Nat /\ MaxFrame < UInt16
      /\ MinFrame \in Nat \ {0} /\ PageSize \in Nat \ {0} /\ UInt16 \in Nat
  BY LayoutAssumption DEF Powers, UInt16
<1>2. m \in Powers /\ MinFrame <= m /\ m < UInt16
  BY <1>1 DEF FrameSizeOK, PowerOfTwo
<1>3. CASE m < PageSize
  <2> DEFINE sizes == {MinFrame * q : q \in Powers}
             least(s) == s >= m /\ \A r \in sizes : r >= m => s <= r
  <2>1. m \in sizes
    BY <1>1, <1>2, PowersDivide
  <2>2. sizes \subseteq Nat
    BY <1>1 DEF Powers
  <2> HIDE DEF sizes
  <2>3. m \in sizes /\ least(m)
    BY <2>1, <2>2
  <2>4. \A s \in sizes : least(s) => s = m
    BY <2>1, <2>2
  <2>5. (CHOOSE s \in sizes : least(s)) = m
    <3>1. \E s \in sizes : least(s)
      BY <2>3, Zenon
    <3> HIDE DEF least
    <3>2. (CHOOSE s \in sizes : least(s)) \in sizes /\ least(CHOOSE s \in sizes : least(s))
      BY <3>1, Zenon
    <3> QED
      BY <2>4, <3>2, Zenon
  <2>6. LargestFrame(m) = m
    BY <2>5, Zenon DEF LargestFrame, sizes
  <2> QED
    BY <1>2, <1>3, <2>6 DEF FrameSize
<1>4. CASE ~(m < PageSize)
  <2>1. PICK q \in Powers : m = PageSize * q
    BY <1>1, <1>2, <1>4, PowersDivide
  <2>2. q \in Nat
    BY DEF Powers
  <2>3. m \div PageSize = q
    BY <1>1, <2>1, <2>2
  <2> QED
    BY <1>1, <1>2, <1>4, <2>1, <2>2, <2>3 DEF FrameSize
<1> QED
  BY <1>3, <1>4

\* A number is its quotient times the divisor, and a rest below it.
LEMMA Divided ==
  ASSUME NEW a \in Nat, NEW b \in Nat \ {0}
  PROVE  /\ a \div b \in Nat /\ a % b \in 0 .. b - 1
         /\ a = b * (a \div b) + (a % b)
<1>1. a \div b \in Int /\ a % b \in 0 .. b - 1
  OBVIOUS
<1>2. a = b * (a \div b) + (a % b)
  OBVIOUS
<1>3. a \div b >= 0
  OBVIOUS
<1> QED
  BY <1>1, <1>2, <1>3

\* A multiple is divided without a rest.
LEMMA Quotient ==
  ASSUME NEW a \in Nat, NEW b \in Nat \ {0}
  PROVE  (b * a) \div b = a
OBVIOUS

\* The frames NewZSocket cuts out of the mapping are the kernel's.
LEMMA Layout ==
  ASSUME NEW m \in Nat, NEW t \in Nat, NEW v \in {"V1", "V3"}, Returned(m, t, v)
  PROVE  LET req == Req(m, t, v)
         IN /\ req.blockNum >= 1 /\ req.frameNum \in 1 .. t
            /\ ZFrameSize(req) = m /\ TxFrameSize(req) \in 1 .. m
            /\ \A i \in 0 .. req.frameNum - 1 :
                 /\ FrLoc(req, i) + ZFrameSize(req) <= MapSize(req)
                 /\ FrLoc(req, i) = KernelLoc(req, i)
<1> DEFINE req == Req(m, t, v)
           per == IF v = "V3" THEN FramesPerBlock ELSE 8
           bn == t \div per
<1>1. /\ m \in Nat \ {0} /\ m < UInt16 /\ FrameSize(m) = m
      /\ TxStart \in 1 .. m - 1 /\ UInt16 \in Nat \ {0}
  <2>1. FrameSizeOK(m)
    BY DEF Returned
  <2>2. m \in Powers /\ MinFrame <= m /\ m < UInt16 /\ FrameSize(m) = m
    BY <2>1, FrameSizeKept
  <2> QED
    BY <2>2, LayoutAssumption DEF Powers, UInt16
<1>2. per \in Nat \ {0}
  BY LayoutAssumption
<1> HIDE DEF per
<1>3. bn \in Nat /\ per * bn <= t
  <2>1. t = per * bn + (t % per) /\ bn \in Nat /\ t % per \in 0 .. per - 1
    BY <1>2, Divided
  <2> HIDE DEF bn
  <2>2. per * bn \in Nat
    BY <1>2, <2>1
  <2> QED
    BY <2>1, <2>2
<1> HIDE DEF bn
<1>4. (m * per) \div m = per
  BY <1>1, <1>2, Quotient
<1>5. req = [frameSize |-> m, blockSize |-> m * per, blockNum |-> bn, frameNum |-> per * bn]
  BY <1>1, <1>4 DEF Req, per, bn
<1> HIDE DEF req
<1>6. /\ req.frameSize = m /\ req.blockSize = m * per /\ req.blockNum = bn
      /\ req.frameNum = per * bn
  BY <1>5
<1>7. m * per \in Nat /\ per * bn \in Nat /\ (m * per) * bn = m * (per * bn)
  BY <1>1, <1>2, <1>3
<1>8. bn # 0
  <2>1. (m * per) * bn > 0
    BY <1>6 DEF Returned, MapSize, req
  <2> QED
    BY <1>7, <2>1
<1>9. per * bn >= 1
  BY <1>2, <1>3, <1>8
<1>10. ZFrameSize(req) = m
  BY <1>1, <1>6 DEF ZFrameSize
<1>11. TxFrameSize(req) \in 1 .. m
  BY <1>1, <1>10 DEF TxFrameSize
<1>12. ASSUME NEW i \in 0 .. req.frameNum - 1
       PROVE  /\ FrLoc(req, i) + ZFrameSize(req) <= MapSize(req)
              /\ FrLoc(req, i) = KernelLoc(req, i)
  <2>1. i \in Nat /\ i + 1 <= per * bn
    BY <1>6, <1>7, <1>12
  <2>2. i * m + m = m * (i + 1) /\ m * (i + 1) <= m * (per * bn)
    BY <1>1, <1>7, <2>1
  <2>3. FrLoc(req, i) = i * m /\ MapSize(req) = m * (per * bn)
    BY <1>6, <1>7, <1>10 DEF FrLoc, MapSize
  <2>4. i = per * (i \div per) + (i % per) /\ i \div per \in Nat /\ i % per \in Nat
    <3>1. i = per * (i \div per) + (i % per) /\ i \div per \in Nat /\ i % per \in 0 .. per - 1
      BY <1>2, <2>1, Divided, Zenon
    <3> QED
      BY <1>2, <3>1
  <2>5. (i \div per) * (m * per) + (i % per) * m = i * m
    <3>1. \A a \in Nat, b \in Nat : a * (m * per) + b * m = (per * a + b) * m
      BY <1>1, <1>2
    <3>2. (i \div per) * (m * per) + (i % per) * m = (per * (i \div per) + (i % per)) * m
      BY <2>4, <3>1, Zenon
    <3> QED
      BY <2>4, <3>2, Zenon
  <2>6. KernelLoc(req, i) = (i \div per) * (m * per) + (i % per) * m
    BY <1>4, <1>6 DEF KernelLoc
  <2> QED
    BY <1>10, <2>2, <2>3, <2>5, <2>6
<1> QED
  BY <1>3, <1>6, <1>7, <1>8, <1>9, <1>10, <1>11, <1>12 DEF req

\* Every socket NewZSocket returns has its frames inside the mapping and where
\* the kernel has them, for every page size and every number of frames.
THEOREM RingsFit == RingSpec => []FramesInRing
<1> DEFINE ArgsOK == args \in [m : Nat, t : Nat, v : {"V1", "V3"}]
<1>1. RingInit => ArgsOK
  BY DEF RingInit
<1>2. ArgsOK /\ [RingNext]_args => ArgsOK'
  BY LayoutAssumption DEF RingNext
<1>3. ArgsOK => FramesInRing
  <2> SUFFICES ASSUME ArgsOK, Returned(args.m, args.t, args.v)
               PROVE  FramesInRing
    BY DEF FramesInRing
  <2>1. args.m \in Nat /\ args.t \in Nat /\ args.v \in {"V1", "V3"}
    OBVIOUS
  <2> QED
    BY <2>1, Layout DEF FramesInRing
<1> QED
  BY <1>1, <1>2, <1>3, PTL DEF RingSpec

-------------------------------------------------------------------------------
(* Headers *)

\* DecodeHead's loop stops where the name ends: behind it are blanks only, and
\* its own last byte is none, unless it has one byte, which is not looked at.
LEMMA NameEnds ==
  ASSUME NEW s \in Seq(Byte), Representable(s), Len(s) # 1
  PROVE  NameLen(EncodeHead(Header(s)).session) = Len(s)
<1> DEFINE b == EncodeHead(Header(s)).session
           used == {i \in 2 .. SessionLen : b[i] # Space}
           last(i) == \A j \in used : j <= i
<1>1. /\ SessionLen \in Nat \ {0} /\ Len(s) \in Nat /\ Len(s) <= SessionLen
      /\ s # <<>> => s[Len(s)] # Space
  BY CodecAssumption DEF Representable
<1>2. b = [i \in 1 .. SessionLen |-> IF i <= Len(s) THEN s[i] ELSE Space]
  BY DEF EncodeHead, Header
<1> HIDE DEF b
<1>3. \A i \in used : i \in 2 .. Len(s)
  BY <1>1, <1>2
<1>4. CASE s = <<>>
  <2>1. used = {}
    BY <1>3, <1>4
  <2> QED
    BY <1>4, <2>1 DEF NameLen, b
<1>5. CASE s # <<>>
  <2>1. Len(s) \in 2 .. SessionLen
    BY <1>1, <1>5, EmptySeq
  <2>2. Len(s) \in used
    BY <1>1, <1>2, <1>5, <2>1
  <2>3. used \subseteq Nat
    BY <1>1
  <2>4. last(Len(s)) /\ \A i \in used : last(i) => i = Len(s)
    BY <1>1, <1>3, <2>2, <2>3
  <2> HIDE DEF used
  <2>5. (CHOOSE i \in used : last(i)) = Len(s)
    <3> HIDE DEF last
    <3>1. (CHOOSE i \in used : last(i)) \in used /\ last(CHOOSE i \in used : last(i))
      BY <2>2, <2>4, Zenon
    <3> QED
      BY <2>4, <3>1, Zenon
  <2> QED
    BY <2>2, <2>5 DEF NameLen, used, b
<1> QED
  BY <1>4, <1>5

\* A run of b that has the elements of s is s.
LEMMA CutOut ==
  ASSUME NEW S, NEW b \in Seq(S), NEW s \in Seq(S), NEW p \in Nat, p + Len(s) <= Len(b),
         \A q \in 1 .. Len(s) : b[p + q] = s[q]
  PROVE  SubSeq(b, p + 1, p + Len(s)) = s
<1> DEFINE c == SubSeq(b, p + 1, p + Len(s))
<1>1. Len(s) \in Nat /\ Len(b) \in Nat
  OBVIOUS
<1>2. \A i \in p + 1 .. p + Len(s) : b[i] \in S
  BY <1>1
<1>3. /\ c \in Seq(S) /\ Len(c) = Len(s)
      /\ \A i \in 1 .. Len(s) : c[i] = b[p + i]
  BY <1>1, <1>2, SubSeqProperties
<1> HIDE DEF c
<1>4. \A i \in 1 .. Len(c) : c[i] = s[i]
  BY <1>1, <1>3
<1>5. c = s
  BY <1>3, <1>4, SeqEqual, Zenon
<1> QED
  BY <1>5 DEF c

\* The header of such a name comes back as it was.
LEMMA HeadBack ==
  ASSUME NEW s \in Seq(Byte), Representable(s), Len(s) # 1
  PROVE  DecodeHead(EncodeHead(Header(s))) = Header(s)
<1> DEFINE b == EncodeHead(Header(s)).session
<1>1. b = [i \in 1 .. SessionLen |-> IF i <= Len(s) THEN s[i] ELSE Space]
  BY DEF EncodeHead, Header
<1>2. /\ SessionLen \in Nat \ {0} /\ Len(s) \in Nat /\ Len(s) <= SessionLen
      /\ Space \in Byte /\ s \in [1 .. Len(s) -> Byte]
  BY CodecAssumption DEF Representable
<1> HIDE DEF b
<1>3. b \in Seq(Byte) /\ Len(b) = SessionLen
  BY <1>1, <1>2
<1>4. SubSeq(b, 1, Len(s)) = s
  <2>1. \A q \in 1 .. Len(s) : b[0 + q] = s[q]
    BY <1>1, <1>2
  <2>2. SubSeq(b, 0 + 1, 0 + Len(s)) = s
    BY <1>2, <1>3, <2>1, CutOut
  <2> QED
    BY <1>2, <2>2
<1> QED
  BY <1>4, NameEnds DEF DecodeHead, EncodeHead, Header, b

\* DecodeHead undoes EncodeHead for every name of every length but one.
THEOREM HeadersSurvive == CodecSpec => []HeadRoundTrip
<1>1. CodecInit => name \in Seq(Byte)
  BY DEF CodecInit
<1>2. name \in Seq(Byte) /\ [CodecNext]_codecVars => (name \in Seq(Byte))'
  <2> SUFFICES ASSUME name \in Seq(Byte), [CodecNext]_codecVars
               PROVE  name' \in Seq(Byte)
    OBVIOUS
  <2>1. ASSUME NEW s \in Names, GiveName(s) PROVE name' \in Seq(Byte)
    BY <2>1, CodecAssumption DEF GiveName
  <2>2. CASE UNCHANGED name
    BY <2>2
  <2> QED
    BY <2>1, <2>2, Zenon DEF CodecNext, MarshalCall, MarshalMsg, MarshalReturn, UnmarshalCall,
       UnmarshalMsg, UnmarshalShort, UnmarshalReturn, codecVars
<1>3. name \in Seq(Byte) => HeadRoundTrip
  BY HeadBack DEF HeadRoundTrip
<1> QED
  BY <1>1, <1>2, <1>3, PTL DEF CodecSpec

-------------------------------------------------------------------------------
(* Blocks: the invariants.  Types, and what each phase of a call leaves alone. *)

CodecTypes ==
  /\ pc \in {"idle", "named", "marshal", "sent", "unmarshal", "error", "done"}
  /\ buff \in Seq(Byte) /\ msgs \in Seq(Seq(Byte)) /\ size \in Nat /\ own \in BOOLEAN
  /\ msgCnt \in Nat /\ msgCnt <= Len(msgs)
  /\ cnt \in Nat /\ got \in Nat /\ got <= cnt /\ off \in Nat /\ off <= Len(buff)
  /\ ret \in [1 .. cnt -> [at : Nat, len : Nat]]

Phases ==
  /\ pc \in {"idle", "named", "marshal", "sent"} => cnt = 0 /\ got = 0 /\ off = 0
  /\ pc = "idle" => buff = <<>> /\ msgCnt = 0 /\ ~own

\* The messages found so far lie one behind the other, up to off.
Found ==
  /\ EndOf(got) = off
  /\ \A j \in 1 .. got : /\ ret[j].at = EndOf(j - 1) + 2
                         /\ BlockAt(EndOf(j - 1), ret[j].len)
  /\ \A j \in got + 1 .. cnt : ret[j] = NoData
  /\ pc = "done" /\ cnt > 0 => off = Len(buff)

\* There is one way to cut buff, and the loop follows it.
OnlyCut ==
  pc = "unmarshal" =>
    \A k \in 0 .. cnt : \A e \in [0 .. k -> 0 .. Len(buff)] :
      Cuts(e, k) => got <= k /\ e[got] = off

\* The encoded message m lies at position p of b.
MsgAt(b, p, m) ==
  p + 2 + Len(m) <= Len(b) /\ \A q \in 1 .. 2 + Len(m) : b[p + q] = Encoded(m)[q]

\* What Marshal wrote: message j from e[j - 1] to e[j].
Wrote(e) ==
  /\ e[0] = 0 /\ e[msgCnt] = Len(buff)
  /\ \A j \in 1 .. msgCnt : /\ e[j] = e[j - 1] + 2 + Len(msgs[j])
                            /\ MsgAt(buff, e[j - 1], msgs[j])

\* What Unmarshal has read of it.
ReadBack(e) ==
  /\ pc # "error" /\ cnt = msgCnt /\ off = e[got]
  /\ \A j \in 1 .. got : ret[j] = [at |-> e[j - 1] + 2, len |-> Len(msgs[j])]
  /\ pc = "done" => got = cnt

Small == \A j \in 1 .. msgCnt : Len(msgs[j]) < Base * Base

Filled ==
  own => /\ Len(buff) <= size
         /\ pc # "marshal" /\ msgCnt < Len(msgs) => ~Fits(Len(msgs[msgCnt + 1]))

RoundTrip ==
  own => \E e \in [0 .. msgCnt -> 0 .. Len(buff)] :
           /\ Wrote(e)
           /\ Small /\ pc \in {"unmarshal", "error", "done"} => ReadBack(e)

-------------------------------------------------------------------------------
(* Blocks: the operators *)

\* A length below 2^16 survives its two bytes.
LEMMA LengthBack ==
  ASSUME NEW l \in 0 .. Base * Base - 1
  PROVE  /\ PutUint16(l) \in Seq(Byte) /\ Len(PutUint16(l)) = 2
         /\ Uint16(PutUint16(l)) = l
<1> DEFINE h == l \div Base
           r == l % Base
<1>1. Base \in Nat \ {0, 1}
  BY CodecAssumption
<1>2. l \in Nat /\ l < Base * Base
  BY <1>1
<1>3. h \in Nat /\ r \in 0 .. Base - 1 /\ l = Base * h + r
  BY <1>1, <1>2, Divided
<1>4. PutUint16(l) = <<h % Base, r>>
  BY DEF PutUint16
<1> HIDE DEF h, r
<1>5. h < Base
  <2> SUFFICES ASSUME h >= Base PROVE FALSE
    BY <1>1, <1>3
  <2>1. Base * h >= Base * Base
    BY <1>1, <1>3
  <2> QED
    BY <1>1, <1>2, <1>3, <2>1
<1>6. h % Base = h
  BY <1>1, <1>3, <1>5
<1>7. PutUint16(l) = <<h, r>> /\ h \in Byte /\ r \in Byte
  BY <1>1, <1>3, <1>4, <1>5, <1>6 DEF Byte
<1>8. h * Base + r = l
  BY <1>1, <1>3
<1> QED
  BY <1>7, <1>8 DEF Uint16

\* Two bytes are a length below 2^16, and survive it.
LEMMA BytesBack ==
  ASSUME NEW x \in Byte, NEW y \in Byte
  PROVE  /\ Uint16(<<x, y>>) \in 0 .. Base * Base - 1
         /\ PutUint16(Uint16(<<x, y>>)) = <<x, y>>
<1> DEFINE l == x * Base + y
<1>1. Base \in Nat \ {0, 1} /\ x \in 0 .. Base - 1 /\ y \in 0 .. Base - 1
  BY CodecAssumption DEF Byte
<1>2. Uint16(<<x, y>>) = l
  BY DEF Uint16
<1>3. l \in Nat /\ l <= Base * Base - 1
  <2>1. x * Base <= (Base - 1) * Base
    BY <1>1
  <2>2. (Base - 1) * Base = Base * Base - Base
    BY <1>1
  <2>3. x * Base \in Nat /\ Base * Base \in Nat
    BY <1>1
  <2> QED
    BY <1>1, <2>1, <2>2, <2>3
<1>4. l \div Base = x /\ l % Base = y
  <2>1. l = Base * (l \div Base) + (l % Base) /\ l % Base \in 0 .. Base - 1 /\ l \div Base \in Nat
    BY <1>1, <1>3, Divided
  <2> DEFINE h == l \div Base
             r == l % Base
  <2>2. Base * (x - h) = r - y
    BY <1>1, <2>1
  <2> HIDE DEF h, r
  <2>3. h \in Nat /\ r \in 0 .. Base - 1
    BY <2>1 DEF h, r
  <2>4. ~(x - h >= 1)
    <3> SUFFICES ASSUME x - h >= 1 PROVE FALSE
      OBVIOUS
    <3>1. Base * (x - h) >= Base
      BY <1>1, <2>3
    <3> QED
      BY <1>1, <2>2, <2>3, <3>1
  <2>5. ~(x - h <= -1)
    <3> SUFFICES ASSUME x - h <= -1 PROVE FALSE
      OBVIOUS
    <3>1. Base * (x - h) <= -Base
      BY <1>1, <2>3
    <3> QED
      BY <1>1, <2>2, <2>3, <3>1
  <2>6. x = h
    BY <1>1, <2>3, <2>4, <2>5
  <2>7. r = y
    BY <1>1, <2>2, <2>3, <2>6
  <2> QED
    BY <2>6, <2>7 DEF h, r
<1>5. x % Base = x
  BY <1>1
<1> HIDE DEF l
<1>6. PutUint16(l) = <<x, y>>
  BY <1>4, <1>5 DEF PutUint16
<1> QED
  BY <1>1, <1>2, <1>3, <1>6

\* The two bytes at position p.
LEMMA TwoBytes ==
  ASSUME NEW b \in Seq(Byte), NEW p \in Nat, p + 2 <= Len(b)
  PROVE  /\ b[p + 1] \in Byte /\ b[p + 2] \in Byte
         /\ SubSeq(b, p + 1, p + 2) = <<b[p + 1], b[p + 2]>>
<1> DEFINE s == <<b[p + 1], b[p + 2]>>
<1>1. b[p + 1] \in Byte /\ b[p + 2] \in Byte
  OBVIOUS
<1>2. s \in Seq(Byte) /\ Len(s) = 2
  BY <1>1
<1>3. \A q \in 1 .. 2 : b[p + q] = s[q]
  OBVIOUS
<1> HIDE DEF s
<1>4. SubSeq(b, p + 1, p + Len(s)) = s
  BY <1>2, <1>3, CutOut
<1> QED
  BY <1>1, <1>2, <1>4 DEF s

\* A message as Marshal writes it: two bytes and its own.
LEMMA EncodedMsg ==
  ASSUME NEW m \in Seq(Byte)
  PROVE  /\ Encoded(m) \in Seq(Byte) /\ Len(Encoded(m)) = 2 + Len(m)
         /\ \A q \in 1 .. 2 : Encoded(m)[q] = PutUint16(Len(m) % (Base * Base))[q]
         /\ \A q \in 1 .. Len(m) : Encoded(m)[2 + q] = m[q]
<1> DEFINE l == Len(m) % (Base * Base)
           h == PutUint16(l)
<1>1. Base \in Nat \ {0} /\ Base * Base \in Nat \ {0} /\ Len(m) \in Nat
  BY CodecAssumption
<1>2. l \in 0 .. Base * Base - 1
  BY <1>1
<1> HIDE DEF l
<1>3. h \in Seq(Byte) /\ Len(h) = 2
  BY <1>2, LengthBack
<1> HIDE DEF h
<1>4. /\ h \o m \in Seq(Byte) /\ Len(h \o m) = 2 + Len(m)
      /\ \A i \in 1 .. 2 + Len(m) : (h \o m)[i] = IF i <= 2 THEN h[i] ELSE m[i - 2]
  <2>1. /\ h \o m \in Seq(Byte) /\ Len(h \o m) = Len(h) + Len(m)
        /\ \A i \in 1 .. Len(h) + Len(m) :
             (h \o m)[i] = IF i <= Len(h) THEN h[i] ELSE m[i - Len(h)]
    BY <1>3, ConcatProperties, Zenon
  <2> QED
    BY <1>3, <2>1, Zenon
<1>5. Encoded(m) = h \o m
  BY DEF Encoded, h, l
<1> HIDE DEF Encoded
<1>6. \A q \in 1 .. 2 : Encoded(m)[q] = h[q]
  BY <1>1, <1>4, <1>5
<1>7. \A q \in 1 .. Len(m) : Encoded(m)[2 + q] = m[q]
  BY <1>1, <1>4, <1>5
<1> QED
  BY <1>4, <1>5, <1>6, <1>7 DEF h, l

\* Appending a message puts it behind the others, and leaves these.
LEMMA Appended ==
  ASSUME NEW b \in Seq(Byte), NEW m \in Seq(Byte)
  PROVE  /\ b \o Encoded(m) \in Seq(Byte)
         /\ Len(b \o Encoded(m)) = Len(b) + 2 + Len(m)
         /\ MsgAt(b \o Encoded(m), Len(b), m)
         /\ \A p \in Nat, x \in Seq(Byte) : MsgAt(b, p, x) => MsgAt(b \o Encoded(m), p, x)
<1> DEFINE c == b \o Encoded(m)
<1>1. Encoded(m) \in Seq(Byte) /\ Len(Encoded(m)) = 2 + Len(m) /\ Len(m) \in Nat /\ Len(b) \in Nat
  BY EncodedMsg
<1>2. /\ c \in Seq(Byte) /\ Len(c) = Len(b) + Len(Encoded(m))
      /\ \A i \in 1 .. Len(b) + Len(Encoded(m)) :
           c[i] = IF i <= Len(b) THEN b[i] ELSE Encoded(m)[i - Len(b)]
  <2>1. Encoded(m) \in Seq(Byte)
    BY <1>1
  <2>2. c = b \o Encoded(m)
    OBVIOUS
  <2> HIDE DEF c
  <2> QED
    BY <2>1, <2>2, ConcatProperties, Zenon
<1> HIDE DEF c
<1>3. Len(c) = Len(b) + 2 + Len(m)
  BY <1>1, <1>2
<1>4. \A q \in 1 .. 2 + Len(m) : c[Len(b) + q] = Encoded(m)[q]
  BY <1>1, <1>2
<1>5. ASSUME NEW p \in Nat, NEW x \in Seq(Byte), MsgAt(b, p, x) PROVE MsgAt(c, p, x)
  <2>1. Len(x) \in Nat /\ p + 2 + Len(x) <= Len(b)
    BY <1>5 DEF MsgAt
  <2>2. \A q \in 1 .. 2 + Len(x) : b[p + q] = Encoded(x)[q]
    BY <1>5 DEF MsgAt
  <2>3. \A q \in 1 .. 2 + Len(x) : c[p + q] = b[p + q]
    BY <1>1, <1>2, <2>1
  <2> QED
    BY <1>1, <1>3, <2>1, <2>2, <2>3 DEF MsgAt
<1> QED
  BY <1>1, <1>2, <1>3, <1>4, <1>5 DEF MsgAt, c

\* A message of less than 2^16 bytes can be read where it lies.
LEMMA MsgThere ==
  ASSUME NEW b \in Seq(Byte), NEW p \in Nat, NEW m \in Seq(Byte), Len(m) < Base * Base,
         MsgAt(b, p, m)
  PROVE  /\ p + 2 + Len(m) <= Len(b)
         /\ Uint16(SubSeq(b, p + 1, p + 2)) = Len(m)
         /\ SubSeq(b, p + 2 + 1, p + 2 + Len(m)) = m
<1> DEFINE h == PutUint16(Len(m))
<1>1. /\ Base * Base \in Nat /\ Len(m) \in Nat /\ p + 2 + Len(m) <= Len(b) /\ Len(b) \in Nat
      /\ \A q \in 1 .. 2 + Len(m) : b[p + q] = Encoded(m)[q]
  BY CodecAssumption DEF MsgAt
<1>2. Len(m) % (Base * Base) = Len(m)
  <2> DEFINE w == Base * Base
  <2>1. w \in Nat /\ Len(m) \in Nat /\ Len(m) < w
    BY <1>1
  <2> HIDE DEF w
  <2>2. Len(m) % w = Len(m)
    BY <2>1
  <2> QED
    BY <2>2 DEF w
<1>3. /\ h \in Seq(Byte) /\ Len(h) = 2 /\ Uint16(h) = Len(m)
  BY <1>1, LengthBack
<1>4. /\ \A q \in 1 .. 2 : Encoded(m)[q] = h[q]
      /\ \A q \in 1 .. Len(m) : Encoded(m)[2 + q] = m[q]
  BY <1>2, EncodedMsg
<1> HIDE DEF h
<1>5. \A q \in 1 .. 2 : b[p + q] = h[q]
  BY <1>1, <1>4
<1>6. SubSeq(b, p + 1, p + 2) = h
  <2>1. p + Len(h) <= Len(b) /\ \A q \in 1 .. Len(h) : b[p + q] = h[q]
    BY <1>1, <1>3, <1>5
  <2>2. SubSeq(b, p + 1, p + Len(h)) = h
    BY <1>3, <2>1, CutOut
  <2> QED
    BY <1>3, <2>2
<1>7. \A q \in 1 .. Len(m) : b[p + 2 + q] = m[q]
  <2> SUFFICES ASSUME NEW q \in 1 .. Len(m) PROVE b[p + 2 + q] = m[q]
    OBVIOUS
  <2>1. 2 + q \in 1 .. 2 + Len(m) /\ p + (2 + q) = p + 2 + q
    <3>1. Len(m) \in Nat
      BY <1>1
    <3> QED
      BY <3>1
  <2>2. b[p + (2 + q)] = Encoded(m)[2 + q]
    BY <1>1, <2>1
  <2> QED
    BY <1>4, <2>1, <2>2
<1>8. SubSeq(b, p + 2 + 1, p + 2 + Len(m)) = m
  <2>1. p + 2 \in Nat
    OBVIOUS
  <2> QED
    BY <1>1, <1>7, <2>1, CutOut
<1> QED
  BY <1>1, <1>3, <1>6, <1>8

\* A message of l bytes at position p is what Unmarshal reads there.
LEMMA BlockRead ==
  ASSUME NEW p \in Nat, NEW l \in Int, BlockAt(p, l)
  PROVE  /\ l \in Nat /\ p + 2 + l <= Len(buff)
         /\ Uint16(SubSeq(buff, p + 1, p + 2)) = l
<1>1. Base * Base \in Nat
  BY CodecAssumption
<1>2. l \in 0 .. Base * Base - 1 /\ p + 2 + l <= Len(buff) /\ SubSeq(buff, p + 1, p + 2) = PutUint16(l)
  BY DEF BlockAt
<1>3. Uint16(PutUint16(l)) = l
  BY <1>2, LengthBack
<1>4. l \in Nat
  BY <1>1, <1>2
<1> QED
  BY <1>2, <1>3, <1>4, Zenon

\* What a round of Unmarshal's loop takes is an encoded message.
LEMMA RoundTakes ==
  ASSUME CodecTypes, ~Short
  PROVE  /\ MsgEnd \in Nat /\ off + 2 <= MsgEnd /\ MsgEnd <= Len(buff)
         /\ BlockAt(off, MsgEnd - off - 2)
<1> DEFINE l == Uint16(SubSeq(buff, off + 1, off + 2))
<1>1. buff \in Seq(Byte) /\ off \in Nat
  BY Zenon DEF CodecTypes
<1>2. Len(buff) \in Nat /\ Base * Base \in Nat
  BY <1>1, CodecAssumption
<1>3. off + 2 <= Len(buff) /\ ~(MsgEnd > Len(buff))
  BY Zenon DEF Short
<1>4. /\ l \in 0 .. Base * Base - 1
      /\ SubSeq(buff, off + 1, off + 2) = PutUint16(l)
  BY <1>1, <1>3, TwoBytes, BytesBack
<1>5. MsgEnd = off + 2 + l
  BY DEF MsgEnd
<1> HIDE DEF l
<1>6. /\ MsgEnd \in Nat /\ off + 2 <= MsgEnd /\ MsgEnd <= Len(buff)
      /\ MsgEnd - off - 2 = l /\ off + 2 + l <= Len(buff)
  BY <1>1, <1>2, <1>3, <1>4, <1>5
<1> QED
  BY <1>4, <1>6 DEF BlockAt

-------------------------------------------------------------------------------
(* Blocks: the invariants hold *)

\* A step that changes neither the data nor the counters.
LEMMA TypesStay ==
  ASSUME CodecTypes, UNCHANGED <<buff, marshalVars, unmarshalVars>>,
         pc' \in {"named", "sent", "error", "done"}
  PROVE  CodecTypes'
  BY Zenon DEF CodecTypes, marshalVars, unmarshalVars

\* Both calls get and leave values of the right types.
LEMMA CallTypes ==
  ASSUME CodecTypes, Phases, NEW b \in Seq(Byte), NEW c \in Nat, UnmarshalCall(b, c)
  PROVE  CodecTypes' /\ Phases'
<1>1. /\ buff' = b /\ cnt' = c /\ off' = 0 /\ got' = 0 /\ ret' = [j \in 1 .. c |-> NoData]
      /\ pc' \in {"done", "unmarshal"} /\ UNCHANGED <<msgs, size, msgCnt, own>>
  BY DEF UnmarshalCall, marshalVars
<1>2. /\ msgs \in Seq(Seq(Byte)) /\ size \in Nat /\ own \in BOOLEAN
      /\ msgCnt \in Nat /\ msgCnt <= Len(msgs)
  BY Zenon DEF CodecTypes
<1>3. 0 \in Nat /\ 0 <= c /\ 0 <= Len(b)
  OBVIOUS
<1>4. ret' \in [1 .. c -> [at : Nat, len : Nat]]
  BY <1>1 DEF NoData
<1>5. pc' \in {"idle", "named", "marshal", "sent", "unmarshal", "error", "done"}
  BY <1>1
<1>6. CodecTypes'
  BY <1>1, <1>2, <1>3, <1>4, <1>5, Zenon DEF CodecTypes
<1>7. Phases'
  BY <1>1 DEF Phases
<1> QED
  BY <1>6, <1>7

\* The types, and what each phase leaves alone.
THEOREM CodecTyped == CodecSpec => [](CodecTypes /\ Phases)
<1>1. CodecInit => CodecTypes /\ Phases
  <2> SUFFICES ASSUME CodecInit PROVE CodecTypes /\ Phases
    OBVIOUS
  <2>1. ret \in [1 .. cnt -> [at : Nat, len : Nat]]
    <3>1. ret = <<>> /\ 1 .. cnt = {}
      BY DEF CodecInit
    <3> QED
      BY <3>1
  <2>2. /\ buff \in Seq(Byte) /\ Len(buff) = 0 /\ msgs \in Seq(Seq(Byte)) /\ Len(msgs) = 0
        /\ size \in Nat /\ msgCnt \in Nat /\ msgCnt <= 0
        /\ cnt \in Nat /\ got \in Nat /\ got <= cnt /\ off \in Nat /\ off <= 0
    BY DEF CodecInit
  <2>3. /\ pc \in {"idle", "named", "marshal", "sent", "unmarshal", "error", "done"}
        /\ own \in BOOLEAN
    BY DEF CodecInit
  <2>4. CodecTypes
    BY <2>1, <2>2, <2>3, Zenon DEF CodecTypes
  <2> QED
    BY <2>4 DEF CodecInit, Phases
<1>2. CodecTypes /\ Phases /\ [CodecNext]_codecVars => (CodecTypes /\ Phases)'
  <2> SUFFICES ASSUME CodecTypes, Phases, [CodecNext]_codecVars
               PROVE  CodecTypes' /\ Phases'
    BY Zenon
  <2>0. /\ buff \in Seq(Byte) /\ msgs \in Seq(Seq(Byte)) /\ size \in Nat
        /\ msgCnt \in Nat /\ msgCnt <= Len(msgs)
        /\ cnt \in Nat /\ got \in Nat /\ got <= cnt /\ off \in Nat /\ off <= Len(buff)
        /\ ret \in [1 .. cnt -> [at : Nat, len : Nat]]
    BY Zenon DEF CodecTypes
  <2>1. ASSUME NEW s \in Names, GiveName(s) PROVE CodecTypes' /\ Phases'
    <3>1. pc = "idle" /\ pc' = "named" /\ UNCHANGED <<buff, marshalVars, unmarshalVars>>
      BY <2>1, Zenon DEF GiveName
    <3>2. CodecTypes'
      BY <3>1, TypesStay
    <3> QED
      BY <3>1, <3>2 DEF Phases, unmarshalVars
  <2>2. ASSUME NEW n \in Sizes, NEW ms \in MsgLists, MarshalCall(n, ms)
        PROVE  CodecTypes' /\ Phases'
    <3>1. /\ pc = "idle" /\ pc' = "marshal" /\ msgs' = ms /\ size' = n /\ own' = TRUE
          /\ UNCHANGED <<buff, msgCnt, cnt, off, got, ret>>
      BY <2>2, Zenon DEF MarshalCall, unmarshalVars
    <3>2. n \in Nat /\ ms \in Seq(Seq(Byte))
      BY CodecAssumption
    <3>3. msgCnt = 0 /\ cnt = 0 /\ got = 0 /\ off = 0
      BY <3>1 DEF Phases
    <3>4. msgCnt' \in Nat /\ msgCnt' <= Len(ms)
      BY <3>1, <3>2, <3>3
    <3>5. pc' \in {"idle", "named", "marshal", "sent", "unmarshal", "error", "done"} /\ own' \in BOOLEAN
      BY <3>1
    <3>6. CodecTypes'
      BY <2>0, <3>1, <3>2, <3>4, <3>5, Zenon DEF CodecTypes
    <3>7. Phases'
      BY <3>1, <3>3 DEF Phases
    <3> QED
      BY <3>6, <3>7
  <2>3. CASE MarshalMsg
    <3> DEFINE m == msgs[msgCnt + 1]
    <3>1. /\ pc = "marshal" /\ msgCnt < Len(msgs) /\ buff' = buff \o Encoded(m)
          /\ msgCnt' = msgCnt + 1 /\ UNCHANGED <<pc, msgs, size, own, cnt, off, got, ret>>
      BY <2>3, Zenon DEF MarshalMsg, unmarshalVars
    <3>2. m \in Seq(Byte)
      BY <2>0, <3>1
    <3> HIDE DEF m
    <3>3. buff' \in Seq(Byte) /\ Len(buff') = Len(buff) + 2 + Len(m)
      BY <2>0, <3>1, <3>2, Appended
    <3>4. off <= Len(buff') /\ msgCnt' \in Nat /\ msgCnt' <= Len(msgs)
      BY <2>0, <3>1, <3>2, <3>3
    <3>5. CodecTypes'
      BY <2>0, <3>1, <3>3, <3>4, Zenon DEF CodecTypes
    <3>6. Phases'
      BY <3>1 DEF Phases
    <3> QED
      BY <3>5, <3>6
  <2>4. CASE MarshalReturn
    <3>1. pc = "marshal" /\ pc' = "sent" /\ UNCHANGED <<buff, marshalVars, unmarshalVars>>
      BY <2>4, Zenon DEF MarshalReturn
    <3>2. CodecTypes'
      BY <3>1, TypesStay
    <3> QED
      BY <3>1, <3>2 DEF Phases, unmarshalVars
  <2>5. CASE pc = "sent" /\ UnmarshalCall(buff, msgCnt)
    BY <2>0, <2>5, CallTypes
  <2>6. ASSUME NEW b \in Payloads, NEW c \in Counts, UnmarshalCall(b, c)
        PROVE  CodecTypes' /\ Phases'
    BY <2>6, CallTypes, CodecAssumption
  <2>7. CASE UnmarshalMsg
    <3>1. /\ pc = "unmarshal" /\ got # cnt /\ ~Short /\ off' = MsgEnd /\ got' = got + 1
          /\ ret' = [ret EXCEPT ![got + 1] = [at |-> off + 2, len |-> MsgEnd - off - 2]]
          /\ UNCHANGED <<pc, buff, msgs, size, msgCnt, own, cnt>>
      BY <2>7, Zenon DEF UnmarshalMsg, More, marshalVars
    <3>2. MsgEnd \in Nat /\ off + 2 <= MsgEnd /\ MsgEnd <= Len(buff)
      BY <3>1, RoundTakes
    <3>3. off' \in Nat /\ off' <= Len(buff) /\ got' \in Nat /\ got' <= cnt
      BY <2>0, <3>1, <3>2
    <3>4. [at |-> off + 2, len |-> MsgEnd - off - 2] \in [at : Nat, len : Nat]
      BY <2>0, <3>2
    <3>5. ret' \in [1 .. cnt -> [at : Nat, len : Nat]]
      BY <2>0, <3>1, <3>4
    <3>6. CodecTypes'
      BY <3>1, <3>3, <3>5, Zenon DEF CodecTypes
    <3>7. Phases'
      BY <3>1 DEF Phases
    <3> QED
      BY <3>6, <3>7
  <2>8. CASE UnmarshalShort \/ UnmarshalReturn
    <3>1. pc' \in {"error", "done"} /\ UNCHANGED <<buff, marshalVars, unmarshalVars>>
      BY <2>8 DEF UnmarshalShort, UnmarshalReturn
    <3>2. CodecTypes'
      BY <3>1, TypesStay
    <3> QED
      BY <3>1, <3>2 DEF Phases
  <2>9. CASE UNCHANGED codecVars
    BY <2>9, Zenon DEF CodecTypes, Phases, codecVars, marshalVars, unmarshalVars
  <2> QED
    BY <2>1, <2>2, <2>3, <2>4, <2>5, <2>6, <2>7, <2>8, <2>9, Zenon DEF CodecNext
<1> QED
  BY <1>1, <1>2, PTL DEF CodecSpec

\* A round of Unmarshal's loop puts the message behind those it has found.
LEMMA RoundFinds ==
  ASSUME CodecTypes, Found, UnmarshalMsg
  PROVE  Found'
<1> DEFINE E(j) == IF j = 0 THEN 0 ELSE ret'[j].at + ret'[j].len
<1>1. /\ pc = "unmarshal" /\ got # cnt /\ ~Short /\ off' = MsgEnd /\ got' = got + 1
      /\ ret' = [ret EXCEPT ![got + 1] = [at |-> off + 2, len |-> MsgEnd - off - 2]]
      /\ pc' = pc /\ buff' = buff /\ cnt' = cnt
  BY Zenon DEF UnmarshalMsg, More, marshalVars
<1>2. /\ cnt \in Nat /\ got \in Nat /\ got <= cnt /\ off \in Nat
      /\ ret \in [1 .. cnt -> [at : Nat, len : Nat]]
  BY Zenon DEF CodecTypes
<1>3. MsgEnd \in Nat /\ BlockAt(off, MsgEnd - off - 2)
  BY <1>1, RoundTakes
<1>4. got + 1 \in 1 .. cnt
  BY <1>1, <1>2
<1>5. /\ ret'[got + 1] = [at |-> off + 2, len |-> MsgEnd - off - 2]
      /\ \A j \in 1 .. cnt : j # got + 1 => ret'[j] = ret[j]
  BY <1>1, <1>2, <1>4
<1>6. ASSUME NEW j \in 0 .. got PROVE E(j) = EndOf(j)
  <2>1. CASE j = 0
    BY <2>1 DEF EndOf
  <2>2. CASE j # 0
    <3>1. j \in 1 .. cnt /\ j # got + 1
      BY <1>2, <2>2
    <3>2. ret'[j] = ret[j]
      BY <1>5, <3>1
    <3> QED
      BY <2>2, <3>2, Zenon DEF EndOf
  <2> QED
    BY <2>1, <2>2
<1>7. E(got + 1) = MsgEnd
  BY <1>2, <1>3, <1>5
<1> HIDE DEF E
<1>8. ASSUME NEW j \in 1 .. got + 1
      PROVE  ret'[j].at = E(j - 1) + 2 /\ BlockAt(E(j - 1), ret'[j].len)
  <2>1. CASE j = got + 1
    <3>1. E(j - 1) = off
      BY <1>2, <1>6, <2>1 DEF Found
    <3>2. ret'[j].at = off + 2 /\ ret'[j].len = MsgEnd - off - 2
      BY <1>5, <2>1
    <3> QED
      BY <1>3, <3>1, <3>2
  <2>2. CASE j # got + 1
    <3>1. j \in 1 .. got /\ j - 1 \in 0 .. got /\ j \in 1 .. cnt
      BY <1>2, <2>2
    <3>2. ret'[j] = ret[j] /\ E(j - 1) = EndOf(j - 1)
      BY <1>5, <1>6, <2>2, <3>1
    <3> QED
      BY <3>1, <3>2 DEF Found
  <2> QED
    BY <2>1, <2>2
<1>9. ASSUME NEW j \in got + 2 .. cnt PROVE ret'[j] = NoData
  <2>1. j \in 1 .. cnt /\ j # got + 1 /\ j \in got + 1 .. cnt
    BY <1>2
  <2> QED
    BY <1>5, <2>1 DEF Found
<1>10. E(got') = off'
  BY <1>1, <1>7
<1>11. \A j \in 1 .. got' : ret'[j].at = E(j - 1) + 2 /\ BlockAt(E(j - 1), ret'[j].len)
  BY <1>1, <1>8
<1>12. \A j \in got' + 1 .. cnt' : ret'[j] = NoData
  <2>1. got' + 1 = got + 2
    BY <1>1, <1>2
  <2> QED
    BY <1>1, <1>9, <2>1
<1>13. pc' # "done"
  BY <1>1
<1> QED
  BY <1>1, <1>10, <1>11, <1>12, <1>13 DEF Found, BlockAt, EndOf, NoData, E

\* Unmarshal accepts only a sequence of encoded messages, whatever it is given.
THEOREM OnlyBlocks == CodecSpec => []AcceptsOnlyBlocks
<1>1. CodecInit => Found
  BY DEF CodecInit, Found, EndOf
<1>2. CodecTypes /\ Phases /\ Found /\ [CodecNext]_codecVars => Found'
  <2> SUFFICES ASSUME CodecTypes, Phases, Found, [CodecNext]_codecVars
               PROVE  Found'
    BY Zenon
  <2>1. ASSUME pc \in {"idle", "marshal"}, pc' # "done", UNCHANGED unmarshalVars
        PROVE  Found'
    <3>1. cnt = 0 /\ got = 0 /\ off = 0 /\ UNCHANGED <<cnt, got, off>>
      BY <2>1 DEF Phases, unmarshalVars
    <3> QED
      BY <2>1, <3>1 DEF Found, EndOf
  <2>2. CASE \E s \in Names : GiveName(s)
    BY <2>1, <2>2 DEF GiveName
  <2>3. CASE \E n \in Sizes, ms \in MsgLists : MarshalCall(n, ms)
    BY <2>1, <2>3 DEF MarshalCall
  <2>4. CASE MarshalMsg \/ MarshalReturn
    BY <2>1, <2>4 DEF MarshalMsg, MarshalReturn
  <2>5. ASSUME NEW b, NEW c \in Nat, UnmarshalCall(b, c) PROVE Found'
    <3>1. /\ cnt' = c /\ off' = 0 /\ got' = 0 /\ ret' = [j \in 1 .. c |-> NoData]
          /\ pc' = "done" => c = 0
      BY <2>5 DEF UnmarshalCall
    <3>2. \A j \in 1 .. c : ret'[j] = NoData
      BY <3>1
    <3>3. (EndOf(got) = off)' /\ 1 .. got' = {} /\ got' + 1 = 1 /\ ~(c = 0 /\ c > 0)
      BY <3>1 DEF EndOf
    <3>4. (\A j \in got + 1 .. cnt : ret[j] = NoData)'
      BY <3>1, <3>2, <3>3, Zenon DEF NoData
    <3> QED
      BY <3>1, <3>3, <3>4, Zenon DEF Found
  <2>6. CASE pc = "sent" /\ UnmarshalCall(buff, msgCnt)
    BY <2>5, <2>6 DEF CodecTypes
  <2>7. CASE \E b \in Payloads, c \in Counts : UnmarshalCall(b, c)
    BY <2>5, <2>7, CodecAssumption
  <2>8. CASE UnmarshalMsg
    BY <2>8, RoundFinds
  <2>9. CASE UnmarshalShort
    <3>1. pc' = "error" /\ UNCHANGED <<buff, cnt, off, got, ret>>
      BY <2>9 DEF UnmarshalShort, unmarshalVars
    <3> QED
      BY <3>1 DEF Found, EndOf, BlockAt
  <2>10. CASE UnmarshalReturn
    <3>1. /\ pc' = "done" => off = Len(buff)
          /\ UNCHANGED <<buff, cnt, off, got, ret>>
      BY <2>10 DEF UnmarshalReturn, unmarshalVars, Trailing
    <3> QED
      BY <3>1 DEF Found, EndOf, BlockAt
  <2>11. CASE UNCHANGED codecVars
    BY <2>11 DEF Found, EndOf, BlockAt, codecVars, unmarshalVars
  <2> QED
    BY <2>2, <2>3, <2>4, <2>6, <2>7, <2>8, <2>9, <2>10, <2>11, Zenon DEF CodecNext
<1>3. CodecTypes /\ Found => AcceptsOnlyBlocks
  <2> SUFFICES ASSUME CodecTypes, Found, pc = "done", cnt > 0 PROVE AcceptsOnlyBlocks
    BY Zenon DEF AcceptsOnlyBlocks
  <2>1. got \in 0 .. cnt
    BY DEF CodecTypes
  <2>2. /\ \A j \in 1 .. got : /\ ret[j].at = EndOf(j - 1) + 2
                               /\ BlockAt(EndOf(j - 1), ret[j].len)
        /\ EndOf(got) = Len(buff) /\ \A j \in got + 1 .. cnt : ret[j] = NoData
    BY DEF Found
  <2> QED
    BY <2>1, <2>2, Zenon DEF AcceptsOnlyBlocks
<1> QED
  BY <1>1, <1>2, <1>3, CodecTyped, PTL DEF CodecSpec

\* While buff has a cut, the next message of the cut is the one the loop reads.
LEMMA NextOfCut ==
  ASSUME CodecTypes, OnlyCut, pc = "unmarshal", off < Len(buff),
         NEW k \in 0 .. cnt, NEW e \in [0 .. k -> 0 .. Len(buff)], Cuts(e, k)
  PROVE  got < k /\ ~Short /\ MsgEnd = e[got + 1]
<1> DEFINE l == e[got + 1] - e[got] - 2
<1>1. /\ got \in Nat /\ off \in Nat /\ buff \in Seq(Byte) /\ cnt \in Nat
  BY Zenon DEF CodecTypes
<1>2. got <= k /\ e[got] = off /\ e[k] = Len(buff) /\ k \in Nat /\ Len(buff) \in Nat
  <2>1. got <= k /\ e[got] = off
    BY Zenon DEF OnlyCut
  <2>2. e[k] = Len(buff)
    BY Zenon DEF Cuts
  <2> QED
    BY <1>1, <2>1, <2>2
<1>3. got < k
  BY <1>1, <1>2
<1>4. got + 1 \in 1 .. k /\ (got + 1) - 1 = got
  BY <1>1, <1>2, <1>3
<1>5. BlockAt(e[(got + 1) - 1], e[got + 1] - e[(got + 1) - 1] - 2)
  BY <1>4 DEF Cuts
<1>6. BlockAt(off, l) /\ l = e[got + 1] - off - 2 /\ e[got + 1] \in Nat
  BY <1>2, <1>4, <1>5
<1> HIDE DEF l
<1>7. l \in Nat /\ off + 2 + l <= Len(buff) /\ Uint16(SubSeq(buff, off + 1, off + 2)) = l
  <2>1. l \in Int
    BY <1>1, <1>6
  <2> QED
    BY <1>1, <1>6, <2>1, BlockRead
<1>8. MsgEnd = off + 2 + l
  BY <1>7 DEF MsgEnd
<1>9. MsgEnd = e[got + 1] /\ off + 2 <= Len(buff)
  <2> DEFINE x == e[got + 1]
  <2>1. x \in Nat /\ l = x - off - 2
    BY <1>6
  <2> HIDE DEF x
  <2>2. MsgEnd = x /\ off + 2 <= Len(buff)
    BY <1>1, <1>2, <1>7, <1>8, <2>1
  <2> QED
    BY <2>2 DEF x
<1>10. ~(MsgEnd > Len(buff))
  BY <1>1, <1>2, <1>7, <1>8
<1> QED
  BY <1>3, <1>9, <1>10, Zenon DEF Short

\* Unmarshal follows the only cut of the payload, and fails only without one.
THEOREM NoBlocksRefused == CodecSpec => []RefusesNoBlocks
<1> DEFINE Inv == OnlyCut /\ RefusesNoBlocks
<1>1. CodecInit => Inv
  BY DEF CodecInit, OnlyCut, RefusesNoBlocks
<1>2. CodecTypes /\ Inv /\ [CodecNext]_codecVars => Inv'
  <2> SUFFICES ASSUME CodecTypes, OnlyCut, RefusesNoBlocks, [CodecNext]_codecVars
               PROVE  OnlyCut' /\ RefusesNoBlocks'
    BY Zenon
  <2>0. /\ got \in Nat /\ off \in Nat /\ cnt \in Nat /\ got <= cnt /\ off <= Len(buff)
        /\ buff \in Seq(Byte)
    BY Zenon DEF CodecTypes
  <2>1. ASSUME pc' \notin {"unmarshal", "error"} PROVE OnlyCut' /\ RefusesNoBlocks'
    BY <2>1 DEF OnlyCut, RefusesNoBlocks
  <2>2. CASE \E s \in Names : GiveName(s)
    BY <2>1, <2>2 DEF GiveName
  <2>3. CASE \E n \in Sizes, ms \in MsgLists : MarshalCall(n, ms)
    BY <2>1, <2>3 DEF MarshalCall
  <2>4. CASE MarshalMsg \/ MarshalReturn
    BY <2>1, <2>4 DEF MarshalMsg, MarshalReturn
  <2>5. ASSUME NEW b, NEW c \in Nat, UnmarshalCall(b, c) PROVE OnlyCut' /\ RefusesNoBlocks'
    <3>1. off' = 0 /\ got' = 0 /\ pc' # "error" /\ cnt' = c
      BY <2>5 DEF UnmarshalCall
    <3>2. RefusesNoBlocks'
      BY <3>1 DEF RefusesNoBlocks
    <3> QED
      BY <3>1, <3>2 DEF OnlyCut, Cuts
  <2>6. CASE pc = "sent" /\ UnmarshalCall(buff, msgCnt)
    BY <2>5, <2>6 DEF CodecTypes
  <2>7. CASE \E b \in Payloads, c \in Counts : UnmarshalCall(b, c)
    BY <2>5, <2>7, CodecAssumption
  <2>8. CASE UnmarshalMsg
    <3>1. /\ pc = "unmarshal" /\ off < Len(buff) /\ off' = MsgEnd /\ got' = got + 1
          /\ pc' = pc /\ buff' = buff /\ cnt' = cnt
      BY <2>8, Zenon DEF UnmarshalMsg, More
    <3>2. ASSUME NEW k \in 0 .. cnt, NEW e \in [0 .. k -> 0 .. Len(buff)], Cuts(e, k)
          PROVE  got + 1 <= k /\ e[got + 1] = MsgEnd
      <4>1. got < k /\ MsgEnd = e[got + 1]
        BY <3>1, <3>2, NextOfCut
      <4> QED
        BY <2>0, <4>1
    <3>3. \A k, e : Cuts(e, k)' = Cuts(e, k)
      BY <3>1, Zenon DEF Cuts, BlockAt
    <3>4. OnlyCut'
      BY <3>1, <3>2, <3>3, Zenon DEF OnlyCut
    <3> QED
      BY <3>1, <3>4 DEF RefusesNoBlocks
  <2>9. CASE UnmarshalShort
    <3>1. /\ pc = "unmarshal" /\ off < Len(buff) /\ Short /\ pc' = "error"
          /\ buff' = buff /\ cnt' = cnt
      BY <2>9, Zenon DEF UnmarshalShort, More, unmarshalVars
    <3>2. \A k \in 0 .. cnt : \A e \in [0 .. k -> 0 .. Len(buff)] : ~Cuts(e, k)
      BY <3>1, NextOfCut
    <3> QED
      BY <3>1, <3>2 DEF OnlyCut, RefusesNoBlocks, Cuts, BlockAt
  <2>10. CASE UnmarshalReturn
    <3>1. /\ pc = "unmarshal" /\ ~(off < Len(buff) /\ got # cnt)
          /\ pc' = IF off # Len(buff) THEN "error" ELSE "done"
          /\ buff' = buff /\ cnt' = cnt
      BY <2>10, Zenon DEF UnmarshalReturn, More, Trailing, unmarshalVars
    <3>2. CASE off = Len(buff)
      BY <2>1, <3>1, <3>2
    <3>3. CASE off # Len(buff)
      <4>1. got = cnt
        BY <2>0, <3>1, <3>3
      <4>2. ASSUME NEW k \in 0 .. cnt, NEW e \in [0 .. k -> 0 .. Len(buff)] PROVE ~Cuts(e, k)
        <5>1. Cuts(e, k) => got <= k /\ e[got] = off
          BY <3>1, <4>2 DEF OnlyCut
        <5>2. got <= k => k = got
          BY <2>0, <4>1
        <5> QED
          BY <3>3, <5>1, <5>2 DEF Cuts
      <4> QED
        BY <3>1, <3>3, <4>2 DEF OnlyCut, RefusesNoBlocks, Cuts, BlockAt
    <3> QED
      BY <3>2, <3>3
  <2>11. CASE UNCHANGED codecVars
    BY <2>11 DEF OnlyCut, RefusesNoBlocks, Cuts, BlockAt, codecVars, unmarshalVars
  <2> QED
    BY <2>2, <2>3, <2>4, <2>6, <2>7, <2>8, <2>9, <2>10, <2>11, Zenon DEF CodecNext
<1> QED
  BY <1>1, <1>2, CodecTyped, PTL DEF CodecSpec

\* A round of Marshal's loop adds one message to those that lie in the buffer.
LEMMA WriteNext ==
  ASSUME CodecTypes, MarshalMsg, NEW e \in [0 .. msgCnt -> 0 .. Len(buff)], Wrote(e)
  PROVE  \E f \in [0 .. msgCnt' -> 0 .. Len(buff')] : Wrote(f)'
<1> DEFINE m == msgs[msgCnt + 1]
           z == Len(buff')
           f == [j \in 0 .. msgCnt + 1 |-> IF j <= msgCnt THEN e[j] ELSE z]
<1>1. /\ msgCnt < Len(msgs) /\ buff' = buff \o Encoded(m) /\ msgCnt' = msgCnt + 1 /\ msgs' = msgs
  BY Zenon DEF MarshalMsg
<1>2. buff \in Seq(Byte) /\ msgs \in Seq(Seq(Byte)) /\ msgCnt \in Nat
  BY Zenon DEF CodecTypes
<1>3. m \in Seq(Byte) /\ Len(m) \in Nat /\ Len(buff) \in Nat
  BY <1>1, <1>2
<1>4. /\ z = Len(buff) + 2 + Len(m) /\ MsgAt(buff', Len(buff), m)
      /\ \A p \in Nat, x \in Seq(Byte) : MsgAt(buff, p, x) => MsgAt(buff', p, x)
  <2> HIDE DEF m
  <2> QED
    BY <1>1, <1>2, <1>3, Appended
<1> HIDE DEF m, z
<1>5. z \in Nat /\ Len(buff) <= z
  BY <1>3, <1>4
<1>6. /\ f \in [0 .. msgCnt + 1 -> 0 .. z]
      /\ f[msgCnt + 1] = z /\ \A j \in 0 .. msgCnt : f[j] = e[j]
  BY <1>2, <1>3, <1>5
<1> HIDE DEF f
<1>7. e[0] = 0 /\ e[msgCnt] = Len(buff)
  BY DEF Wrote
<1>8. f[0] = 0 /\ f[msgCnt] = Len(buff)
  BY <1>2, <1>6, <1>7
<1>9. ASSUME NEW j \in 1 .. msgCnt + 1
      PROVE  f[j] = f[j - 1] + 2 + Len(msgs[j]) /\ MsgAt(buff', f[j - 1], msgs[j])
  <2>1. CASE j = msgCnt + 1
    <3>1. j - 1 = msgCnt /\ msgs[j] = m
      BY <1>2, <2>1 DEF m
    <3> QED
      BY <1>4, <1>6, <1>8, <2>1, <3>1, Zenon
  <2>2. CASE j # msgCnt + 1
    <3>1. j \in 1 .. msgCnt /\ j \in 0 .. msgCnt /\ j - 1 \in 0 .. msgCnt /\ j \in 1 .. Len(msgs)
      BY <1>1, <1>2, <2>2
    <3>2. e[j] = e[j - 1] + 2 + Len(msgs[j]) /\ MsgAt(buff, e[j - 1], msgs[j])
      BY <3>1, Zenon DEF Wrote
    <3>3. f[j] = e[j] /\ f[j - 1] = e[j - 1] /\ e[j - 1] \in Nat /\ msgs[j] \in Seq(Byte)
      BY <1>2, <1>3, <1>6, <3>1
    <3> QED
      BY <1>4, <3>2, <3>3, Zenon
  <2> QED
    BY <2>1, <2>2
<1>10. f \in [0 .. msgCnt' -> 0 .. Len(buff')]
  BY <1>1, <1>6 DEF z
<1>11. f[msgCnt'] = Len(buff') /\ \A j \in 1 .. msgCnt' : /\ f[j] = f[j - 1] + 2 + Len(msgs'[j])
                                                         /\ MsgAt(buff', f[j - 1], msgs'[j])
  BY <1>1, <1>6, <1>9, Zenon DEF z
<1>12. PICK g \in [0 .. msgCnt' -> 0 .. Len(buff')] : g = f
  BY <1>10, Zenon
<1>13. Wrote(g)'
  <2>1. \A b, p, x : MsgAt(b, p, x)' = MsgAt(b, p, x)
    BY Zenon DEF MsgAt
  <2> QED
    BY <1>8, <1>11, <1>12, <2>1, Zenon DEF Wrote
<1> QED
  BY <1>13, Zenon

\* Until the last message is read, the next one lies at off.
LEMMA ReadNext ==
  ASSUME CodecTypes, NEW e \in [0 .. msgCnt -> 0 .. Len(buff)], Wrote(e), Small, ReadBack(e),
         got # cnt
  PROVE  /\ off < Len(buff) /\ ~Short /\ MsgEnd = e[got + 1]
         /\ MsgEnd - off - 2 = Len(msgs[got + 1])
<1> DEFINE m == msgs[got + 1]
<1>1. /\ buff \in Seq(Byte) /\ msgs \in Seq(Seq(Byte)) /\ msgCnt \in Nat /\ msgCnt <= Len(msgs)
      /\ got \in Nat /\ got <= cnt /\ off \in Nat
  BY Zenon DEF CodecTypes
<1>2. cnt = msgCnt /\ off = e[got]
  BY Zenon DEF ReadBack
<1>3. got + 1 \in 1 .. msgCnt /\ (got + 1) - 1 = got /\ got + 1 \in 1 .. Len(msgs)
  BY <1>1, <1>2
<1>4. m \in Seq(Byte) /\ Len(m) \in Nat /\ Len(buff) \in Nat
  BY <1>1, <1>3
<1>5. Len(m) < Base * Base
  BY <1>3, Zenon DEF Small
<1>6. e[got + 1] = off + 2 + Len(m) /\ MsgAt(buff, off, m)
  <2>1. e[got + 1] = e[(got + 1) - 1] + 2 + Len(m) /\ MsgAt(buff, e[(got + 1) - 1], m)
    BY <1>3, Zenon DEF Wrote
  <2> QED
    BY <1>2, <1>3, <2>1, Zenon
<1> HIDE DEF m
<1>7. off + 2 + Len(m) <= Len(buff) /\ Uint16(SubSeq(buff, off + 1, off + 2)) = Len(m)
  BY <1>1, <1>4, <1>5, <1>6, MsgThere
<1>8. MsgEnd = off + 2 + Len(m)
  BY <1>7 DEF MsgEnd
<1>9. off < Len(buff) /\ off + 2 <= Len(buff) /\ ~(MsgEnd > Len(buff)) /\ MsgEnd - off - 2 = Len(m)
  BY <1>1, <1>4, <1>7, <1>8
<1> QED
  BY <1>6, <1>8, <1>9, Zenon DEF Short, m

\* Marshal stays within the buffer, and ends only at a message that does not fit.
LEMMA FilledStep ==
  ASSUME CodecTypes, Phases, Filled, [CodecNext]_codecVars
  PROVE  Filled'
<1>1. ASSUME ~own, own' = own PROVE Filled'
  BY <1>1 DEF Filled
<1>2. ASSUME UNCHANGED <<buff, msgs, size, msgCnt, own>>, pc # "marshal" PROVE Filled'
  BY <1>2, Zenon DEF Filled, Fits
<1>3. CASE \E s \in Names : GiveName(s)
  BY <1>1, <1>3 DEF GiveName, marshalVars, Phases
<1>4. CASE \E n \in Sizes, ms \in MsgLists : MarshalCall(n, ms)
  <2>1. PICK n \in Sizes, ms \in MsgLists : MarshalCall(n, ms)
    BY <1>4
  <2>2. pc = "idle" /\ pc' = "marshal" /\ size' = n /\ buff' = buff /\ n \in Nat
    BY <2>1, CodecAssumption DEF MarshalCall
  <2>3. Len(buff') <= size'
    BY <2>2 DEF Phases
  <2> QED
    BY <2>2, <2>3 DEF Filled
<1>5. CASE MarshalMsg
  <2> DEFINE m == msgs[msgCnt + 1]
  <2>1. /\ pc = "marshal" /\ msgCnt < Len(msgs) /\ Fits(Len(m)) /\ buff' = buff \o Encoded(m)
        /\ pc' = pc /\ size' = size
    BY <1>5, Zenon DEF MarshalMsg
  <2>2. buff \in Seq(Byte) /\ m \in Seq(Byte)
    BY <2>1 DEF CodecTypes
  <2> HIDE DEF m
  <2>3. Len(buff') = Len(buff) + 2 + Len(m)
    BY <2>1, <2>2, Appended
  <2>4. Len(buff') <= size'
    BY <2>1, <2>3 DEF Fits
  <2> QED
    BY <2>1, <2>4 DEF Filled
<1>6. CASE MarshalReturn
  <2>1. /\ msgCnt < Len(msgs) => ~Fits(Len(msgs[msgCnt + 1]))
        /\ UNCHANGED <<buff, msgs, size, msgCnt, own>>
    BY <1>6, Zenon DEF MarshalReturn, marshalVars
  <2> QED
    BY <2>1, Zenon DEF Filled, Fits
<1>7. CASE pc = "sent" /\ UnmarshalCall(buff, msgCnt)
  BY <1>2, <1>7 DEF UnmarshalCall, marshalVars
<1>8. CASE pc = "idle" /\ \E b \in Payloads, c \in Counts : UnmarshalCall(b, c)
  BY <1>1, <1>8 DEF UnmarshalCall, marshalVars, Phases
<1>9. CASE UnmarshalMsg \/ UnmarshalShort \/ UnmarshalReturn
  BY <1>2, <1>9 DEF UnmarshalMsg, UnmarshalShort, UnmarshalReturn, marshalVars
<1>10. CASE UNCHANGED codecVars
  BY <1>10, Zenon DEF Filled, Fits, codecVars, marshalVars
<1> QED
  BY <1>3, <1>4, <1>5, <1>6, <1>7, <1>8, <1>9, <1>10, Zenon DEF CodecNext

\* Unmarshal reads back, round by round, what Marshal wrote.
LEMMA ReadStep ==
  ASSUME CodecTypes, Small, UnmarshalMsg \/ UnmarshalShort \/ UnmarshalReturn,
         NEW e \in [0 .. msgCnt -> 0 .. Len(buff)], Wrote(e), ReadBack(e)
  PROVE  ReadBack(e)'
<1>1. /\ cnt \in Nat /\ got \in Nat /\ got <= cnt /\ off \in Nat
      /\ ret \in [1 .. cnt -> [at : Nat, len : Nat]]
  BY Zenon DEF CodecTypes
<1>2. /\ cnt = msgCnt /\ off = e[got] /\ e[msgCnt] = Len(buff)
      /\ \A j \in 1 .. got : ret[j] = [at |-> e[j - 1] + 2, len |-> Len(msgs[j])]
  BY Zenon DEF ReadBack, Wrote
<1>3. CASE UnmarshalMsg
  <2>1. /\ got # cnt /\ pc' = pc /\ pc = "unmarshal" /\ off' = MsgEnd /\ got' = got + 1
        /\ ret' = [ret EXCEPT ![got + 1] = [at |-> off + 2, len |-> MsgEnd - off - 2]]
        /\ UNCHANGED <<buff, msgs, msgCnt, cnt>>
    BY <1>3, Zenon DEF UnmarshalMsg, More, marshalVars
  <2>2. MsgEnd = e[got + 1] /\ MsgEnd - off - 2 = Len(msgs[got + 1])
    BY <2>1, ReadNext
  <2>3. got + 1 \in 1 .. cnt /\ (got + 1) - 1 = got
    BY <1>1, <2>1
  <2>4. /\ ret'[got + 1] = [at |-> off + 2, len |-> MsgEnd - off - 2]
        /\ \A j \in 1 .. cnt : j # got + 1 => ret'[j] = ret[j]
    BY <1>1, <2>1, <2>3
  <2>5. ASSUME NEW j \in 1 .. got + 1
        PROVE  ret'[j] = [at |-> e[j - 1] + 2, len |-> Len(msgs[j])]
    <3>1. CASE j = got + 1
      BY <1>2, <2>2, <2>3, <2>4, <3>1, Zenon
    <3>2. CASE j # got + 1
      <4>1. j \in 1 .. got /\ j \in 1 .. cnt
        BY <1>1, <3>2
      <4> QED
        BY <1>2, <2>4, <3>2, <4>1, Zenon
    <3> QED
      BY <3>1, <3>2
  <2>6. /\ \A j \in 1 .. got' : ret'[j] = [at |-> e[j - 1] + 2, len |-> Len(msgs'[j])]
        /\ off' = e[got'] /\ cnt' = msgCnt' /\ pc' = "unmarshal"
    BY <1>2, <2>1, <2>2, <2>5, Zenon
  <2> QED
    BY <2>6 DEF ReadBack
<1>4. CASE UnmarshalShort
  <2>1. got # cnt /\ Short
    BY <1>4, Zenon DEF UnmarshalShort, More
  <2> QED
    BY <2>1, ReadNext
<1>5. CASE UnmarshalReturn
  <2>1. /\ ~(off < Len(buff) /\ got # cnt) /\ pc' = IF off # Len(buff) THEN "error" ELSE "done"
        /\ UNCHANGED <<buff, msgs, msgCnt, cnt, off, got, ret>>
    BY <1>5, Zenon DEF UnmarshalReturn, More, Trailing, marshalVars, unmarshalVars
  <2>2. got = cnt
    BY <2>1, ReadNext
  <2>3. pc' = "done"
    BY <1>2, <2>1, <2>2
  <2> QED
    BY <1>2, <2>1, <2>2, <2>3 DEF ReadBack
<1> QED
  BY <1>3, <1>4, <1>5

\* What Marshal wrote stays in the buffer, and what Unmarshal has read is of it.
LEMMA RoundTripStep ==
  ASSUME CodecTypes, Phases, RoundTrip, [CodecNext]_codecVars
  PROVE  RoundTrip'
<1> SUFFICES ASSUME own' PROVE RoundTrip'
  BY DEF RoundTrip
<1>1. ASSUME UNCHANGED <<buff, msgs, msgCnt>>
      PROVE  (\A e : Wrote(e)' = Wrote(e)) /\ Small' = Small
  BY <1>1, Zenon DEF Wrote, MsgAt, Small
<1>2. ASSUME own, UNCHANGED <<buff, msgs, msgCnt>>, pc' \in {"marshal", "sent"} PROVE RoundTrip'
  <2>1. PICK e \in [0 .. msgCnt -> 0 .. Len(buff)] : Wrote(e)
    BY <1>2, Zenon DEF RoundTrip
  <2>2. Wrote(e)' /\ e \in [0 .. msgCnt' -> 0 .. Len(buff')]
    BY <1>1, <1>2, <2>1, Zenon
  <2>3. pc' \notin {"unmarshal", "error", "done"}
    BY <1>2
  <2> QED
    BY <2>2, <2>3, Zenon DEF RoundTrip
<1>3. CASE \E s \in Names : GiveName(s)
  BY <1>3 DEF GiveName, marshalVars, Phases
<1>4. CASE \E n \in Sizes, ms \in MsgLists : MarshalCall(n, ms)
  <2>1. pc' = "marshal" /\ buff' = <<>> /\ msgCnt' = 0
    BY <1>4 DEF MarshalCall, Phases
  <2>2. PICK e : e = [j \in 0 .. 0 |-> 0]
    OBVIOUS
  <2>3. e \in [0 .. msgCnt' -> 0 .. Len(buff')] /\ e[0] = 0 /\ Len(buff') = 0
    BY <2>1, <2>2
  <2>4. Wrote(e)'
    BY <2>1, <2>3 DEF Wrote
  <2>5. pc' \notin {"unmarshal", "error", "done"}
    BY <2>1
  <2> QED
    BY <2>3, <2>4, <2>5, Zenon DEF RoundTrip
<1>5. CASE MarshalMsg
  <2>1. own /\ pc' = "marshal"
    BY <1>5 DEF MarshalMsg
  <2>2. PICK e \in [0 .. msgCnt -> 0 .. Len(buff)] : Wrote(e)
    BY <2>1, Zenon DEF RoundTrip
  <2>3. \E f \in [0 .. msgCnt' -> 0 .. Len(buff')] : Wrote(f)'
    BY <1>5, <2>2, WriteNext
  <2>4. pc' \notin {"unmarshal", "error", "done"}
    BY <2>1
  <2> QED
    BY <2>3, <2>4, Zenon DEF RoundTrip
<1>6. CASE MarshalReturn
  BY <1>2, <1>6 DEF MarshalReturn, marshalVars
<1>7. CASE pc = "sent" /\ UnmarshalCall(buff, msgCnt)
  <2>1. /\ own /\ UNCHANGED <<buff, msgs, msgCnt>> /\ cnt' = msgCnt /\ off' = 0 /\ got' = 0
        /\ pc' = IF msgCnt = 0 THEN "done" ELSE "unmarshal"
    BY <1>7 DEF UnmarshalCall, marshalVars
  <2>2. PICK e \in [0 .. msgCnt -> 0 .. Len(buff)] : Wrote(e)
    BY <2>1, Zenon DEF RoundTrip
  <2>3. Wrote(e)' /\ e \in [0 .. msgCnt' -> 0 .. Len(buff')]
    BY <1>1, <2>1, <2>2, Zenon
  <2>4. ReadBack(e)'
    BY <2>1, <2>2 DEF ReadBack, Wrote
  <2> QED
    BY <2>3, <2>4, Zenon DEF RoundTrip
<1>8. CASE pc = "idle" /\ \E b \in Payloads, c \in Counts : UnmarshalCall(b, c)
  BY <1>8 DEF UnmarshalCall, marshalVars, Phases
<1>9. CASE UnmarshalMsg \/ UnmarshalShort \/ UnmarshalReturn
  <2>1. own /\ pc = "unmarshal" /\ UNCHANGED <<buff, msgs, msgCnt>>
    BY <1>9 DEF UnmarshalMsg, UnmarshalShort, UnmarshalReturn, marshalVars
  <2>2. pc \in {"unmarshal", "error", "done"}
    BY <2>1
  <2>3. PICK e \in [0 .. msgCnt -> 0 .. Len(buff)] : Wrote(e) /\ (Small => ReadBack(e))
    BY <2>1, <2>2, Zenon DEF RoundTrip
  <2>4. Wrote(e)' /\ e \in [0 .. msgCnt' -> 0 .. Len(buff')] /\ Small' = Small
    BY <1>1, <2>1, <2>3, Zenon
  <2>5. Small => ReadBack(e)'
    BY <1>9, <2>3, ReadStep
  <2> QED
    BY <2>4, <2>5, Zenon DEF RoundTrip
<1>10. CASE UNCHANGED codecVars
  BY <1>10, Zenon DEF RoundTrip, Wrote, MsgAt, Small, ReadBack, codecVars, marshalVars, unmarshalVars
<1> QED
  BY <1>3, <1>4, <1>5, <1>6, <1>7, <1>8, <1>9, <1>10, Zenon DEF CodecNext

\* Marshal fills the buffer, and Unmarshal gives back what it was filled with.
THEOREM BlocksSurvive == CodecSpec => []BlockRoundTrip
<1>1. CodecInit => Filled /\ RoundTrip
  BY DEF CodecInit, Filled, RoundTrip
<1>2. CodecTypes /\ Phases /\ (Filled /\ RoundTrip) /\ [CodecNext]_codecVars => (Filled /\ RoundTrip)'
  BY FilledStep, RoundTripStep, Zenon
<1>3. CodecTypes /\ Filled /\ RoundTrip => BlockRoundTrip
  <2> SUFFICES ASSUME CodecTypes, Filled, RoundTrip, own PROVE BlockRoundTrip
    BY DEF BlockRoundTrip
  <2>1. /\ Len(buff) <= size
        /\ pc # "marshal" /\ msgCnt < Len(msgs) => ~(Len(buff) + 2 + Len(msgs[msgCnt + 1]) <= size)
    BY Zenon DEF Filled, Fits
  <2>2. ASSUME Small
        PROVE  /\ pc # "error"
               /\ pc = "done" => /\ Len(ret) = msgCnt
                                 /\ \A j \in 1 .. msgCnt : Data(ret[j]) = msgs[j]
    <3>1. PICK e \in [0 .. msgCnt -> 0 .. Len(buff)] :
            Wrote(e) /\ (pc \in {"unmarshal", "error", "done"} => ReadBack(e))
      BY <2>2, Zenon DEF RoundTrip
    <3>2. pc # "error"
      BY <3>1 DEF ReadBack
    <3>3. ASSUME pc = "done" PROVE Len(ret) = msgCnt /\ \A j \in 1 .. msgCnt : Data(ret[j]) = msgs[j]
      <4>1. /\ cnt = msgCnt /\ got = cnt
            /\ \A j \in 1 .. got : ret[j] = [at |-> e[j - 1] + 2, len |-> Len(msgs[j])]
        BY <3>1, <3>3 DEF ReadBack
      <4>2. /\ ret \in [1 .. cnt -> [at : Nat, len : Nat]] /\ cnt \in Nat /\ buff \in Seq(Byte)
            /\ msgs \in Seq(Seq(Byte)) /\ msgCnt <= Len(msgs)
        BY Zenon DEF CodecTypes
      <4>3. Len(ret) = msgCnt
        BY <4>1, <4>2
      <4>4. ASSUME NEW j \in 1 .. msgCnt PROVE Data(ret[j]) = msgs[j]
        <5>1. /\ ret[j] = [at |-> e[j - 1] + 2, len |-> Len(msgs[j])] /\ e[j - 1] \in Nat
              /\ msgs[j] \in Seq(Byte)
          <6>1. /\ j \in 1 .. got /\ j \in 1 .. Len(msgs) /\ j - 1 \in 0 .. msgCnt /\ msgCnt \in Nat
                /\ Len(buff) \in Nat
            BY <4>1, <4>2
          <6>2. e[j - 1] \in Nat
            BY <6>1
          <6>3. msgs[j] \in Seq(Byte)
            BY <4>2, <6>1
          <6> QED
            BY <4>1, <6>1, <6>2, <6>3, Zenon
        <5>2. MsgAt(buff, e[j - 1], msgs[j]) /\ Len(msgs[j]) < Base * Base
          BY <2>2, <3>1, Zenon DEF Wrote, Small
        <5>3. SubSeq(buff, e[j - 1] + 2 + 1, e[j - 1] + 2 + Len(msgs[j])) = msgs[j]
          BY <4>2, <5>1, <5>2, MsgThere
        <5> QED
          BY <5>1, <5>3 DEF Data
      <4> QED
        BY <4>3, <4>4
    <3> QED
      BY <3>2, <3>3
  <2> QED
    BY <2>1, <2>2, Zenon DEF BlockRoundTrip, Small
<1> QED
  BY <1>1, <1>2, <1>3, CodecTyped, PTL DEF CodecSpec

===============================================================================
