------------------------------- MODULE UdpFrame -------------------------------
(***************************************************************************)
(* Frames on the rings: what zsockIf.Send writes into a frame of the       *)
(* transmit ring (copyFx, buildRawUDP), and what zsockIf.Listen passes on  *)
(* of a frame it receives.  A payload is its length: a frame records how   *)
(* many of its bytes were copied.  The kernel's rings and filters and the  *)
(* accessors of package nettypes are external.  A multicast group is its   *)
(* upper 9 and its lower 23 bits.                                          *)
(***************************************************************************)
EXTENDS Integers

CONSTANTS
  Word,         \* number of values of a uint16
  FrameRoom,    \* zs.txFrameSize, the length of a frame's txStart
  MinWire,      \* shortest frame on the wire, to which the driver pads
  HeadSize,     \* headSize: the shortest MoldUDP64 packet
  MaxUDP,       \* longest payload of a UDP datagram
  Ports,        \* UDP ports in use
  Groups,       \* multicast groups in use: records of upper and lower bits
  Lengths       \* lengths of packets to send

EthHead == 14
IPHead == 20
UDPHead == 8
AllHeads == EthHead + IPHead + UDPHead

ASSUME FrameAssumption ==
  /\ {Word, FrameRoom, MinWire, HeadSize, MaxUDP} \subseteq Nat \ {0}
  /\ MinWire <= AllHeads + HeadSize /\ AllHeads + HeadSize <= FrameRoom
  /\ FrameRoom < Word /\ MaxUDP + IPHead + UDPHead < Word
  /\ Ports \subseteq 0 .. Word - 1 /\ Lengths \subseteq Nat

\* The multicast address holds the lower bits only; bit 23 is masked.
GetMulticastHWAddr(g) == <<0, g.lower>>

\* setPacketMultiCast works the address out by itself.
JoinedHWAddr(g) == <<0, g.lower>>

-------------------------------------------------------------------------------
(* Sending *)

\* Mutant: the UDP header's own length is not counted in it.
BuildRawUDPShort(udpLen, port, dst) ==
  [etherType |-> "IPv4", ipLen |-> (udpLen + IPHead + UDPHead) % Word,
   protocol |-> "UDP", dstIP |-> dst, srcPort |-> (port + 1) % Word,
   dstPort |-> port % Word, udpLen |-> udpLen % Word]

\* The headers buildRawUDP writes, with buildIP and buildUDP.
BuildRawUDP(udpLen, port, dst) ==
  [etherType |-> "IPv4", ipLen |-> (udpLen + IPHead + UDPHead) % Word,
   protocol |-> "UDP", dstIP |-> dst, srcPort |-> (port + 1) % Word,
   dstPort |-> port % Word, udpLen |-> (udpLen + UDPHead) % Word]

\* copyFx with n bytes of src: l = 0 stands for all of them, the copy ends at
\* the end of the frame, and the result becomes the frame's tp_len.
CopyFx(n, l, port, g) ==
  LET len == IF l = 0 THEN n ELSE l
      room == FrameRoom - AllHeads
  IN [dst |-> GetMulticastHWAddr(g),
      head |-> BuildRawUDP(len, port, g),
      data |-> IF n < room THEN n ELSE room,
      tpLen |-> (len + IPHead + UDPHead + EthHead) % Word]

\* Send and MSend pass the length of a packet of n bytes as a uint16.
SendFrame(n, port, g) == CopyFx(n, n % Word, port, g)

\* The kernel sends a frame that has an Ethernet header and ends in its slot.
Sendable(f) == EthHead <= f.tpLen /\ f.tpLen <= FrameRoom

-------------------------------------------------------------------------------
(* Receiving *)

\* The lengths with which a frame can be captured: as sent, or padded.
CapturedLens(f) == {f.tpLen, IF f.tpLen < MinWire THEN MinWire ELSE f.tpLen}

\* The program setBPF attaches: UDP, no fragment, to the port.
PassesBPF(f, port) == f.head.protocol = "UDP" /\ f.head.dstPort = port

\* Listen's callback passes on a frame captured with ln bytes.
Accepts(f, ln, port) ==
  /\ f.head.etherType = "IPv4" /\ f.head.protocol = "UDP"
  /\ ln - EthHead >= f.head.ipLen
  /\ f.head.dstPort = port
  /\ ln - EthHead - IPHead >= f.head.udpLen

\* The length of nettypes.UDP_P.Payload: up to the end of the datagram, or of
\* the frame.
PayloadLens(f, ln) == {f.head.udpLen - UDPHead, ln - AllHeads}

\* What Listen hands to fx on a socket that joined g and listens on port: how
\* many bytes, and how many of them are the sender's.
Received(f, port, g) ==
  {[len |-> k, data |-> IF k < f.data THEN k ELSE f.data] :
     k \in UNION {PayloadLens(f, ln) :
                    ln \in {l \in CapturedLens(f) :
                              /\ Sendable(f) /\ f.dst = JoinedHWAddr(g)
                              /\ PassesBPF(f, port) /\ Accepts(f, l, port)}}}

-------------------------------------------------------------------------------
(* A packet is sent. *)

VARIABLE pktLen         \* its length, or 0

FrameInit == pktLen = 0
FrameNext == pktLen = 0 /\ pktLen' \in Lengths
FrameSpec == FrameInit /\ [][FrameNext]_pktLen

\* Send and Listen agree on the format of a frame for every length of a
\* MoldUDP64 packet, port and group: the receiver is handed the whole packet
\* and no other byte if the packet fits into a frame.  If it does not fit, the
\* receiver is handed nothing: the kernel refuses the frame, even if its length
\* has wrapped at 16 bits, and sendto's error is what the flush returns.
FramesAgree ==
  HeadSize <= pktLen /\ pktLen <= MaxUDP =>
    \A p \in Ports, g \in Groups :
      Received(SendFrame(pktLen, p, g), p, g)
        = IF pktLen + AllHeads <= FrameRoom THEN {[len |-> pktLen, data |-> pktLen]} ELSE {}

===============================================================================
