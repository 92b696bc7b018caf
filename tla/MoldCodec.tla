------------------------------- MODULE MoldCodec -------------------------------
(***************************************************************************)
(* The wire format: headers (EncodeHead, DecodeHead), as operators on byte *)
(* sequences, and blocks of length-prefixed messages, with the loops of    *)
(* Marshal and Unmarshal as actions, a round each.  The big-endian codec   *)
(* of encoding/binary is external; a header's SeqNo and MessageCnt are     *)
(* carried as the numbers they encode.                                     *)
(***************************************************************************)
EXTENDS Integers, Sequences

CONSTANTS
  SessionLen,   \* bytes of the session name in a header (10)
  Base,         \* values of a byte (256)
  Space,        \* the byte ' '
  Names,        \* session names given to EncodeHead
  MsgLists,     \* lists of messages given to Marshal
  Sizes,        \* sizes of the buffer given to it
  Payloads,     \* bytes received behind a header
  Counts        \* message counts of a header

Byte == 0 .. Base - 1

ASSUME CodecAssumption ==
  /\ SessionLen \in Nat \ {0} /\ Base \in Nat \ {0, 1} /\ Space \in Byte
  /\ Names \cup Payloads \subseteq Seq(Byte) /\ MsgLists \subseteq Seq(Seq(Byte))
  /\ Sizes \cup Counts \subseteq Nat

-------------------------------------------------------------------------------
(* Header *)

\* EncodeHead: blanks, over which the first bytes of the name are copied.
EncodeHead(h) ==
  [session |-> [i \in 1 .. SessionLen |->
                  IF i <= Len(h.session) THEN h.session[i] ELSE Space],
   seqNo |-> h.seqNo, msgCnt |-> h.msgCnt]

\* Mutant: the name ends at the first blank.
NameLenFirst(b) ==
  LET blanks == {i \in 2 .. SessionLen : b[i] = Space}
  IN IF blanks = {} THEN SessionLen
     ELSE (CHOOSE i \in blanks : \A j \in blanks : i <= j) - 1

\* Where DecodeHead's loop ends: behind the last byte that is no blank, but
\* the first byte is not looked at.
NameLen(b) ==
  LET used == {i \in 2 .. SessionLen : b[i] # Space}
  IN IF used = {} THEN 0 ELSE CHOOSE i \in used : \A j \in used : j <= i

DecodeHead(buff) ==
  [session |-> SubSeq(buff.session, 1, NameLen(buff.session)),
   seqNo |-> buff.seqNo, msgCnt |-> buff.msgCnt]

\* A name EncodeHead can represent: it fits, and its last byte is no blank.
Representable(name) ==
  Len(name) <= SessionLen /\ (name # <<>> => name[Len(name)] # Space)

-------------------------------------------------------------------------------
(* Messages *)

\* uint16 as two bytes, and back
PutUint16(n) == <<(n \div Base) % Base, n % Base>>
Uint16(b) == b[1] * Base + b[2]

\* One message as Marshal writes it.
Encoded(msg) == PutUint16(Len(msg) % (Base * Base)) \o msg

\* A message without data, as make leaves it.
NoData == [at |-> 0, len |-> 0]

VARIABLES
  name,         \* a session name to encode
  pc,           \* where the call in progress is
  msgs,         \* Marshal's messages
  size,         \* Marshal's len(buff)
  msgCnt,       \* messages Marshal has written
  buff,         \* the bytes Marshal has written, or those Unmarshal is given
  own,          \* buff was written by Marshal
  cnt,          \* Unmarshal's cnt
  off,          \* Unmarshal's position in buff
  got,          \* Unmarshal's i: the messages found so far
  ret           \* Unmarshal's result: slices of buff

marshalVars == <<msgs, size, msgCnt, own>>
unmarshalVars == <<cnt, off, got, ret>>
codecVars == <<name, pc, buff, marshalVars, unmarshalVars>>

CodecInit ==
  /\ name = <<>> /\ pc = "idle" /\ buff = <<>>
  /\ msgs = <<>> /\ size = 0 /\ msgCnt = 0 /\ own = FALSE
  /\ cnt = 0 /\ off = 0 /\ got = 0 /\ ret = <<>>

\* A name for EncodeHead.
GiveName(s) ==
  /\ pc = "idle" /\ pc' = "named" /\ name' = s
  /\ UNCHANGED <<buff, marshalVars, unmarshalVars>>

MarshalCall(n, ms) ==
  /\ pc = "idle" /\ pc' = "marshal"
  /\ msgs' = ms /\ size' = n /\ own' = TRUE
  /\ UNCHANGED <<name, buff, msgCnt, unmarshalVars>>

\* Mutant: the buffer's last byte is passed over.
FitsOver(k) == Len(buff) + 2 + k <= size + 1

\* The buffer has room for a message of k bytes.
Fits(k) == Len(buff) + 2 + k <= size

\* One round of Marshal's loop.
MarshalMsg ==
  /\ pc = "marshal" /\ msgCnt < Len(msgs)
  /\ LET msg == msgs[msgCnt + 1]
     IN Fits(Len(msg)) /\ buff' = buff \o Encoded(msg)
  /\ msgCnt' = msgCnt + 1
  /\ UNCHANGED <<name, pc, msgs, size, own, unmarshalVars>>

\* It ends before the first message that does not fit.
MarshalReturn ==
  /\ pc = "marshal" /\ pc' = "sent"
  /\ msgCnt < Len(msgs) => ~Fits(Len(msgs[msgCnt + 1]))
  /\ UNCHANGED <<name, buff, marshalVars, unmarshalVars>>

\* cnt empty messages are allocated first; without any there is no result.
UnmarshalCall(b, c) ==
  /\ buff' = b /\ cnt' = c /\ off' = 0 /\ got' = 0
  /\ ret' = [j \in 1 .. c |-> NoData]
  /\ pc' = IF c = 0 THEN "done" ELSE "unmarshal"
  /\ UNCHANGED <<name, marshalVars>>

\* for off < n, and i == cnt
More == off < Len(buff) /\ got # cnt

\* Where the message at off ends.
MsgEnd == off + 2 + Uint16(SubSeq(buff, off + 1, off + 2))

\* Mutant: a message that ends where the payload ends is refused.
ShortAtEnd == off + 2 <= Len(buff) => MsgEnd >= Len(buff)

\* The message at off is cut off.
Short == off + 2 <= Len(buff) => MsgEnd > Len(buff)

\* One round of Unmarshal's loop.
UnmarshalMsg ==
  /\ pc = "unmarshal" /\ More /\ ~Short
  /\ ret' = [ret EXCEPT ![got + 1] = [at |-> off + 2, len |-> MsgEnd - off - 2]]
  /\ off' = MsgEnd /\ got' = got + 1
  /\ UNCHANGED <<name, pc, buff, marshalVars, cnt>>

UnmarshalShort ==
  /\ pc = "unmarshal" /\ More /\ Short /\ pc' = "error"
  /\ UNCHANGED <<name, buff, marshalVars, unmarshalVars>>

\* Mutant: bytes left over are ignored.
TrailingIgnored == FALSE

\* off != n: bytes are left over behind the last message.
Trailing == off # Len(buff)

UnmarshalReturn ==
  /\ pc = "unmarshal" /\ ~More
  /\ pc' = IF Trailing THEN "error" ELSE "done"
  /\ UNCHANGED <<name, buff, marshalVars, unmarshalVars>>

\* Unmarshal is given what Marshal wrote, or anything else with any count.
CodecNext ==
  \/ \E s \in Names : GiveName(s)
  \/ \E n \in Sizes, ms \in MsgLists : MarshalCall(n, ms)
  \/ MarshalMsg \/ MarshalReturn
  \/ pc = "sent" /\ UnmarshalCall(buff, msgCnt)
  \/ pc = "idle" /\ \E b \in Payloads, c \in Counts : UnmarshalCall(b, c)
  \/ UnmarshalMsg \/ UnmarshalShort \/ UnmarshalReturn

CodecSpec == CodecInit /\ [][CodecNext]_codecVars

-------------------------------------------------------------------------------
(* Properties *)

Header(s) == [session |-> s, seqNo |-> 1, msgCnt |-> 1]

\* DecodeHead gives back the header EncodeHead was given, for every session
\* name of two characters or more that fits, and for the empty one.
HeadRoundTrip ==
  Representable(name) /\ Len(name) # 1 => DecodeHead(EncodeHead(Header(name))) = Header(name)

\* TestDecodeHead expects DecodeHead to return the Session that was encoded.
SessionSurvives ==
  Representable(name) => DecodeHead(EncodeHead(Header(name))).session = name

\* The bytes of a message Unmarshal returns.
Data(m) == SubSeq(buff, m.at + 1, m.at + m.len)

\* Marshal fills a buffer of any size with the longest prefix of the messages
\* that fits, and Unmarshal, told how many there are, does not fail and gives
\* exactly these back, as long as every length fits into a uint16.
BlockRoundTrip ==
  own => /\ Len(buff) <= size
         /\ pc # "marshal" /\ msgCnt < Len(msgs) => ~(Len(buff) + 2 + Len(msgs[msgCnt + 1]) <= size)
         /\ (\A j \in 1 .. msgCnt : Len(msgs[j]) < Base * Base) =>
              /\ pc # "error"
              /\ pc = "done" => /\ Len(ret) = msgCnt
                                /\ \A j \in 1 .. msgCnt : Data(ret[j]) = msgs[j]

\* An encoded message of l bytes lies at position p of buff.
BlockAt(p, l) ==
  /\ l \in 0 .. Base * Base - 1 /\ p + 2 + l <= Len(buff)
  /\ SubSeq(buff, p + 1, p + 2) = PutUint16(l)

\* Where message j of ret ends.
EndOf(j) == IF j = 0 THEN 0 ELSE ret[j].at + ret[j].len

\* A header's MessageCnt is "the count of messages contained in this packet", and
\* doMsgBuf counts a packet as an error in which it finds another number of them
\* (len(res) != msgCnt): a payload, which gotBuff sees is not empty, that passes
\* Unmarshal and this comparison should contain as many messages as announced.
\* It need not, as Unmarshal returns cnt messages however many it finds.
CountMatches == pc = "done" /\ buff # <<>> /\ Len(ret) = cnt => got = cnt

\* What Unmarshal does accept is, from end to end, a sequence of encoded
\* messages, no more of them than cnt, and it returns these in their order.
\* That fewer than cnt are accepted as well, with empty messages for the rest,
\* is what CountMatches objects to.
AcceptsOnlyBlocks ==
  pc = "done" /\ cnt > 0 =>
    \E k \in 0 .. cnt :
      /\ \A j \in 1 .. k : /\ ret[j].at = EndOf(j - 1) + 2
                           /\ BlockAt(EndOf(j - 1), ret[j].len)
      /\ EndOf(k) = Len(buff)
      /\ \A j \in k + 1 .. cnt : ret[j] = NoData

\* e[0], ..., e[k] cut buff into k encoded messages.
Cuts(e, k) ==
  /\ e[0] = 0 /\ e[k] = Len(buff)
  /\ \A j \in 1 .. k : BlockAt(e[j - 1], e[j] - e[j - 1] - 2)

\* Unmarshal refuses no payload that is such a sequence.
RefusesNoBlocks ==
  pc = "error" => \A k \in 0 .. cnt : \A e \in [0 .. k -> 0 .. Len(buff)] : ~Cuts(e, k)

===============================================================================
