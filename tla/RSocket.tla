-------------------------------- MODULE RSocket --------------------------------
(***************************************************************************)
(* rsocket.go: Sendmmsg, Sendmmsg2 and Recvmmsg hand their packets to the  *)
(* kernel in two global arrays, and setBPF its program in a third.  Any    *)
(* goroutine may call them, through sockIf's MSend and MRecv and zsockIf's *)
(* Open; each has an interface, and with it buffers, of its own.           *)
(*                                                                         *)
(* An address in memory is a pair of the goroutine it belongs to and a     *)
(* name, and a goroutine stands for the port it opens its interface on.    *)
(* An action is a run of the code between two accesses to an entry of an   *)
(* array.  The kernel is external.                                         *)
(***************************************************************************)
EXTENDS Integers, Sequences

CONSTANTS
  Callers,      \* goroutines
  MaxBatch,     \* MAX_BATCH
  Room,         \* length of a receive buffer (2048)
  HdrLen,       \* len(pktHdr)
  Lens,         \* lengths of the packets sent and received
  AnyPort,      \* the port the program starts with
  Null          \* NULL

ASSUME RSocketAssumption ==
  /\ MaxBatch \in Nat \ {0} /\ Room \in Nat \ {0}
  /\ HdrLen \in Nat \ {0} /\ Lens \subseteq Nat

Entries == 0 .. MaxBatch - 1

VARIABLES
  dgrams,       \* dgrams: msg_name, the msg_iovlen buffers of msg_iov, msg_len
  filter,       \* filter[5].k and filter[13].k
  attached,     \* the ports in the program the kernel has for each interface
  pc, op,       \* each goroutine's program counter, and its call
  bufs,         \* lengths of the slices in the call's argument
  buffs,        \* c.buffs: lengths of the interface's own slices
  entry,        \* i, the next entry to set up or to read back
  used,         \* what the kernel was given
  lens,         \* the lengths of what it has received
  overlap       \* history: two calls that share an array have overlapped

batchVars == <<bufs, buffs, entry, used, lens>>
rsVars == <<dgrams, filter, attached, pc, op, batchVars, overlap>>

Zero == [name |-> Null, iov |-> <<>>, len |-> 0]

RSocketInit ==
  /\ dgrams = [i \in Entries |-> Zero]
  /\ filter = <<AnyPort, AnyPort>> /\ attached = [c \in Callers |-> <<>>]
  /\ pc = [c \in Callers |-> "idle"] /\ op = [c \in Callers |-> "none"]
  /\ bufs = [c \in Callers |-> <<>>]
  /\ buffs = [c \in Callers |-> [i \in 1 .. MaxBatch |-> Room]]
  /\ entry = [c \in Callers |-> 0] /\ used = [c \in Callers |-> <<>>]
  /\ lens = [c \in Callers |-> <<>>] /\ overlap = FALSE

\* bSize
Size(c) == IF Len(bufs[c]) > MaxBatch THEN MaxBatch ELSE Len(bufs[c])

Batching(c) == pc[c] \in {"setUp", "called"}
Filtering(c) == pc[c] \in {"port5", "port13", "attach"}

-------------------------------------------------------------------------------
(* Sendmmsg, Sendmmsg2 and Recvmmsg *)

\* MSend, or Sendmmsg2, on packets of any lengths.
CallSend(c) ==
  /\ pc[c] = "idle" /\ pc' = [pc EXCEPT ![c] = "setUp"]
  /\ \E f \in {"Sendmmsg", "Sendmmsg2"}, n \in 0 .. MaxBatch + 1 :
       /\ op' = [op EXCEPT ![c] = f]
       /\ \E ls \in [1 .. n -> Lens] : bufs' = [bufs EXCEPT ![c] = ls]
  /\ overlap' = (overlap \/ \E d \in Callers : Batching(d))
  /\ UNCHANGED <<dgrams, filter, attached, buffs, entry, used, lens>>

\* Mutant: the interface's slices themselves are handed down.
OwnSlices(c, n) == [i \in 1 .. MaxBatch |-> IF i <= n THEN lens[c][i] ELSE buffs[c][i]]

\* c.buffs after Recvmmsg has cut the slices of its argument: MRecv has copied
\* them before.
KeptSlices(c, n) == buffs[c]

\* MRecv: a copy of c.buffs is handed to Recvmmsg.
CallRecv(c) ==
  /\ pc[c] = "idle" /\ pc' = [pc EXCEPT ![c] = "setUp"]
  /\ op' = [op EXCEPT ![c] = "Recvmmsg"]
  /\ bufs' = [bufs EXCEPT ![c] = buffs[c]]
  /\ overlap' = (overlap \/ \E d \in Callers : Batching(d))
  /\ UNCHANGED <<dgrams, filter, attached, buffs, entry, used, lens>>

\* Entry i of the arrays as the call of c sets it up; the row of iovec beyond
\* msg_iovlen is not looked at.  A buffer's address goes with its slice's length.
SetUpEntry(c, i) ==
  LET buf == <<<<c, "buf", i>>, bufs[c][i + 1]>>
      hdr == <<<<c, "pktHdr">>, HdrLen>>
  IN CASE op[c] = "Sendmmsg" ->
            [name |-> <<c, "taddr">>, iov |-> <<buf>>, len |-> buf[2]]
       [] op[c] = "Sendmmsg2" ->
            [name |-> <<c, "taddr">>, iov |-> <<hdr, buf>>, len |-> buf[2] + HdrLen]
       [] OTHER ->
            [name |-> IF i = 0 THEN <<c, "raddr">> ELSE Null, iov |-> <<buf>>, len |-> buf[2]]

\* The slice whose entry is set up next is empty.
Empty(c) == bufs[c][entry[c] + 1] = 0

SetUp(c) ==
  /\ pc[c] = "setUp" /\ entry[c] < Size(c) /\ ~Empty(c)
  /\ dgrams' = [dgrams EXCEPT ![entry[c]] = SetUpEntry(c, entry[c])]
  /\ entry' = [entry EXCEPT ![c] = @ + 1]
  /\ UNCHANGED <<filter, attached, pc, op, bufs, buffs, used, lens, overlap>>

\* &buf[0] of an empty slice is a run-time panic.
SetUpPanics(c) ==
  /\ pc[c] = "setUp" /\ entry[c] < Size(c) /\ Empty(c)
  /\ pc' = [pc EXCEPT ![c] = "panic"]
  /\ UNCHANGED <<dgrams, filter, attached, op, batchVars, overlap>>

\* What the kernel works with in an entry.
Given(e) == [name |-> e.name, iov |-> e.iov]

Reading(c) == used' = [used EXCEPT ![c] = [i \in 1 .. Size(c) |-> Given(dgrams[i - 1])]]

\* sendmmsg takes all the packets, or some, or fails.
SendCall(c) ==
  /\ pc[c] = "setUp" /\ entry[c] = Size(c) /\ op[c] # "Recvmmsg"
  /\ Reading(c)
  /\ pc' = [pc EXCEPT ![c] = "done"]
  /\ UNCHANGED <<dgrams, filter, attached, op, bufs, buffs, entry, lens, overlap>>

\* recvmmsg fails, or its 1 ms is over: MRecv returns no packet.
RecvNone(c) ==
  /\ pc[c] = "setUp" /\ entry[c] = Size(c) /\ op[c] = "Recvmmsg"
  /\ Reading(c)
  /\ pc' = [pc EXCEPT ![c] = "done"] /\ lens' = [lens EXCEPT ![c] = <<>>]
  /\ UNCHANGED <<dgrams, filter, attached, op, bufs, buffs, entry, overlap>>

\* The bytes an entry's buffers can take.
Capacity(e) == e.iov[1][2] + (IF Len(e.iov) = 2 THEN e.iov[2][2] ELSE 0)

\* The lengths of n packets of l bytes, cut to the buffers they are put in.
Lengths(n, l) ==
  [i \in 1 .. n |-> LET len == Capacity(dgrams[i - 1]) IN IF l <= len THEN l ELSE len]

\* recvmmsg returns n packets and writes their lengths into the entries.
RecvCall(c) ==
  /\ pc[c] = "setUp" /\ entry[c] = Size(c) /\ op[c] = "Recvmmsg"
  /\ Reading(c)
  /\ \E n \in 1 .. Size(c), l \in Lens :
       /\ lens' = [lens EXCEPT ![c] = Lengths(n, l)]
       /\ dgrams' = [j \in Entries |->
                       IF j < n THEN [dgrams[j] EXCEPT !.len = Lengths(n, l)[j + 1]]
                       ELSE dgrams[j]]
  /\ entry' = [entry EXCEPT ![c] = 0]
  /\ pc' = [pc EXCEPT ![c] = "called"]
  /\ UNCHANGED <<filter, attached, op, bufs, buffs, overlap>>

\* bufs[i] = buf[:bLen]
Cut(c) ==
  /\ pc[c] = "called" /\ entry[c] < Len(lens[c]) /\ dgrams[entry[c]].len <= Room
  /\ bufs' = [bufs EXCEPT ![c][entry[c] + 1] = dgrams[entry[c]].len]
  /\ entry' = [entry EXCEPT ![c] = @ + 1]
  /\ UNCHANGED <<dgrams, filter, attached, pc, op, buffs, used, lens, overlap>>

\* It is a run-time panic if bLen exceeds the buffer.
CutPanics(c) ==
  /\ pc[c] = "called" /\ entry[c] < Len(lens[c]) /\ dgrams[entry[c]].len > Room
  /\ pc' = [pc EXCEPT ![c] = "panic"]
  /\ UNCHANGED <<dgrams, filter, attached, op, batchVars, overlap>>

CutAll(c) ==
  /\ pc[c] = "called" /\ entry[c] = Len(lens[c])
  /\ buffs' = [buffs EXCEPT ![c] = KeptSlices(c, Len(lens[c]))]
  /\ pc' = [pc EXCEPT ![c] = "done"]
  /\ UNCHANGED <<dgrams, filter, attached, op, bufs, entry, used, lens, overlap>>

-------------------------------------------------------------------------------
(* setBPF *)

CallBPF(c) ==
  /\ pc[c] = "idle"
  /\ op' = [op EXCEPT ![c] = "setBPF"]
  /\ pc' = [pc EXCEPT ![c] = IF filter = <<c, c>> THEN "attach" ELSE "port5"]
  /\ overlap' = (overlap \/ \E d \in Callers : Filtering(d))
  /\ UNCHANGED <<dgrams, filter, attached, batchVars>>

SetPort5(c) ==
  /\ pc[c] = "port5" /\ pc' = [pc EXCEPT ![c] = "port13"]
  /\ filter' = [filter EXCEPT ![1] = c]
  /\ UNCHANGED <<dgrams, attached, op, batchVars, overlap>>

\* Mutant: the second comparison, the one of IPv4, is forgotten.
SetPort13Not(c) ==
  /\ pc[c] = "port13" /\ pc' = [pc EXCEPT ![c] = "attach"]
  /\ UNCHANGED <<dgrams, filter, attached, op, batchVars, overlap>>

SetPort13(c) ==
  /\ pc[c] = "port13" /\ pc' = [pc EXCEPT ![c] = "attach"]
  /\ filter' = [filter EXCEPT ![2] = c]
  /\ UNCHANGED <<dgrams, attached, op, batchVars, overlap>>

\* The kernel copies the program, or refuses it.
Attach(c) ==
  /\ pc[c] = "attach" /\ pc' = [pc EXCEPT ![c] = "done"]
  /\ attached' \in {attached, [attached EXCEPT ![c] = filter]}
  /\ UNCHANGED <<dgrams, filter, op, batchVars, overlap>>

\* The caller has what the call returned; its local variables are gone.
Return(c) ==
  /\ pc[c] = "done" /\ pc' = [pc EXCEPT ![c] = "idle"]
  /\ op' = [op EXCEPT ![c] = "none"]
  /\ bufs' = [bufs EXCEPT ![c] = <<>>] /\ entry' = [entry EXCEPT ![c] = 0]
  /\ used' = [used EXCEPT ![c] = <<>>] /\ lens' = [lens EXCEPT ![c] = <<>>]
  /\ UNCHANGED <<dgrams, filter, attached, buffs, overlap>>

BatchStep(c) == \/ CallSend(c) \/ CallRecv(c) \/ SetUp(c) \/ SetUpPanics(c) \/ SendCall(c)
                \/ RecvNone(c) \/ RecvCall(c) \/ Cut(c) \/ CutPanics(c) \/ CutAll(c)
FilterStep(c) == CallBPF(c) \/ SetPort5(c) \/ SetPort13(c) \/ Attach(c)

\* A panic ends the process.
Alive == \A c \in Callers : pc[c] # "panic"

RSocketNext == Alive /\ \E c \in Callers : BatchStep(c) \/ FilterStep(c) \/ Return(c)

RSocketSpec == RSocketInit /\ [][RSocketNext]_rsVars

-------------------------------------------------------------------------------
(* Properties *)

\* What a call means the kernel to use, whatever is in the arrays.
Asked(c) ==
  [i \in 1 .. Size(c) |->
     CASE op[c] = "Sendmmsg" ->
            [name |-> <<c, "taddr">>, iov |-> <<<<<<c, "buf", i - 1>>, bufs[c][i]>>>>]
       [] op[c] = "Sendmmsg2" ->
            [name |-> <<c, "taddr">>,
             iov |-> <<<<<<c, "pktHdr">>, HdrLen>>, <<<<c, "buf", i - 1>>, bufs[c][i]>>>>]
       [] OTHER ->
            [name |-> IF i = 1 THEN <<c, "raddr">> ELSE Null,
             iov |-> <<<<<<c, "buf", i - 1>>, Room>>>>]]

\* As long as no two calls overlap, the kernel is given exactly the buffers,
\* the header and the address of the call, with receive buffers in their full
\* length, and MRecv returns slices of the lengths received: nothing an earlier
\* call, of whichever kind and size, has left in the arrays or cut off shows.
\* Recvmmsg then never cuts a slice beyond its buffer, however long the packets
\* sent before; only an empty packet in the caller's own list is a panic.
BatchIsOwn ==
  ~overlap =>
    \A c \in Callers :
      /\ pc[c] = "called" \/ (pc[c] = "done" /\ op[c] \in {"Sendmmsg", "Sendmmsg2"})
           => used[c] = Asked(c)
      /\ pc[c] = "done" /\ op[c] = "Recvmmsg"
           => SubSeq(bufs[c], 1, Len(lens[c])) = lens[c]
      /\ pc[c] = "panic" => op[c] # "Recvmmsg" /\ Empty(c)

\* As long as no two calls overlap, an interface filters on its own port, for
\* IPv4 and for IPv6, however many others were opened before and after.
FilterIsOwn ==
  ~overlap => \A c \in Callers : attached[c] \in {<<>>, <<c, c>>}

===============================================================================
