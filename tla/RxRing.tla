-------------------------------- MODULE RxRing --------------------------------
(***************************************************************************)
(* The receive ring of a ZSocket: the kernel fills slots and hands them    *)
(* over, Listen passes their packets to its callback and hands the slots   *)
(* back.  With TPACKET_V3 a slot is a block of packets (listenV3,          *)
(* walkBlock), with TPACKET_V1 a frame with one packet (listenV1).         *)
(*                                                                         *)
(* A packet is the number of its arrival; the callback is zsockIf.Listen's *)
(* and passes on those that are UDP to the client's port, whole.           *)
(***************************************************************************)
EXTENDS Integers, Sequences, FiniteSets

CONSTANTS
  Slots,        \* number of slots: zs.numBlocks or zs.frameNum
  BlockMax,     \* most packets in a block
  Wanted,       \* the packets the callback passes on
  MaxPackets    \* bound on the packets that arrive

ASSUME RxAssumption ==
  /\ Slots \in Nat \ {0} /\ BlockMax \in Nat \ {0}
  /\ MaxPackets \in Nat

Index == 0 .. Slots - 1
Capacity(v) == IF v = 3 THEN BlockMax ELSE 1

VARIABLES
  version,      \* zs.version: 3, or 1 where the kernel refuses it
  status,       \* block_status or tp_status of each slot
  pkts,         \* the packets in each slot
  head,         \* the slot the kernel is at
  open,         \* whether the kernel is filling it
  arrived,      \* number of packets that have arrived
  dropped,      \* history: those the kernel found no room for
  pc,           \* Listen's program counter
  bd,           \* bdIndex or rxIndex
  i,            \* packets of the slot already walked
  passed        \* history: what the callback has passed on

ringVars == <<status, pkts>>
kernelVars == <<head, open, arrived, dropped>>
userVars == <<pc, bd, i, passed>>
rxRingVars == <<version, ringVars, kernelVars, userVars>>

RxInit ==
  /\ version \in {1, 3}
  /\ status = [b \in Index |-> "kernel"] /\ pkts = [b \in Index |-> <<>>]
  /\ head = 0 /\ open = FALSE /\ arrived = 0 /\ dropped = {}
  /\ pc = "idle" /\ bd = 0 /\ i = 0 /\ passed = <<>>

\* Mutant: the ring does not wrap.
AfterNoWrap(b) == b + 1
After(b) == (b + 1) % Slots

-------------------------------------------------------------------------------
(* The kernel *)

\* A packet is put in the kernel's slot ...
Put ==
  /\ arrived < MaxPackets /\ arrived' = arrived + 1
  /\ status[head] = "kernel"
  /\ open => Len(pkts[head]) < Capacity(version)
  /\ pkts' = [pkts EXCEPT ![head] = IF open THEN Append(@, arrived') ELSE <<arrived'>>]
  /\ open' = TRUE
  /\ UNCHANGED <<version, status, head, dropped, userVars>>

\* ... or dropped when Listen has not handed that slot back.
Drop ==
  /\ arrived < MaxPackets /\ arrived' = arrived + 1
  /\ status[head] = "user"
  /\ dropped' = dropped \cup {arrived'}
  /\ UNCHANGED <<version, ringVars, head, open, userVars>>

\* A slot that is full, or old enough, is handed over.
Retire ==
  /\ open
  /\ status' = [status EXCEPT ![head] = "user"]
  /\ head' = After(head) /\ open' = FALSE
  /\ UNCHANGED <<version, pkts, arrived, dropped, userVars>>

-------------------------------------------------------------------------------
(* Listen *)

Listen ==
  /\ pc = "idle" /\ pc' = "top"
  /\ UNCHANGED <<version, ringVars, kernelVars, bd, i, passed>>

\* TP_STATUS_USER is set: walk the slot.
Enter ==
  /\ pc = "top" /\ status[bd] = "user"
  /\ i' = 0 /\ pc' = "walk"
  /\ UNCHANGED <<version, ringVars, kernelVars, bd, passed>>

\* The callback's filter: IPv4, UDP, the client's port, nothing cut off.
PassOn(p) == passed' = IF p \in Wanted THEN Append(passed, p) ELSE passed

\* The callback, on the next packet of the slot.
Callback ==
  /\ pc = "walk" /\ i < Len(pkts[bd])
  /\ PassOn(pkts[bd][i + 1])
  /\ i' = i + 1
  /\ UNCHANGED <<version, ringVars, kernelVars, pc, bd>>

\* Mutants: the slot goes back before its last packet, or bdIndex stays.
LeaveEarly ==
  /\ pc = "walk" /\ i = Len(pkts[bd]) - 1
  /\ status' = [status EXCEPT ![bd] = "kernel"]
  /\ bd' = After(bd) /\ i' = 0 /\ pc' = "top"
  /\ UNCHANGED <<version, pkts, kernelVars, passed>>
LeaveStay ==
  /\ pc = "walk" /\ i = Len(pkts[bd])
  /\ status' = [status EXCEPT ![bd] = "kernel"]
  /\ i' = 0 /\ pc' = "top"
  /\ UNCHANGED <<version, pkts, kernelVars, bd, passed>>

\* Behind the last packet the slot goes back to the kernel.
Leave ==
  /\ pc = "walk" /\ i = Len(pkts[bd])
  /\ status' = [status EXCEPT ![bd] = "kernel"]
  /\ bd' = After(bd) /\ i' = 0 /\ pc' = "top"
  /\ UNCHANGED <<version, pkts, kernelVars, passed>>

Poll ==
  /\ pc = "top" /\ status[bd] # "user"
  /\ pc' = "poll"
  /\ UNCHANGED <<version, ringVars, kernelVars, bd, i, passed>>

\* Mutant: Poll waits for the slot behind.
PollReturnLate ==
  /\ pc = "poll" /\ status[After(bd)] = "user"
  /\ pc' = "top"
  /\ UNCHANGED <<version, ringVars, kernelVars, bd, i, passed>>

\* Poll returns: after its timeout with V3, without one only when the kernel
\* has handed over a slot.
PollReturn ==
  /\ pc = "poll"
  /\ version = 3 \/ \E b \in Index : status[b] = "user"
  /\ pc' = "top"
  /\ UNCHANGED <<version, ringVars, kernelVars, bd, i, passed>>

\* Poll fails, as when a signal interrupts it, and Listen returns for good.
PollError ==
  /\ pc = "poll" /\ pc' = "returned"
  /\ UNCHANGED <<version, ringVars, kernelVars, bd, i, passed>>

Listener == Enter \/ Callback \/ Leave \/ Poll \/ PollReturn

RxNext == Put \/ Drop \/ Retire \/ Listen \/ Listener \/ PollError

RxSpec == RxInit /\ [][RxNext]_rxRingVars

-------------------------------------------------------------------------------
(* Properties *)

\* Type correctness of the ring.
RxTypeOK ==
  /\ status \in [Index -> {"kernel", "user"}]
  /\ \A b \in Index : pkts[b] \in Seq(1 .. arrived) /\ Len(pkts[b]) <= Capacity(version)
  /\ head \in Index /\ bd \in Index /\ open \in BOOLEAN
  /\ dropped \subseteq 1 .. arrived
  /\ pc \in {"idle", "top", "walk", "poll", "returned"} /\ i \in 0 .. BlockMax

\* The packets of slot b that Listen has still to see.
Unseen(b) ==
  LET s == pkts[b]
      from == IF b = bd /\ pc = "walk" THEN i + 1 ELSE 1
  IN IF status[b] = "user" \/ (b = head /\ open)
       THEN {s[k] : k \in from .. Len(s)} ELSE {}

\* The packets pass in the order of their arrival and each once; one that is
\* wanted and was not dropped has passed or is still in a slot, whoever of
\* kernel and Listen is ahead in the ring.
RingLosesNothing ==
  /\ \A k \in 1 .. Len(passed) - 1 : passed[k] < passed[k + 1]
  /\ {passed[k] : k \in 1 .. Len(passed)}
       = (1 .. arrived \cap Wanted) \ (dropped \cup UNION {Unseen(b) : b \in Index})

\* The kernel drops a packet only when every slot waits for Listen.
DropsOnlyWhenFull == [][Drop => \A b \in Index : status[b] = "user"]_rxRingVars

===============================================================================
