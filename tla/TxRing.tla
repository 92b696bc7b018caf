-------------------------------- MODULE TxRing --------------------------------
(***************************************************************************)
(* The transmit ring of a ZSocket, shared with the kernel: writers copy    *)
(* frames into it (CopyToBuffer, getFreeTx) and flush them (FlushFrames),  *)
(* as zsockIf.MSend does; Send is an MSend of one frame.                   *)
(*                                                                         *)
(* An action is one access to an atomic, to a frame's status or to the     *)
(* kernel.  A frame's payload is the number of its write.                  *)
(***************************************************************************)
EXTENDS Integers, Sequences, FiniteSets

CONSTANTS
  Writers,      \* goroutines that send
  N,            \* zs.frameNum
  MaxBatch,     \* most frames of one MSend
  MaxWrites     \* bound on the frames written in a run

ASSUME TxAssumption ==
  /\ N \in Nat \ {0} /\ MaxBatch \in Nat \ {0} /\ MaxWrites \in Nat

Frames == 0 .. N - 1

VARIABLES
  txIndex,         \* zs.txIndex: next frame to claim
  txWritten,       \* zs.txWritten: frames written and not flushed
  txWrittenIndex,  \* zs.txWrittenIndex: the first of them, or -1
  status,          \* tp_status of each frame
  mb,              \* mb of each frame
  data,            \* payload of each frame, 0 before the first write
  head,            \* the kernel's position in the ring
  taken,           \* history: payloads the kernel has taken, in order
  wrote,           \* history: number of frames written
  failed,          \* history: a system call has failed, or Sendto left frames over
  pc,              \* each writer's program counter
  left,            \* frames left to copy in its MSend
  n,               \* frames copied: MSend's n
  tx,              \* the frame it has claimed
  from,            \* FlushFrames' index
  cnt              \* FlushFrames' written; FlushFrames' w in its first loop

indexVars == <<txIndex, txWritten, txWrittenIndex>>
frameVars == <<status, mb, data>>
kernelVars == <<head, taken>>
histVars == <<wrote, failed>>
localVars == <<left, n, tx, from, cnt>>
txVars == <<indexVars, frameVars, kernelVars, histVars, pc, localVars>>

TxInit ==
  /\ txIndex = 0 /\ txWritten = 0 /\ txWrittenIndex = -1
  /\ status = [f \in Frames |-> "available"] /\ mb = [f \in Frames |-> 0]
  /\ data = [f \in Frames |-> 0]
  /\ head = 0 /\ taken = <<>> /\ wrote = 0 /\ failed = FALSE
  /\ pc = [w \in Writers |-> "idle"] /\ left = [w \in Writers |-> 0]
  /\ n = [w \in Writers |-> 0]
  /\ tx = [w \in Writers |-> 0] /\ from = [w \in Writers |-> 0]
  /\ cnt = [w \in Writers |-> 0]

Plus(f, k) == (f + k) % N

Goto(w, l) == pc' = [pc EXCEPT ![w] = l]

-------------------------------------------------------------------------------
(* MSend, CopyToBuffer and getFreeTx *)

MSend(w) ==
  /\ pc[w] = "idle"
  /\ \E k \in 1 .. MaxBatch : wrote + k <= MaxWrites /\ left' = [left EXCEPT ![w] = k]
  /\ n' = [n EXCEPT ![w] = 0]
  /\ Goto(w, "full")
  /\ UNCHANGED <<indexVars, frameVars, kernelVars, histVars, tx, from, cnt>>

\* A frame could not be copied: MSend flushes those before it, if any.
Break(w) == IF n[w] > 0 THEN "flush" ELSE "idle"

\* Mutant: a full ring is not noticed.
CheckNothing(w) ==
  /\ pc[w] = "full" /\ Goto(w, "claim")
  /\ UNCHANGED <<indexVars, frameVars, kernelVars, histVars, localVars>>

\* The ring may be full.
CheckFull(w) ==
  /\ pc[w] = "full"
  /\ Goto(w, IF txWritten = N THEN Break(w) ELSE "claim")
  /\ UNCHANGED <<indexVars, frameVars, kernelVars, histVars, localVars>>

\* Mutant: zs.txIndex does not wrap.
ClaimNoWrap(w) ==
  /\ pc[w] = "claim"
  /\ tx' = [tx EXCEPT ![w] = txIndex] /\ txIndex' = txIndex + 1
  /\ Goto(w, "ready")
  /\ UNCHANGED <<txWritten, txWrittenIndex, frameVars, kernelVars, histVars, left, n, from, cnt>>

\* The CompareAndSwap on zs.txIndex succeeds.
Claim(w) ==
  /\ pc[w] = "claim"
  /\ tx' = [tx EXCEPT ![w] = txIndex] /\ txIndex' = Plus(txIndex, 1)
  /\ Goto(w, "ready")
  /\ UNCHANGED <<txWritten, txWrittenIndex, frameVars, kernelVars, histVars, left, n, from, cnt>>

\* Mutant: the status is not looked at.
ReadyAlways(w) ==
  /\ pc[w] = "ready" /\ Goto(w, "mb")
  /\ UNCHANGED <<indexVars, frameVars, kernelVars, histVars, localVars>>

\* txReady; otherwise Poll blocks until the kernel is done with a frame.
Ready(w) ==
  /\ pc[w] = "ready" /\ status[tx[w]] \notin {"request", "sending"}
  /\ Goto(w, "mb")
  /\ UNCHANGED <<indexVars, frameVars, kernelVars, histVars, localVars>>

\* Poll fails, as when a signal interrupts it: the frame claimed is given up.
PollError(w) ==
  /\ pc[w] = "ready" /\ status[tx[w]] \in {"request", "sending"}
  /\ Goto(w, Break(w)) /\ failed' = TRUE
  /\ UNCHANGED <<indexVars, frameVars, kernelVars, wrote, localVars>>

\* txMBReady, then copyFx and the lengths.
Fill(w) ==
  /\ pc[w] = "mb" /\ mb[tx[w]] = 0
  /\ mb' = [mb EXCEPT ![tx[w]] = 1]
  /\ wrote' = wrote + 1 /\ data' = [data EXCEPT ![tx[w]] = wrote']
  /\ Goto(w, "count")
  /\ UNCHANGED <<indexVars, status, kernelVars, failed, localVars>>

Count(w) ==
  /\ pc[w] = "count"
  /\ txWritten' = txWritten + 1
  /\ left' = [left EXCEPT ![w] = @ - 1] /\ n' = [n EXCEPT ![w] = @ + 1]
  /\ Goto(w, IF txWritten' = 1 THEN "index" ELSE IF left'[w] = 0 THEN "flush" ELSE "full")
  /\ UNCHANGED <<txIndex, txWrittenIndex, frameVars, kernelVars, histVars, tx, from, cnt>>

Index(w) ==
  /\ pc[w] = "index"
  /\ txWrittenIndex' = tx[w]
  /\ Goto(w, IF left[w] = 0 THEN "flush" ELSE "full")
  /\ UNCHANGED <<txIndex, txWritten, frameVars, kernelVars, histVars, localVars>>

-------------------------------------------------------------------------------
(* FlushFrames *)

FlushTake(w) ==
  /\ pc[w] = "flush"
  /\ IF txWrittenIndex = -1
       THEN Goto(w, "idle") /\ UNCHANGED <<txWrittenIndex, from>>
       ELSE /\ from' = [from EXCEPT ![w] = txWrittenIndex]
            /\ txWrittenIndex' = -1
            /\ Goto(w, "swap")
  /\ UNCHANGED <<txIndex, txWritten, frameVars, kernelVars, histVars, left, n, tx, cnt>>

\* Mutant: zs.txWritten is read but not reset.
FlushLoad(w) ==
  /\ pc[w] = "swap"
  /\ cnt' = [cnt EXCEPT ![w] = txWritten]
  /\ Goto(w, "set")
  /\ UNCHANGED <<indexVars, frameVars, kernelVars, histVars, left, n, tx, from>>

FlushSwap(w) ==
  /\ pc[w] = "swap"
  /\ cnt' = [cnt EXCEPT ![w] = txWritten] /\ txWritten' = 0
  /\ Goto(w, "set")
  /\ UNCHANGED <<txIndex, txWrittenIndex, frameVars, kernelVars, histVars, left, n, tx, from>>

\* Mutant: one frame too many.
FlushedMore(w) == {Plus(from[w], i) : i \in 0 .. cnt[w]}

\* The frames a flush of w covers.
Flushed(w) == {Plus(from[w], i) : i \in 0 .. cnt[w] - 1}

\* txSet on each of them.
FlushSet(w) ==
  /\ pc[w] = "set"
  /\ status' = [f \in Frames |-> IF f \in Flushed(w) THEN "request" ELSE status[f]]
  /\ Goto(w, "sendto")
  /\ UNCHANGED <<indexVars, mb, data, kernelVars, histVars, localVars>>

\* The kernel takes k requested frames from its position on.  A frame it refuses
\* is marked, and it goes no further: PACKET_LOSS is off.
Take(k, refused) ==
  LET run == {Plus(head, i) : i \in 0 .. k - 1}
  IN /\ refused \subseteq {Plus(head, k)} \ run
     /\ \A f \in run \cup refused : status[f] = "request"
     /\ status' = [f \in Frames |-> IF f \in run THEN "sending"
                                    ELSE IF f \in refused THEN "wrong" ELSE status[f]]
     /\ taken' = taken \o [i \in 1 .. k |-> data[Plus(head, i - 1)]]
     /\ head' = Plus(head, k)

\* A requested frame is next.
Unsent(k) == k < N /\ status[Plus(head, k)] = "request"

\* Sendto: the kernel takes every requested frame, up to one that is not.
Sendto(w) ==
  /\ pc[w] = "sendto"
  /\ \E k \in 0 .. N : Take(k, {}) /\ ~Unsent(k)
  /\ Goto(w, "clear")
  /\ UNCHANGED <<indexVars, mb, data, histVars, localVars>>

\* The kernel leaves requested frames over, for a signal or want of memory: its
\* count is not looked at, and EAGAIN is no error to Sendto.
SendtoShort(w) ==
  /\ pc[w] = "sendto"
  /\ \E k \in 0 .. N : Unsent(k) /\ Take(k, {})
  /\ Goto(w, "clear") /\ failed' = TRUE
  /\ UNCHANGED <<indexVars, mb, data, wrote, localVars>>

\* Sendto fails after some of the frames, as at one the kernel refuses, and
\* FlushFrames returns.
SendtoError(w) ==
  /\ pc[w] = "sendto"
  /\ \E k \in 0 .. N : \E refused \in SUBSET {Plus(head, k)} : Take(k, refused)
  /\ Goto(w, "idle") /\ failed' = TRUE
  /\ UNCHANGED <<indexVars, mb, data, wrote, localVars>>

\* The frames are counted, and txSetMB frees each; none is marked as wrong, as
\* Sendto has then failed.
FlushClear(w) ==
  /\ pc[w] = "clear"
  /\ mb' = [f \in Frames |-> IF f \in Flushed(w) THEN 0 ELSE mb[f]]
  /\ Goto(w, "idle")
  /\ UNCHANGED <<indexVars, status, data, kernelVars, histVars, localVars>>

\* The kernel has sent a frame.
Complete(f) ==
  /\ status[f] = "sending"
  /\ status' = [status EXCEPT ![f] = "available"]
  /\ UNCHANGED <<indexVars, mb, data, kernelVars, histVars, pc, localVars>>

Sending(w) ==
  \/ CheckFull(w) \/ Claim(w) \/ Ready(w) \/ Fill(w) \/ Count(w) \/ Index(w)
  \/ FlushTake(w) \/ FlushSwap(w) \/ FlushSet(w) \/ Sendto(w) \/ FlushClear(w)

Failing(w) == PollError(w) \/ SendtoShort(w) \/ SendtoError(w)

TxNext == (\E w \in Writers : MSend(w) \/ Sending(w) \/ Failing(w)) \/ \E f \in Frames : Complete(f)

TxSpec == TxInit /\ [][TxNext]_txVars

\* A writer in the middle of an MSend goes on when it can, and the kernel sends
\* what it has taken.  No call has to fail.
TxFairness == /\ \A w \in Writers : WF_txVars(Sending(w))
              /\ \A f \in Frames : WF_txVars(Complete(f))

TxFairSpec == TxSpec /\ TxFairness

-------------------------------------------------------------------------------
(* Properties *)

\* Type correctness of the ring.
TxTypeOK ==
  /\ txIndex \in Frames /\ txWritten \in 0 .. N /\ txWrittenIndex \in Frames \cup {-1}
  /\ status \in [Frames -> {"available", "request", "sending", "wrong"}]
  /\ mb \in [Frames -> {0, 1}] /\ data \in [Frames -> 0 .. wrote]
  /\ head \in Frames /\ taken \in Seq(Nat)

\* copyFx never writes to a frame that waits for the kernel or that the kernel
\* is sending, not even after Sendto or Poll has failed half way.
NoOverwrite ==
  [][\A f \in Frames :
       data'[f] # data[f] => status[f] \notin {"request", "sending"}]_txVars

\* Until a call fails or leaves frames over, the kernel takes the frames written,
\* each once, in the order of the writes, however often the ring wraps round;
\* those not taken yet are still in it.
TakenInOrder ==
  ~failed => /\ taken = [i \in 1 .. Len(taken) |-> i]
             /\ \A j \in Len(taken) + 1 .. wrote : data[Plus(j - 1, 0)] = j

AllIdle == \A w \in Writers : pc[w] = "idle"

\* An MSend that ends without a failed call leaves nothing behind: the kernel
\* has every frame written, and every frame may be claimed again.
FlushComplete ==
  ~failed /\ AllIdle => Len(taken) = wrote /\ txWritten = 0 /\ \A f \in Frames : mb[f] = 0

\* The frame w has claimed was written in a flush that failed: Poll waits for
\* the kernel to send it, or getFreeTx spins on its mb, which no flush clears.
Stuck(w) == \/ pc[w] = "ready" /\ status[tx[w]] = "request"
            \/ pc[w] = "mb" /\ mb[tx[w]] = 1

\* With one goroutine that sends, every MSend returns, however many frames it is
\* given and however full the ring is, until a call has failed; after that it
\* returns, too, unless it comes upon a frame a failed flush has left behind.
SendReturns == \A w \in Writers : pc[w] # "idle" ~> pc[w] = "idle" \/ (failed /\ Stuck(w))

\* "FlushFrames tells the kernel to flush all packets written to the TX ring
\* buffer": with every writer idle again, and no failed call, none is left.
FlushesAll == ~failed /\ AllIdle => Len(taken) = wrote

===============================================================================
