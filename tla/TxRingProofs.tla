----------------------------- MODULE TxRingProofs -----------------------------
(***************************************************************************)
(* Proofs about TxRing, for a ring of any size and batches of any length:  *)
(* with one goroutine that sends, the ring keeps its types, copyFx never   *)
(* touches a frame the kernel may be reading, and, until a call fails, the *)
(* kernel takes every frame once, in the order of the writes.              *)
(***************************************************************************)
EXTENDS TxRing, SequenceTheorems, TLAPS

-------------------------------------------------------------------------------
(* The inductive invariant *)

Labels == {"idle", "full", "claim", "ready", "mb", "count", "index", "flush", "swap",
           "set", "sendto", "clear"}

\* Between the check of the ring and the count of the new frame there is room
\* for it; a frame found ready stays so, for only the writer itself flushes.
TxInv ==
  /\ TxTypeOK /\ wrote \in Nat
  /\ pc \in [Writers -> Labels] /\ tx \in [Writers -> Frames]
  /\ \A w \in Writers :
       /\ pc[w] \in {"claim", "ready", "mb", "count"} => txWritten < N
       /\ pc[w] = "mb" => status[tx[w]] \notin {"request", "sending"}

\* Positions wrap round within the ring.
LEMMA PlusType ==
  ASSUME NEW f \in Nat, NEW k \in Nat
  PROVE  Plus(f, k) \in Frames
BY TxAssumption DEF Plus, Frames

\* NewZSocket leaves an empty ring.
LEMMA TxInitInv == TxInit => TxInv
BY TxAssumption DEF TxInit, TxInv, TxTypeOK, Frames, Labels

\* What the kernel takes keeps the types.
LEMMA TakeType ==
  ASSUME TxTypeOK, wrote \in Nat, NEW k \in 0 .. N, NEW bad, Take(k, bad)
  PROVE  /\ status' \in [Frames -> {"available", "request", "sending", "wrong"}]
         /\ taken' \in Seq(Nat) /\ head' \in Frames
<1>1. k \in Nat /\ head \in Nat
  BY TxAssumption DEF TxTypeOK, Frames
<1>2. status' \in [Frames -> {"available", "request", "sending", "wrong"}]
  BY Zenon DEF Take, TxTypeOK
<1>3. head' \in Frames
  BY <1>1, PlusType, Zenon DEF Take
<1>4. [i \in 1 .. k |-> data[Plus(head, i - 1)]] \in Seq(Nat)
  <2>1. \A i \in 1 .. k : Plus(head, i - 1) \in Frames
    BY <1>1, PlusType
  <2>2. \A i \in 1 .. k : data[Plus(head, i - 1)] \in Nat
    BY <2>1 DEF TxTypeOK
  <2> QED
    BY <1>1, <2>2
<1>5. taken' \in Seq(Nat)
  BY <1>4, ConcatProperties DEF Take, TxTypeOK
<1> QED
  BY <1>2, <1>3, <1>5

\* Every step keeps the invariant, as long as one goroutine sends.
LEMMA TxNextInv ==
  ASSUME NEW w, Writers = {w}, TxInv, [TxNext]_txVars
  PROVE  TxInv'
<1> USE TxAssumption DEF indexVars, frameVars, kernelVars, histVars, localVars, Goto
<1>1. CASE MSend(w) \/ CheckFull(w)
  BY <1>1 DEF MSend, CheckFull, Break, TxInv, TxTypeOK, Labels
<1>2. CASE Claim(w)
  <2>1. Plus(txIndex, 1) \in Frames
    <3>1. txIndex \in Nat
      BY DEF TxInv, TxTypeOK, Frames
    <3> QED
      BY <3>1, PlusType
  <2> QED
    BY <1>2, <2>1 DEF Claim, TxInv, TxTypeOK, Labels
<1>3. CASE Ready(w) \/ PollError(w)
  BY <1>3 DEF Ready, PollError, Break, TxInv, TxTypeOK, Labels
<1>4. CASE Fill(w)
  BY <1>4 DEF Fill, TxInv, TxTypeOK, Labels
<1>5. CASE Count(w)
  BY <1>5 DEF Count, TxInv, TxTypeOK, Labels
<1>6. CASE Index(w) \/ FlushTake(w) \/ FlushSwap(w)
  BY <1>6 DEF Index, FlushTake, FlushSwap, TxInv, TxTypeOK, Labels
<1>7. CASE FlushSet(w) \/ FlushClear(w)
  BY <1>7 DEF FlushSet, FlushClear, TxInv, TxTypeOK, Labels
<1>8. CASE Sendto(w) \/ SendtoShort(w) \/ SendtoError(w)
  <2>1. /\ status' \in [Frames -> {"available", "request", "sending", "wrong"}]
        /\ taken' \in Seq(Nat) /\ head' \in Frames
    BY <1>8, TakeType, Zenon DEF Sendto, SendtoShort, SendtoError, TxInv
  <2>2. /\ UNCHANGED <<txIndex, txWritten, txWrittenIndex, mb, data, wrote, tx>>
        /\ pc' \in [Writers -> Labels] /\ pc'[w] \in {"clear", "idle"}
    BY <1>8 DEF Sendto, SendtoShort, SendtoError, TxInv, Labels
  <2> QED
    BY <2>1, <2>2 DEF TxInv, TxTypeOK
<1>9. CASE \E f \in Frames : Complete(f)
  BY <1>9 DEF Complete, TxInv, TxTypeOK
<1>10. CASE UNCHANGED txVars
  BY <1>10 DEF txVars, TxInv, TxTypeOK
<1> QED
  BY <1>1, <1>2, <1>3, <1>4, <1>5, <1>6, <1>7, <1>8, <1>9, <1>10, Zenon DEF TxNext, Sending, Failing

-------------------------------------------------------------------------------
(* The order of the frames: an invariant of runs without a failed call *)

\* The frame of the write after j others.
At(j) == j % N

\* The kernel has taken the first Len(taken) writes, and the others are in
\* their frames.
Untaken ==
  /\ taken = [i \in 1 .. Len(taken) |-> i]
  /\ Len(taken) <= wrote /\ head = At(Len(taken))
  /\ \A j \in Len(taken) .. wrote - 1 : data[At(j)] = j + 1

\* How many frames are neither taken nor counted, at each step of w's MSend.
Counters(w) ==
  /\ pc[w] \in {"idle", "full", "claim", "ready", "mb", "index", "flush", "swap"}
       => wrote = Len(taken) + txWritten
  /\ pc[w] = "count" => wrote = Len(taken) + txWritten + 1
  /\ pc[w] \in {"set", "sendto"} => txWritten = 0 /\ wrote = Len(taken) + cnt[w]
  /\ pc[w] = "clear" => txWritten = 0 /\ wrote = Len(taken) /\ cnt[w] <= wrote
  /\ pc[w] \in {"set", "sendto", "clear"} => cnt[w] <= N
  /\ pc[w] = "idle" => txWritten = 0
  /\ pc[w] \in {"full", "claim", "ready", "mb", "count", "index"} => n[w] = txWritten
  /\ pc[w] = "index" => txWritten = 1
  /\ pc[w] = "flush" => txWritten > 0

\* Where the indices point.
Places(w) ==
  /\ txIndex = At(IF pc[w] \in {"ready", "mb"} THEN wrote + 1 ELSE wrote)
  /\ pc[w] \in {"ready", "mb"} => tx[w] = At(wrote)
  /\ pc[w] \in {"count", "index"} => tx[w] = At(wrote - 1)
  /\ pc[w] \in {"full", "claim", "ready", "mb", "count", "flush"} /\ txWritten > 0
       => txWrittenIndex = At(Len(taken))
  /\ pc[w] \in {"swap", "set", "sendto"} => from[w] = At(Len(taken))
  /\ pc[w] = "clear" => from[w] = At(wrote - cnt[w])

\* Frames wait for the kernel between txSet and Sendto only.
Requested(w) ==
  /\ \A f \in Frames : status[f] = "request" => pc[w] = "sendto" /\ f \in Flushed(w)
  /\ pc[w] = "sendto" => \A f \in Flushed(w) : status[f] = "request"

\* The writes whose frames txSetMB has still to free.
Kept(w) == (IF pc[w] = "clear" THEN wrote - cnt[w] ELSE Len(taken)) .. wrote - 1
Marked(w) == \A f \in Frames : mb[f] # 0 => \E j \in Kept(w) : f = At(j)

TxOrder(w) == Untaken /\ Counters(w) /\ Places(w) /\ Requested(w) /\ Marked(w)

LocalTypes ==
  n \in [Writers -> Nat] /\ from \in [Writers -> Frames] /\ cnt \in [Writers -> Nat]

OrderInv(w) == TxInv /\ LocalTypes /\ (~failed => TxOrder(w))

\* Division with remainder.
LEMMA Division ==
  \A a \in Nat : /\ a \div N \in Nat /\ At(a) \in Frames
                 /\ a = N * (a \div N) + At(a)
BY TxAssumption, SMTT(30) DEF At, Frames

\* Multiples of N are at least N apart.
LEMMA MultiplesApart ==
  ASSUME NEW q \in Int, NEW p \in Int, q > p
  PROVE  N * q >= N * p + N
<1> DEFINE d == q - p - 1
<1>1. d \in Nat /\ q = p + 1 + d
  OBVIOUS
<1>2. N * d \in Nat
  BY <1>1, TxAssumption
<1>3. N * (p + 1 + d) = N * p + N + N * d
  BY <1>1, TxAssumption
<1> QED
  BY <1>1, <1>2, <1>3, TxAssumption

\* Fewer than N writes in succession go to different frames.
LEMMA WritesApart ==
  ASSUME NEW a \in Nat, NEW b \in Nat, a < b, b < a + N
  PROVE  At(a) # At(b)
<1> DEFINE q == a \div N
           p == b \div N
<1>1. /\ q \in Int /\ p \in Int /\ a = N * q + At(a) /\ b = N * p + At(b)
      /\ At(a) \in Frames /\ At(b) \in Frames
  BY Division
<1>2. (p > q => N * p >= N * q + N) /\ (q > p => N * q >= N * p + N)
  BY <1>1, MultiplesApart
<1>3. N * p \in Int /\ N * q \in Int
  BY <1>1, TxAssumption
<1> HIDE DEF q, p
<1> QED
  BY <1>1, <1>2, <1>3, TxAssumption DEF Frames

\* There is one remainder.
LEMMA OneRemainder ==
  ASSUME NEW a \in Nat, NEW q \in Int, NEW r \in Frames, a = N * q + r
  PROVE  At(a) = r
<1> DEFINE p == a \div N
<1>1. p \in Int /\ a = N * p + At(a) /\ At(a) \in Frames
  BY Division
<1>2. (p > q => N * p >= N * q + N) /\ (q > p => N * q >= N * p + N)
  BY <1>1, MultiplesApart
<1>3. N * p \in Int /\ N * q \in Int
  BY <1>1, TxAssumption
<1> HIDE DEF p
<1> QED
  BY <1>1, <1>2, <1>3, TxAssumption DEF Frames

\* k frames on from the frame of a write is the frame of the write k later.
LEMMA PlusAt ==
  ASSUME NEW a \in Nat, NEW k \in Nat
  PROVE  Plus(At(a), k) = At(a + k)
<1> DEFINE q == a \div N
           c == At(a) + k
           p == c \div N
<1>1. q \in Nat /\ a = N * q + At(a) /\ At(a) \in Frames
  BY Division
<1>2. c \in Nat
  BY <1>1, TxAssumption DEF Frames
<1>3. p \in Nat /\ c = N * p + At(c) /\ At(c) \in Frames
  BY <1>2, Division
<1>4. N * (q + p) = N * q + N * p
  <2>1. \A x, y \in Nat : N * (x + y) = N * x + N * y
    BY TxAssumption
  <2> HIDE DEF q, p
  <2> QED
    BY <1>1, <1>3, <2>1, Zenon
<1>5. N * q \in Int /\ N * p \in Int /\ q + p \in Int /\ At(a) \in Int /\ At(c) \in Int
  BY <1>1, <1>3, TxAssumption DEF Frames
<1>6. a + k = N * (q + p) + At(c)
  <2> HIDE DEF q, p
  <2> QED
    BY <1>1, <1>3, <1>4, <1>5
<1>7. At(a + k) = At(c)
  <2> HIDE DEF q, p, c
  <2> QED
    BY <1>3, <1>5, <1>6, OneRemainder
<1> QED
  BY <1>7 DEF Plus, At

\* A flush of k writes after a covers their frames.
LEMMA FlushedAre ==
  ASSUME NEW w, NEW a \in Nat, from[w] = At(a), cnt[w] \in Nat
  PROVE  /\ \A j \in a .. a + cnt[w] - 1 : At(j) \in Flushed(w)
         /\ \A f \in Flushed(w) : \E j \in a .. a + cnt[w] - 1 : f = At(j)
<1>1. ASSUME NEW j \in a .. a + cnt[w] - 1 PROVE At(j) \in Flushed(w)
  <2>1. j - a \in 0 .. cnt[w] - 1 /\ j - a \in Nat /\ a + (j - a) = j
    OBVIOUS
  <2>2. At(j) = Plus(from[w], j - a)
    BY <2>1, PlusAt
  <2> QED
    BY <2>1, <2>2 DEF Flushed
<1>2. ASSUME NEW f \in Flushed(w) PROVE \E j \in a .. a + cnt[w] - 1 : f = At(j)
  <2>1. PICK i \in 0 .. cnt[w] - 1 : f = Plus(from[w], i)
    BY DEF Flushed
  <2>2. i \in Nat /\ a + i \in a .. a + cnt[w] - 1
    OBVIOUS
  <2>3. f = At(a + i)
    BY <2>1, <2>2, PlusAt
  <2> QED
    BY <2>2, <2>3
<1> QED
  BY <1>1, <1>2

\* A ring without frames, and a writer that has not begun.
LEMMA OrderInit ==
  ASSUME NEW w, Writers = {w}, TxInit
  PROVE  OrderInv(w)
<1>1. TxInv
  BY TxInitInv
<1>2. LocalTypes
  BY TxAssumption DEF TxInit, LocalTypes, Frames
<1>3. At(0) = 0
  BY OneRemainder, TxAssumption DEF Frames
<1>4. Len(taken) = 0 /\ wrote = 0 /\ txWritten = 0 /\ pc[w] = "idle" /\ taken = <<>>
  BY DEF TxInit
<1>5. Untaken
  BY <1>3, <1>4 DEF Untaken, TxInit
<1>6. Counters(w)
  BY <1>4 DEF Counters
<1>7. Places(w)
  BY <1>3, <1>4 DEF Places, TxInit
<1>8. Requested(w) /\ Marked(w)
  BY <1>4 DEF Requested, Marked, TxInit
<1> QED
  BY <1>1, <1>2, <1>5, <1>6, <1>7, <1>8 DEF OrderInv, TxOrder

\* The local variables keep their types.
LEMMA LocalStep ==
  ASSUME NEW w, Writers = {w}, TxInv, LocalTypes, [TxNext]_txVars
  PROVE  LocalTypes'
<1> USE DEF indexVars, frameVars, kernelVars, histVars, localVars, TxInv, TxTypeOK, LocalTypes
<1>1. CASE MSend(w) \/ CheckFull(w) \/ Claim(w) \/ Ready(w) \/ PollError(w) \/ Fill(w)
  BY <1>1 DEF MSend, CheckFull, Claim, Ready, PollError, Fill
<1>2. CASE Count(w) \/ Index(w)
  BY <1>2 DEF Count, Index
<1>3. CASE FlushTake(w) \/ FlushSwap(w)
  BY <1>3, TxAssumption DEF FlushTake, FlushSwap
<1>4. CASE FlushSet(w) \/ Sendto(w) \/ SendtoShort(w) \/ SendtoError(w) \/ FlushClear(w)
  BY <1>4 DEF FlushSet, Sendto, SendtoShort, SendtoError, FlushClear
<1>5. CASE \E f \in Frames : Complete(f)
  BY <1>5 DEF Complete
<1>6. CASE UNCHANGED txVars
  BY <1>6 DEF txVars
<1> QED
  BY <1>1, <1>2, <1>3, <1>4, <1>5, <1>6, Zenon DEF TxNext, Sending, Failing

\* The numbers the steps below reason with.
NumberTypes(w) ==
  /\ Len(taken) \in Nat /\ wrote \in Nat /\ txWritten \in 0 .. N /\ N \in Nat \ {0}
  /\ n[w] \in Nat /\ cnt[w] \in Nat /\ from[w] \in Frames /\ tx[w] \in Frames
  /\ pc[w] \in Labels /\ w \in Writers

\* They are numbers.
LEMMA Numbers ==
  ASSUME NEW w, Writers = {w}, OrderInv(w)
  PROVE  NumberTypes(w)
BY TxAssumption DEF OrderInv, TxInv, TxTypeOK, LocalTypes, NumberTypes

\* A flush covers frames of the ring.
LEMMA FlushedInRing ==
  ASSUME NEW w, Writers = {w}, OrderInv(w)
  PROVE  Flushed(w) \subseteq Frames
<1>1. from[w] \in Nat
  BY Numbers DEF Frames, NumberTypes
<1>2. \A i \in 0 .. cnt[w] - 1 : i \in Nat
  BY Numbers DEF NumberTypes
<1>3. \A i \in 0 .. cnt[w] - 1 : Plus(from[w], i) \in Frames
  BY <1>1, <1>2, PlusType
<1> QED
  BY <1>3, Zenon DEF Flushed

\* Steps that only move the program counter and MSend's own count.
LEMMA QuietStep ==
  ASSUME NEW w, Writers = {w}, OrderInv(w), TxOrder(w), MSend(w) \/ CheckFull(w) \/ Ready(w)
  PROVE  TxOrder(w)'
<1>0. NumberTypes(w)
  BY Numbers
<1> USE <1>0 DEF NumberTypes
<1>1. /\ UNCHANGED <<indexVars, frameVars, kernelVars, wrote, tx, from, cnt>>
      /\ \/ pc[w] = "idle" /\ pc'[w] = "full" /\ n'[w] = 0
         \/ pc[w] = "full" /\ pc'[w] = "claim" /\ n' = n
         \/ pc[w] = "full" /\ pc'[w] = "flush" /\ n' = n /\ txWritten > 0
         \/ pc[w] = "ready" /\ pc'[w] = "mb" /\ n' = n
  BY DEF MSend, CheckFull, Ready, Break, Goto, indexVars, frameVars, kernelVars, histVars,
     localVars, TxOrder, Counters, OrderInv, TxInv, LocalTypes
<1> USE <1>1 DEF TxOrder, indexVars, frameVars, kernelVars
<1>2. Untaken'
  BY DEF Untaken
<1>3. Counters(w)'
  BY DEF Counters
<1>4. Places(w)'
  BY DEF Counters, Places
<1>5. Requested(w)'
  BY DEF Requested
<1>6. Marked(w)'
  BY DEF Marked, Kept
<1> QED
  BY <1>2, <1>3, <1>4, <1>5, <1>6

\* The frame claimed is that of the next write.
LEMMA ClaimStep ==
  ASSUME NEW w, Writers = {w}, OrderInv(w), TxOrder(w), Claim(w)
  PROVE  TxOrder(w)'
<1>0. NumberTypes(w)
  BY Numbers
<1> USE <1>0 DEF NumberTypes
<1>1. /\ UNCHANGED <<txWritten, txWrittenIndex, frameVars, kernelVars, wrote, n, from, cnt>>
      /\ pc[w] = "claim" /\ pc'[w] = "ready" /\ tx'[w] = txIndex /\ txIndex' = Plus(txIndex, 1)
  BY DEF Claim, Goto, histVars, OrderInv, TxInv
<1>2. txIndex = At(wrote) /\ txIndex' = At(wrote + 1)
  <2>1. txIndex = At(wrote)
    BY <1>1, Zenon DEF TxOrder, Places
  <2>2. Plus(At(wrote), 1) = At(wrote + 1)
    BY PlusAt
  <2> QED
    BY <1>1, <2>1, <2>2, Zenon
<1> USE <1>1 DEF TxOrder, frameVars, kernelVars
<1>3. Untaken'
  BY DEF Untaken
<1>4. Counters(w)'
  BY DEF Counters
<1>5. Places(w)'
  BY <1>2 DEF Counters, Places
<1>6. Requested(w)'
  BY DEF Requested
<1>7. Marked(w)'
  BY DEF Marked, Kept
<1> QED
  BY <1>3, <1>4, <1>5, <1>6, <1>7

\* The next write goes into a frame that holds none of those not yet taken.
LEMMA FillStep ==
  ASSUME NEW w, Writers = {w}, OrderInv(w), TxOrder(w), Fill(w)
  PROVE  TxOrder(w)'
<1>1. /\ UNCHANGED <<txIndex, txWritten, txWrittenIndex, status, head, taken, n, tx, from, cnt>>
      /\ pc[w] = "mb" /\ pc'[w] = "count" /\ wrote' = wrote + 1
      /\ mb' = [mb EXCEPT ![tx[w]] = 1] /\ data' = [data EXCEPT ![tx[w]] = wrote + 1]
  BY Numbers DEF Fill, Goto, localVars, indexVars, kernelVars, OrderInv, TxInv, NumberTypes
<1>2. /\ Len(taken) \in Nat /\ wrote \in Nat /\ txWritten \in Nat /\ N \in Nat
      /\ tx[w] \in Frames /\ w \in Writers
  BY Numbers DEF NumberTypes
<1>3. wrote = Len(taken) + txWritten /\ n[w] = txWritten
  BY <1>1, Zenon DEF TxOrder, Counters
<1>4. txWritten < N
  BY <1>1, <1>2, Zenon DEF OrderInv, TxInv
<1>5. /\ txIndex = At(wrote + 1) /\ tx[w] = At(wrote)
      /\ txWritten > 0 => txWrittenIndex = At(Len(taken))
  BY <1>1, Zenon DEF TxOrder, Places
<1>6. Untaken'
  <2>1. SUFFICES ASSUME NEW j \in Len(taken) .. wrote PROVE data'[At(j)] = j + 1
    <3>1. /\ taken = [k \in 1 .. Len(taken) |-> k] /\ Len(taken) <= wrote
          /\ head = At(Len(taken))
      BY DEF TxOrder, Untaken
    <3>2. Len(taken) <= wrote + 1 /\ (wrote + 1) - 1 = wrote
      BY <1>2, <3>1
    <3> QED
      BY <1>1, <2>1, <3>1, <3>2, Zenon DEF Untaken
  <2>2. j \in Nat /\ (j = wrote \/ (j < wrote /\ j \in Len(taken) .. wrote - 1))
    BY <1>2
  <2>3. CASE j = wrote
    BY <1>1, <1>2, <1>5, <2>3 DEF OrderInv, TxInv, TxTypeOK
  <2>4. CASE j < wrote /\ j \in Len(taken) .. wrote - 1
    <3>1. wrote < j + N
      BY <1>2, <1>3, <1>4, <2>2
    <3>2. At(j) # At(wrote)
      BY <1>2, <2>2, <2>4, <3>1, WritesApart
    <3>3. data[At(j)] = j + 1
      BY <2>4, Zenon DEF TxOrder, Untaken
    <3>4. At(j) \in Frames
      BY <2>2, Division
    <3> QED
      BY <1>1, <1>5, <3>2, <3>3, <3>4 DEF OrderInv, TxInv, TxTypeOK
  <2> QED
    BY <2>2, <2>3, <2>4, Zenon
<1>7. Counters(w)'
  <2>1. wrote + 1 = Len(taken) + txWritten + 1
    BY <1>2, <1>3
  <2> QED
    BY <1>1, <1>3, <2>1, Zenon DEF Counters
<1>8. Places(w)'
  <2>1. (wrote + 1) - 1 = wrote
    BY <1>2
  <2> QED
    BY <1>1, <1>5, <2>1, Zenon DEF Places
<1>9. Requested(w)'
  BY <1>1, Zenon DEF TxOrder, Requested
<1>10. Marked(w)'
  <2>1. SUFFICES ASSUME NEW f \in Frames, mb'[f] # 0
                 PROVE  \E j \in Len(taken) .. wrote : f = At(j)
    <3>1. (wrote + 1) - 1 = wrote
      BY <1>2
    <3> QED
      BY <1>1, <2>1, <3>1, Zenon DEF Marked, Kept
  <2>2. CASE f = tx[w]
    <3>1. wrote \in Len(taken) .. wrote
      BY <1>2, <1>3
    <3> QED
      BY <1>5, <2>2, <3>1
  <2>3. CASE f # tx[w]
    <3>1. mb[f] # 0
      BY <1>1, <2>1, <2>3 DEF OrderInv, TxInv, TxTypeOK
    <3>2. PICK j \in Len(taken) .. wrote - 1 : f = At(j)
      BY <1>1, <3>1, Zenon DEF TxOrder, Marked, Kept
    <3>3. j \in Len(taken) .. wrote
      BY <1>2, <3>2
    <3> QED
      BY <3>2, <3>3, Zenon
  <2> QED
    BY <2>2, <2>3
<1> QED
  BY <1>6, <1>7, <1>8, <1>9, <1>10, Zenon DEF TxOrder

\* The write is counted.
LEMMA CountStep ==
  ASSUME NEW w, Writers = {w}, OrderInv(w), TxOrder(w), Count(w)
  PROVE  TxOrder(w)'
<1>1. /\ UNCHANGED <<txIndex, txWrittenIndex, status, mb, data, head, taken, wrote, tx, from, cnt>>
      /\ pc[w] = "count" /\ txWritten' = txWritten + 1 /\ n'[w] = n[w] + 1
      /\ IF txWritten' = 1 THEN pc'[w] = "index" ELSE pc'[w] \in {"flush", "full"}
  BY Numbers DEF Count, Goto, histVars, localVars, frameVars, kernelVars, OrderInv, TxInv,
     LocalTypes, NumberTypes
<1>2. Len(taken) \in Nat /\ wrote \in Nat /\ txWritten \in Nat
  BY Numbers DEF NumberTypes
<1>3. wrote = Len(taken) + txWritten + 1 /\ n[w] = txWritten
  BY <1>1, Zenon DEF TxOrder, Counters
<1>4. /\ txIndex = At(wrote) /\ tx[w] = At(wrote - 1)
      /\ txWritten > 0 => txWrittenIndex = At(Len(taken))
  BY <1>1, Zenon DEF TxOrder, Places
<1>5. /\ wrote = Len(taken) + txWritten' /\ n'[w] = txWritten' /\ txWritten' > 0
      /\ txWritten' = 1 \/ txWritten > 0
  BY <1>1, <1>2, <1>3
<1>6. Untaken'
  BY <1>1, Zenon DEF TxOrder, Untaken
<1>7. Counters(w)' /\ Places(w)'
  <2>1. CASE txWritten' = 1 /\ pc'[w] = "index"
    BY <1>1, <1>4, <1>5, <2>1, Zenon DEF Counters, Places
  <2>2. CASE txWritten > 0 /\ pc'[w] = "flush"
    BY <1>1, <1>4, <1>5, <2>2, Zenon DEF Counters, Places
  <2>3. CASE txWritten > 0 /\ pc'[w] = "full"
    BY <1>1, <1>4, <1>5, <2>3, Zenon DEF Counters, Places
  <2> QED
    BY <1>1, <1>5, <2>1, <2>2, <2>3, Zenon
<1>8. Requested(w)'
  BY <1>1, Zenon DEF TxOrder, Requested
<1>9. Marked(w)'
  <2>1. pc[w] # "clear" /\ pc'[w] # "clear"
    BY <1>1
  <2> QED
    BY <1>1, <2>1, Zenon DEF TxOrder, Marked, Kept
<1> QED
  BY <1>6, <1>7, <1>8, <1>9, Zenon DEF TxOrder

\* The first of a batch is noted.
LEMMA IndexStep ==
  ASSUME NEW w, Writers = {w}, OrderInv(w), TxOrder(w), Index(w)
  PROVE  TxOrder(w)'
<1>1. /\ UNCHANGED <<txIndex, txWritten, n, status, mb, data, head, taken, wrote, tx, from, cnt>>
      /\ pc[w] = "index" /\ txWrittenIndex' = tx[w] /\ pc'[w] \in {"flush", "full"}
  BY Numbers DEF Index, Goto, histVars, localVars, frameVars, kernelVars, OrderInv, TxInv,
     NumberTypes
<1>2. Len(taken) \in Nat /\ wrote \in Nat /\ txWritten \in Nat
  BY Numbers DEF NumberTypes
<1>3. wrote = Len(taken) + txWritten /\ n[w] = txWritten /\ txWritten = 1
  BY <1>1, Zenon DEF TxOrder, Counters
<1>4. txIndex = At(wrote) /\ tx[w] = At(wrote - 1)
  BY <1>1, Zenon DEF TxOrder, Places
<1>5. wrote - 1 = Len(taken) /\ txWritten > 0
  BY <1>2, <1>3
<1>6. Untaken'
  BY <1>1, Zenon DEF TxOrder, Untaken
<1>7. Counters(w)' /\ Places(w)'
  <2>1. CASE pc'[w] = "flush"
    BY <1>1, <1>3, <1>4, <1>5, <2>1, Zenon DEF Counters, Places
  <2>2. CASE pc'[w] = "full"
    BY <1>1, <1>3, <1>4, <1>5, <2>2, Zenon DEF Counters, Places
  <2> QED
    BY <1>1, <2>1, <2>2, Zenon
<1>8. Requested(w)'
  BY <1>1, Zenon DEF TxOrder, Requested
<1>9. Marked(w)'
  <2>1. pc[w] # "clear" /\ pc'[w] # "clear"
    BY <1>1
  <2> QED
    BY <1>1, <2>1, Zenon DEF TxOrder, Marked, Kept
<1> QED
  BY <1>6, <1>7, <1>8, <1>9, Zenon DEF TxOrder

\* FlushFrames takes the index and the count, which belong together.
LEMMA FlushStep ==
  ASSUME NEW w, Writers = {w}, OrderInv(w), TxOrder(w), FlushTake(w) \/ FlushSwap(w)
  PROVE  TxOrder(w)'
<1>0. NumberTypes(w)
  BY Numbers
<1> USE <1>0 DEF NumberTypes
<1>1. txWrittenIndex # -1 \/ pc[w] # "flush"
  <2>1. At(Len(taken)) # -1
    <3>1. At(Len(taken)) \in Frames
      BY Division
    <3> QED
      BY <3>1 DEF Frames
  <2> QED
    BY <2>1, Zenon DEF TxOrder, Places, Counters
<1>2. /\ UNCHANGED <<txIndex, frameVars, kernelVars, wrote, tx, n>>
      /\ \/ /\ pc[w] = "flush" /\ pc'[w] = "swap" /\ txWritten' = txWritten
            /\ from'[w] = txWrittenIndex /\ cnt' = cnt
         \/ /\ pc[w] = "swap" /\ pc'[w] = "set" /\ txWritten' = 0
            /\ from' = from /\ cnt'[w] = txWritten
  BY <1>1 DEF FlushTake, FlushSwap, Goto, histVars, OrderInv, TxInv, LocalTypes
<1> USE <1>2 DEF TxOrder, frameVars, kernelVars
<1>3. Untaken'
  BY DEF Untaken
<1>4. Counters(w)'
  BY DEF Counters
<1>5. Places(w)'
  BY DEF Counters, Places
<1>6. Requested(w)'
  BY DEF Requested
<1>7. Marked(w)'
  BY DEF Marked, Kept
<1> QED
  BY <1>3, <1>4, <1>5, <1>6, <1>7

\* txSet is called on the frames of the writes counted.
LEMMA SetStep ==
  ASSUME NEW w, Writers = {w}, OrderInv(w), TxOrder(w), FlushSet(w)
  PROVE  TxOrder(w)'
<1>0. NumberTypes(w)
  BY Numbers
<1> USE <1>0 DEF NumberTypes
<1>1. /\ UNCHANGED <<indexVars, mb, data, kernelVars, wrote, n, tx, from, cnt>>
      /\ pc[w] = "set" /\ pc'[w] = "sendto"
      /\ status' = [f \in Frames |-> IF f \in Flushed(w) THEN "request" ELSE status[f]]
  BY DEF FlushSet, Goto, localVars, histVars, OrderInv, TxInv
<1>2. Flushed(w)' = Flushed(w) /\ Flushed(w) \subseteq Frames
  BY <1>1, FlushedInRing DEF Flushed
<1> USE <1>1 DEF TxOrder, indexVars, kernelVars
<1>3. Untaken'
  BY DEF Untaken
<1>4. Counters(w)'
  BY DEF Counters
<1>5. Places(w)'
  BY DEF Counters, Places
<1>6. Requested(w)'
  BY <1>2 DEF Requested
<1>7. Marked(w)'
  BY DEF Marked, Kept
<1> QED
  BY <1>3, <1>4, <1>5, <1>6, <1>7

\* Once the kernel has taken them, txSetMB frees the frames of those writes.
LEMMA ClearStep ==
  ASSUME NEW w, Writers = {w}, OrderInv(w), TxOrder(w), FlushClear(w)
  PROVE  TxOrder(w)'
<1>0. NumberTypes(w)
  BY Numbers
<1> USE <1>0 DEF NumberTypes
<1>1. /\ UNCHANGED <<indexVars, status, data, kernelVars, wrote, n, tx, from, cnt>>
      /\ pc[w] = "clear" /\ pc'[w] = "idle"
      /\ mb' = [f \in Frames |-> IF f \in Flushed(w) THEN 0 ELSE mb[f]]
  BY DEF FlushClear, Goto, localVars, histVars, OrderInv, TxInv
<1>2. \A j \in (wrote - cnt[w]) .. wrote - 1 : At(j) \in Flushed(w)
  <2>1. wrote - cnt[w] \in Nat /\ from[w] = At(wrote - cnt[w])
    <3>1. cnt[w] <= wrote
      BY <1>1 DEF TxOrder, Counters
    <3>2. from[w] = At(wrote - cnt[w])
      BY <1>1 DEF TxOrder, Places
    <3>3. wrote - cnt[w] \in Nat
      BY <3>1
    <3> QED
      BY <3>2, <3>3, Zenon
  <2>2. (wrote - cnt[w]) + cnt[w] - 1 = wrote - 1
    OBVIOUS
  <2>3. \A j \in (wrote - cnt[w]) .. (wrote - cnt[w]) + cnt[w] - 1 : At(j) \in Flushed(w)
    BY <2>1, FlushedAre
  <2> QED
    BY <2>2, <2>3
<1>3. \A f \in Frames : mb'[f] = 0
  <2>1. SUFFICES ASSUME NEW f \in Frames, mb[f] # 0 PROVE f \in Flushed(w)
    BY <1>1
  <2>2. \E j \in (wrote - cnt[w]) .. wrote - 1 : f = At(j)
    BY <1>1, <2>1 DEF TxOrder, Marked, Kept
  <2> QED
    BY <1>2, <2>2
<1> USE <1>1 DEF TxOrder, indexVars, kernelVars
<1>4. Untaken'
  BY DEF Untaken
<1>5. Counters(w)'
  <2>1. txWritten = 0 /\ wrote = Len(taken)
    BY Zenon DEF Counters
  <2>2. wrote = Len(taken) + txWritten
    BY <2>1
  <2> QED
    BY <2>1, <2>2, Zenon DEF Counters
<1>6. Places(w)'
  BY DEF Counters, Places
<1>7. Requested(w)'
  BY DEF Requested
<1>8. Marked(w)'
  BY <1>3 DEF Marked
<1> QED
  BY <1>4, <1>5, <1>6, <1>7, <1>8

\* A frame sent is no longer one that waits.
LEMMA CompleteStep ==
  ASSUME NEW w, Writers = {w}, OrderInv(w), TxOrder(w), NEW g \in Frames, Complete(g)
  PROVE  TxOrder(w)'
<1>0. NumberTypes(w)
  BY Numbers
<1> USE <1>0 DEF NumberTypes
<1>1. /\ UNCHANGED <<indexVars, mb, data, kernelVars, wrote, pc, n, tx, from, cnt>>
      /\ status[g] = "sending" /\ status' = [status EXCEPT ![g] = "available"]
  BY DEF Complete, localVars, histVars
<1>2. Flushed(w)' = Flushed(w)
  BY <1>1 DEF Flushed
<1>3. \A f \in Frames : status'[f] = "request" <=> status[f] = "request"
  BY <1>1 DEF OrderInv, TxInv, TxTypeOK
<1>4. Flushed(w) \subseteq Frames
  BY FlushedInRing
<1> USE <1>1 DEF TxOrder, indexVars, kernelVars
<1>5. Untaken'
  BY DEF Untaken
<1>6. Counters(w)'
  BY DEF Counters
<1>7. Places(w)'
  BY DEF Counters, Places
<1>8. Requested(w)'
  BY <1>2, <1>3, <1>4 DEF Requested
<1>9. Marked(w)'
  BY DEF Marked, Kept
<1> QED
  BY <1>5, <1>6, <1>7, <1>8, <1>9

\* The frames the kernel finds requested are exactly those the flush covers: it
\* takes them all, in the order of the writes, and no older frame with them.
LEMMA SendtoStep ==
  ASSUME NEW w, Writers = {w}, OrderInv(w), TxOrder(w), Sendto(w)
  PROVE  TxOrder(w)'
<1> DEFINE T == Len(taken)
           c == cnt[w]
<1>1. T \in Nat /\ c \in Nat /\ wrote \in Nat /\ N \in Nat \ {0} /\ w \in Writers
  BY Numbers DEF NumberTypes
<1>2. /\ pc[w] = "sendto" /\ pc'[w] = "clear"
      /\ UNCHANGED <<indexVars, mb, data, wrote, n, tx, from, cnt>>
  BY <1>1 DEF Sendto, Goto, localVars, histVars, OrderInv, TxInv
<1>3. txWritten = 0 /\ wrote = T + c /\ c <= N /\ head = At(T) /\ from[w] = At(T)
  BY <1>2 DEF TxOrder, Counters, Places, Untaken
<1>4. /\ \A j \in T .. T + c - 1 : At(j) \in Flushed(w)
      /\ \A f \in Flushed(w) : \E j \in T .. T + c - 1 : f = At(j)
  BY <1>1, <1>3, FlushedAre
<1>5. PICK k \in 0 .. N : Take(k, {}) /\ ~Unsent(k)
  BY Zenon DEF Sendto
<1> DEFINE run == {Plus(head, i) : i \in 0 .. k - 1}
<1>6. k \in Nat /\ k <= N
  BY <1>1
<1>7. ~(k < c)
  <2>1. SUFFICES ASSUME k < c PROVE FALSE
    OBVIOUS
  <2>2. Plus(head, k) = At(T + k)
    BY <1>1, <1>3, <1>6, PlusAt
  <2>3. T + k \in T .. T + c - 1 /\ k # N
    BY <1>1, <1>3, <1>6, <2>1
  <2>4. At(T + k) \in Flushed(w)
    BY <1>4, <2>3
  <2>5. status[At(T + k)] = "request"
    BY <1>2, <2>4 DEF TxOrder, Requested
  <2> QED
    BY <1>1, <1>5, <1>6, <2>2, <2>3, <2>5 DEF Unsent
<1>8. ~(c < k)
  <2>1. SUFFICES ASSUME c < k PROVE FALSE
    OBVIOUS
  <2>2. Plus(head, c) = At(T + c)
    BY <1>1, <1>3, PlusAt
  <2>3. c \in 0 .. k - 1
    BY <1>1, <1>6, <2>1
  <2>4. status[At(T + c)] = "request"
    BY <1>5, <2>2, <2>3 DEF Take
  <2>5. At(T + c) \in Frames
    <3>1. T + c \in Nat
      BY <1>1
    <3> QED
      BY <3>1, Division
  <2>6. At(T + c) \in Flushed(w)
    BY <2>4, <2>5 DEF TxOrder, Requested
  <2>7. PICK j \in T .. T + c - 1 : At(T + c) = At(j)
    BY <1>4, <2>6
  <2>8. j \in Nat /\ T + c \in Nat /\ j < T + c /\ T + c < j + N
    BY <1>1, <1>6, <2>1
  <2> QED
    BY <2>7, <2>8, WritesApart
<1>9. k = c
  BY <1>1, <1>6, <1>7, <1>8
<1>10. run = Flushed(w)
  BY <1>3, <1>9 DEF Flushed
<1>11. taken' = [i \in 1 .. T + c |-> i] /\ Len(taken') = T + c
  <2>1. \A i \in 1 .. c : data[Plus(head, i - 1)] = T + i
    <3>1. SUFFICES ASSUME NEW i \in 1 .. c PROVE data[Plus(head, i - 1)] = T + i
      OBVIOUS
    <3>2. i - 1 \in Nat /\ T + (i - 1) \in T .. wrote - 1
      BY <1>1, <1>3
    <3>3. Plus(head, i - 1) = At(T + (i - 1))
      BY <1>1, <1>3, <3>2, PlusAt
    <3>4. data[At(T + (i - 1))] = (T + (i - 1)) + 1
      BY <3>2 DEF TxOrder, Untaken
    <3> QED
      BY <1>1, <3>3, <3>4
  <2>2. [i \in 1 .. k |-> data[Plus(head, i - 1)]] = [i \in 1 .. c |-> T + i]
    BY <1>9, <2>1
  <2>3. taken' = taken \o [i \in 1 .. c |-> T + i]
    BY <1>5, <2>2 DEF Take
  <2>4. taken \in Seq(Nat) /\ taken = [i \in 1 .. T |-> i]
    BY DEF OrderInv, TxInv, TxTypeOK, TxOrder, Untaken
  <2>5. [i \in 1 .. c |-> T + i] \in Seq(Nat) /\ Len([i \in 1 .. c |-> T + i]) = c
    BY <1>1
  <2> HIDE DEF T, c
  <2> QED
    BY <1>1, <2>3, <2>4, <2>5 DEF T
<1>12. head' = At(T + c)
  BY <1>1, <1>3, <1>5, <1>9, PlusAt DEF Take
<1>13. \A f \in Frames : status'[f] # "request"
  <2>1. \A f \in Frames : status[f] = "request" => f \in run
    BY <1>10 DEF TxOrder, Requested
  <2>2. status' = [f \in Frames |-> IF f \in run THEN "sending" ELSE status[f]]
    BY <1>5 DEF Take
  <2> HIDE DEF run
  <2> QED
    BY <2>1, <2>2
<1>14. /\ txIndex' = txIndex /\ txWritten' = txWritten /\ wrote' = wrote /\ cnt'[w] = c
       /\ from'[w] = from[w] /\ mb' = mb
  BY <1>2, Zenon DEF indexVars
<1> HIDE DEF T, c, run
<1>15. (T + c) - c = T
  BY <1>1
<1>16. Untaken'
  <2>1. wrote' = Len(taken') /\ Len(taken') <= wrote' /\ Len(taken') .. wrote' - 1 = {}
    BY <1>1, <1>2, <1>3, <1>11
  <2>2. taken' = [i \in 1 .. Len(taken') |-> i] /\ head' = At(Len(taken'))
    BY <1>11, <1>12, Zenon
  <2> QED
    BY <2>1, <2>2, Zenon DEF Untaken
<1>17. Counters(w)'
  <2>1. c <= T + c
    BY <1>1
  <2> QED
    BY <1>2, <1>3, <1>11, <1>14, <2>1, Zenon DEF Counters
<1>18. Places(w)'
  <2>1. txIndex = At(wrote)
    BY <1>2, Zenon DEF TxOrder, Places
  <2> QED
    BY <1>2, <1>3, <1>14, <1>15, <2>1, Zenon DEF Places
<1>19. Requested(w)'
  BY <1>2, <1>13, Zenon DEF Requested
<1>20. Marked(w)'
  BY <1>2, <1>3, <1>14, <1>15, Zenon DEF TxOrder, Marked, Kept, T
<1> QED
  BY <1>16, <1>17, <1>18, <1>19, <1>20, Zenon DEF TxOrder

\* Every step preserves the order, until a call fails.
LEMMA OrderStep ==
  ASSUME NEW w, Writers = {w}, OrderInv(w), [TxNext]_txVars
  PROVE  OrderInv(w)'
<1>1. TxInv' /\ LocalTypes'
  BY TxNextInv, LocalStep DEF OrderInv
<1>2. SUFFICES ASSUME ~failed' PROVE TxOrder(w)'
  BY <1>1 DEF OrderInv
<1>3. CASE UNCHANGED txVars
  <2>1. ~failed /\ TxOrder(w)
    BY <1>2, <1>3 DEF txVars, histVars, OrderInv
  <2>2. UNCHANGED <<txIndex, txWritten, txWrittenIndex, status, mb, data, head, taken, wrote,
                    pc, n, tx, from, cnt>>
    BY <1>3 DEF txVars, histVars, indexVars, frameVars, kernelVars, localVars
  <2>3. Untaken' /\ Counters(w)'
    BY <2>1, <2>2 DEF TxOrder, Untaken, Counters
  <2>4. Places(w)'
    BY <2>1, <2>2 DEF TxOrder, Places
  <2>5. Requested(w)'
    BY <2>1, <2>2 DEF TxOrder, Requested, Flushed
  <2>6. Marked(w)'
    BY <2>1, <2>2 DEF TxOrder, Marked, Kept
  <2> QED
    BY <2>3, <2>4, <2>5, <2>6 DEF TxOrder
<1>4. CASE TxNext
  <2>1. \/ MSend(w) \/ Sending(w)
        \/ \E f \in Frames : Complete(f)
    <3>1. ~Failing(w)
      BY <1>2, Zenon DEF Failing, PollError, SendtoShort, SendtoError
    <3> QED
      BY <1>4, <3>1, Zenon DEF TxNext
  <2>3. failed' = failed
    BY <1>2, <2>1 DEF MSend, Sending, CheckFull, Claim, Ready, Fill, Count, Index,
       FlushTake, FlushSwap, FlushSet, Sendto, FlushClear, Complete, histVars
  <2>4. TxOrder(w)
    BY <1>2, <2>3 DEF OrderInv
  <2> QED
    BY <2>1, <2>4, QuietStep, ClaimStep, FillStep, CountStep, IndexStep, FlushStep, SetStep,
       SendtoStep, ClearStep, CompleteStep, Zenon DEF Sending
<1> QED
  BY <1>3, <1>4

-------------------------------------------------------------------------------
(* Theorems *)

\* The ring keeps its types; in particular every index stays inside it, and no
\* more frames are counted than it has.
THEOREM TxTypes ==
  ASSUME NEW w, Writers = {w}
  PROVE  TxSpec => []TxTypeOK
<1>1. TxInv => TxTypeOK
  BY DEF TxInv
<1>2. TxInv /\ [TxNext]_txVars => TxInv'
  BY TxNextInv
<1> QED
  BY <1>1, <1>2, TxInitInv, PTL DEF TxSpec

\* copyFx writes only to frames the kernel neither waits for nor sends, even
\* after failed system calls.
THEOREM NeverOverwrites ==
  ASSUME NEW w, Writers = {w}
  PROVE  TxSpec => NoOverwrite
<1>1. TxInv /\ [TxNext]_txVars => TxInv'
  BY TxNextInv
<1>2. TxInv /\ [TxNext]_txVars
        => [\A f \in Frames :
              data'[f] # data[f] => status[f] \notin {"request", "sending"}]_txVars
  <2> SUFFICES ASSUME TxInv, TxNext, NEW f \in Frames, data'[f] # data[f]
               PROVE  status[f] \notin {"request", "sending"}
    BY Zenon
  <2>1. Fill(w)
    BY Zenon DEF TxNext, Sending, Failing, MSend, CheckFull, Claim, Ready, PollError, Count, Index,
       FlushTake, FlushSwap, FlushSet, Sendto, SendtoShort, SendtoError, FlushClear, Complete,
       frameVars
  <2>2. f = tx[w] /\ pc[w] = "mb"
    BY <2>1 DEF Fill, TxInv, TxTypeOK
  <2> QED
    BY <2>2 DEF TxInv
<1> QED
  BY <1>1, <1>2, TxInitInv, PTL DEF TxSpec, NoOverwrite

\* Until a call fails, the kernel takes the frames of one writer in the order of
\* the writes, and those not yet taken are in the ring, whatever its size and
\* however often it wraps round.
THEOREM KernelTakesInOrder ==
  ASSUME NEW w, Writers = {w}
  PROVE  TxSpec => []TakenInOrder
<1>1. OrderInv(w) => TakenInOrder
  <2>1. SUFFICES ASSUME OrderInv(w), ~failed
                 PROVE  /\ taken = [i \in 1 .. Len(taken) |-> i]
                        /\ \A j \in Len(taken) + 1 .. wrote : data[Plus(j - 1, 0)] = j
    BY DEF TakenInOrder
  <2>2. Untaken /\ Len(taken) \in Nat /\ wrote \in Nat
    BY <2>1, Numbers DEF OrderInv, TxOrder, NumberTypes
  <2>3. ASSUME NEW j \in Len(taken) + 1 .. wrote PROVE data[Plus(j - 1, 0)] = j
    <3>1. j - 1 \in Len(taken) .. wrote - 1 /\ j - 1 \in Nat /\ (j - 1) + 1 = j
      BY <2>2
    <3>2. Plus(j - 1, 0) = At(j - 1)
      BY <3>1, TxAssumption DEF Plus, At
    <3> QED
      BY <2>2, <3>1, <3>2 DEF Untaken
  <2> QED
    BY <2>2, <2>3 DEF Untaken
<1>2. TxInit => OrderInv(w)
  BY OrderInit
<1>3. OrderInv(w) /\ [TxNext]_txVars => OrderInv(w)'
  BY OrderStep
<1> QED
  BY <1>1, <1>2, <1>3, PTL DEF TxSpec

\* An MSend that ends without a failed call has passed every frame to the kernel
\* and freed them all.
THEOREM FlushLeavesNothing ==
  ASSUME NEW w, Writers = {w}
  PROVE  TxSpec => []FlushComplete
<1>1. OrderInv(w) => FlushComplete
  <2>1. SUFFICES ASSUME OrderInv(w), ~failed, pc[w] = "idle"
                 PROVE  Len(taken) = wrote /\ txWritten = 0 /\ \A f \in Frames : mb[f] = 0
    BY DEF FlushComplete, AllIdle
  <2>2. TxOrder(w) /\ Len(taken) \in Nat /\ wrote \in Nat
    BY <2>1, Numbers DEF OrderInv, NumberTypes
  <2>3. txWritten \in Nat
    BY <2>1, Numbers DEF NumberTypes
  <2>4. Len(taken) = wrote /\ txWritten = 0
    BY <2>1, <2>2, <2>3 DEF TxOrder, Counters
  <2> QED
    BY <2>1, <2>2, <2>4 DEF TxOrder, Marked, Kept
<1>2. TxInit => OrderInv(w)
  BY OrderInit
<1>3. OrderInv(w) /\ [TxNext]_txVars => OrderInv(w)'
  BY OrderStep
<1> QED
  BY <1>1, <1>2, <1>3, PTL DEF TxSpec

===============================================================================
