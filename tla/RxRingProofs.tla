----------------------------- MODULE RxRingProofs -----------------------------
(***************************************************************************)
(* Proofs about RxRing and RingClient, for a ring of any size, of blocks   *)
(* or of frames: the kernel and Listen follow each other round the ring,   *)
(* a packet is dropped only when all of it waits for Listen, and every     *)
(* other packet passes in order, to the callback and on to requestLoop.    *)
(***************************************************************************)
EXTENDS RingClient, SequenceTheorems, TLAPS

-------------------------------------------------------------------------------
(* The inductive invariant *)

\* The slots from a up to b, not including b, round the ring.
Arc(a, b) == {c \in Index : IF a <= b THEN a <= c /\ c < b ELSE a <= c \/ c < b}

\* The slots that wait for Listen are those from its own up to the kernel's:
\* all of them, or those in between.
HandedOver ==
  \/ head = bd /\ \A b \in Index : status[b] = "user"
  \/ \A b \in Index : status[b] = "user" <=> b \in Arc(bd, head)

RxInv ==
  /\ RxTypeOK /\ HandedOver
  /\ version \in {1, 3} /\ arrived \in Nat
  /\ pkts \in [Index -> Seq(1 .. arrived)]
  /\ open => status[head] = "kernel"
  /\ pc = "walk" => status[bd] = "user" /\ i <= Len(pkts[bd])

\* The slot after the last is the first.
LEMMA AfterIs ==
  ASSUME NEW b \in Index
  PROVE  /\ After(b) \in Index
         /\ After(b) = IF b = Slots - 1 THEN 0 ELSE b + 1
BY RxAssumption DEF After, Index

\* NewZSocket leaves a ring that is the kernel's.
LEMMA RxInitInv == RxInit => RxInv
<1> SUFFICES ASSUME RxInit PROVE RxInv
  OBVIOUS
<1>1. 0 \in Index
  BY RxAssumption DEF Index
<1>2. \A b \in Index : b \notin Arc(0, 0)
  BY DEF Arc, Index
<1> QED
  BY <1>1, <1>2, RxAssumption DEF RxInit, RxInv, RxTypeOK, HandedOver, Capacity

\* Handing over the kernel's slot extends the arc.
LEMMA RetireArc ==
  ASSUME RxInv, Retire
  PROVE  HandedOver'
<1>1. head \in Index /\ bd \in Index /\ bd' = bd /\ status[head] = "kernel"
  BY DEF RxInv, RxTypeOK, Retire, userVars
<1>2. /\ head' = After(head) /\ After(head) \in Index
      /\ After(head) = IF head = Slots - 1 THEN 0 ELSE head + 1
  BY <1>1, AfterIs DEF Retire
<1>3. \A b \in Index : status'[b] = IF b = head THEN "user" ELSE status[b]
  BY DEF Retire, RxInv, RxTypeOK
<1>4. \A b \in Index : status[b] = "user" <=> b \in Arc(bd, head)
  BY <1>1 DEF RxInv, HandedOver
<1> QED
  BY <1>1, <1>2, <1>3, <1>4, RxAssumption DEF HandedOver, Arc, Index

\* Handing back Listen's slot shortens it.
LEMMA LeaveArc ==
  ASSUME RxInv, Leave
  PROVE  HandedOver'
<1>1. head \in Index /\ bd \in Index /\ head' = head /\ status[bd] = "user"
  BY DEF RxInv, RxTypeOK, Leave, kernelVars
<1>2. /\ bd' = After(bd) /\ After(bd) \in Index
      /\ After(bd) = IF bd = Slots - 1 THEN 0 ELSE bd + 1
  BY <1>1, AfterIs DEF Leave
<1>3. \A b \in Index : status'[b] = IF b = bd THEN "kernel" ELSE status[b]
  BY DEF Leave, RxInv, RxTypeOK
<1>4. CASE head = bd /\ \A b \in Index : status[b] = "user"
  BY <1>1, <1>2, <1>3, <1>4, RxAssumption DEF HandedOver, Arc, Index
<1>5. CASE \A b \in Index : status[b] = "user" <=> b \in Arc(bd, head)
  BY <1>1, <1>2, <1>3, <1>5, RxAssumption DEF HandedOver, Arc, Index
<1> QED
  BY <1>4, <1>5 DEF RxInv, HandedOver

\* The packet the kernel puts in its slot keeps the types of them all.
LEMMA PutTypes ==
  ASSUME RxInv, Put
  PROVE  /\ arrived' \in Nat /\ pkts' \in [Index -> Seq(1 .. arrived')]
         /\ \A b \in Index : Len(pkts'[b]) <= Capacity(version)
         /\ \A b \in Index \ {head} : pkts'[b] = pkts[b]
<1> DEFINE s == pkts[head]
           t == IF open THEN Append(s, arrived') ELSE <<arrived'>>
<1>1. arrived' \in Nat /\ 1 .. arrived \subseteq 1 .. arrived' /\ arrived' \in 1 .. arrived'
  BY DEF RxInv, Put
<1>2. head \in Index /\ \A b \in Index : pkts[b] \in Seq(1 .. arrived')
  <2>1. \A b \in Index : pkts[b] \in Seq(1 .. arrived)
    BY DEF RxInv
  <2> QED
    BY <1>1, <2>1, SeqMonotonic DEF RxInv, RxTypeOK
<1>3. t \in Seq(1 .. arrived') /\ Len(t) <= Capacity(version)
  <2>1. CASE open
    <3>1. s \in Seq(1 .. arrived') /\ Len(s) < Capacity(version) /\ Capacity(version) \in Nat
      BY <1>2, <2>1, RxAssumption DEF Put, Capacity
    <3>2. Append(s, arrived') \in Seq(1 .. arrived') /\ Len(Append(s, arrived')) = Len(s) + 1
      BY <1>1, <3>1, AppendProperties
    <3> QED
      BY <2>1, <3>1, <3>2, LenProperties
  <2>2. CASE ~open
    <3>1. <<arrived'>> \in Seq(1 .. arrived') /\ Len(<<arrived'>>) = 1
      BY <1>1
    <3> QED
      BY <2>2, <3>1, RxAssumption DEF Capacity
  <2> QED
    BY <2>1, <2>2
<1>4. pkts' = [pkts EXCEPT ![head] = t]
  BY Zenon DEF Put
<1> HIDE DEF t
<1>5. \A b \in Index : pkts'[b] = IF b = head THEN t ELSE pkts[b]
  BY <1>2, <1>4 DEF RxInv
<1>6. pkts' \in [Index -> Seq(1 .. arrived')]
  <2>1. DOMAIN pkts' = Index /\ pkts' = [b \in Index |-> pkts'[b]]
    BY <1>4 DEF RxInv
  <2> QED
    BY <1>2, <1>3, <1>5, <2>1
<1> QED
  BY <1>1, <1>2, <1>3, <1>5, <1>6 DEF RxInv, RxTypeOK

\* Every step keeps the invariant.
LEMMA RxNextInv == RxInv /\ [RxNext]_rxRingVars => RxInv'
<1> SUFFICES ASSUME RxInv, [RxNext]_rxRingVars PROVE RxInv'
  OBVIOUS
<1> USE DEF ringVars, kernelVars, userVars
<1>1. CASE Put
  <2>1. /\ arrived' \in Nat /\ pkts' \in [Index -> Seq(1 .. arrived')]
        /\ \A b \in Index : Len(pkts'[b]) <= Capacity(version)
        /\ \A b \in Index \ {head} : pkts'[b] = pkts[b]
    BY <1>1, PutTypes
  <2>2. /\ status[head] = "kernel" /\ open' = TRUE /\ arrived' = arrived + 1
        /\ UNCHANGED <<version, status, head, dropped, pc, bd, i, passed>>
    BY <1>1 DEF Put
  <2>3. \A b \in Index : pkts'[b] \in Seq(1 .. arrived')
    BY <2>1
  <2>4. RxTypeOK'
    BY <2>1, <2>2, <2>3 DEF RxInv, RxTypeOK, Capacity
  <2>5. HandedOver'
    BY <2>2, Zenon DEF RxInv, HandedOver
  <2>6. pc = "walk" => status[bd] = "user" /\ i <= Len(pkts'[bd])
    BY <2>1, <2>2 DEF RxInv, RxTypeOK
  <2> QED
    BY <2>1, <2>2, <2>4, <2>5, <2>6 DEF RxInv
<1>2. CASE Drop
  <2>1. /\ arrived' = arrived + 1 /\ dropped' \subseteq 1 .. arrived'
        /\ UNCHANGED <<version, status, pkts, head, open, pc, bd, i, passed>>
    BY <1>2 DEF Drop, RxInv, RxTypeOK
  <2>2. 1 .. arrived \subseteq 1 .. arrived' /\ arrived' \in Nat
    BY <2>1 DEF RxInv
  <2>3. \A b \in Index : pkts[b] \in Seq(1 .. arrived')
    <3>1. \A b \in Index : pkts[b] \in Seq(1 .. arrived)
      BY DEF RxInv
    <3> QED
      BY <2>2, <3>1, SeqMonotonic
  <2>4. pkts' \in [Index -> Seq(1 .. arrived')]
    BY <2>1, <2>3 DEF RxInv
  <2>5. RxTypeOK' /\ HandedOver'
    BY <2>1, <2>3 DEF RxInv, RxTypeOK, HandedOver
  <2> QED
    BY <2>1, <2>2, <2>4, <2>5 DEF RxInv
<1>3. CASE Retire
  <2>1. HandedOver'
    BY <1>3, RetireArc
  <2>2. head' \in Index
    BY <1>3, AfterIs DEF Retire, RxInv, RxTypeOK
  <2> QED
    BY <1>3, <2>1, <2>2 DEF Retire, RxInv, RxTypeOK
<1>4. CASE Leave
  <2>1. HandedOver'
    BY <1>4, LeaveArc
  <2>2. bd' \in Index
    BY <1>4, AfterIs DEF Leave, RxInv, RxTypeOK
  <2> QED
    BY <1>4, <2>1, <2>2, RxAssumption DEF Leave, RxInv, RxTypeOK
<1>5. CASE Callback
  <2>1. i' = i + 1 /\ UNCHANGED <<version, status, pkts, head, open, arrived, dropped, pc, bd>>
    BY <1>5 DEF Callback
  <2>2. i + 1 <= Len(pkts[bd]) /\ Len(pkts[bd]) <= BlockMax /\ Len(pkts[bd]) \in Nat /\ i \in Nat
    BY <1>5, RxAssumption DEF Callback, RxInv, RxTypeOK, Capacity
  <2> QED
    BY <2>1, <2>2, RxAssumption DEF RxInv, RxTypeOK, HandedOver
<1>6. CASE Listen \/ Enter \/ Poll \/ PollReturn \/ PollError
  <2>1. /\ UNCHANGED <<version, status, pkts, head, open, arrived, dropped, bd>>
        /\ i' \in {0, i} /\ pc' \in {"top", "walk", "poll", "returned"}
        /\ pc' = "walk" => status[bd] = "user" /\ i' = 0
    BY <1>6 DEF Listen, Enter, Poll, PollReturn, PollError
  <2>2. Len(pkts[bd]) \in Nat
    BY DEF RxInv, RxTypeOK
  <2> QED
    BY <2>1, <2>2, RxAssumption DEF RxInv, RxTypeOK, HandedOver
<1>7. CASE UNCHANGED rxRingVars
  BY <1>7 DEF rxRingVars, RxInv, RxTypeOK, HandedOver
<1> QED
  BY <1>1, <1>2, <1>3, <1>4, <1>5, <1>6, <1>7, Zenon DEF RxNext, Listener

-------------------------------------------------------------------------------
(* The packets in the ring *)

\* The slots with packets, the first of them Listen has not seen, and how far
\* a slot is ahead of Listen.
Using(b) == status[b] = "user" \/ (b = head /\ open)
From(b) == IF b = bd /\ pc = "walk" THEN i + 1 ELSE 1
Rank(b) == IF b >= bd THEN b - bd ELSE b - bd + Slots

\* The packets Listen has still to see.
Waiting == UNION {Unseen(b) : b \in Index}

\* Round the ring, from Listen's slot to the kernel's, arrivals ascend; none of
\* those that wait was dropped.
Ascending ==
  /\ \A b \in Index : Using(b) =>
       \A j, k \in 1 .. Len(pkts[b]) : j < k => pkts[b][j] < pkts[b][k]
  /\ \A b, c \in Index : Using(b) /\ Using(c) /\ Rank(b) < Rank(c) =>
       \A j \in 1 .. Len(pkts[b]), k \in 1 .. Len(pkts[c]) : pkts[b][j] < pkts[c][k]
  /\ Waiting \cap dropped = {}

RingInv == RxInv /\ Ascending

\* What is waiting, slot by slot.
LEMMA WaitingIs ==
  \A q : q \in Waiting <=>
          \E b \in Index : Using(b) /\ \E k \in From(b) .. Len(pkts[b]) : q = pkts[b][k]
BY DEF Waiting, Unseen, Using, From

\* The same after a step.
LEMMA WaitingIsNext ==
  \A q : q \in Waiting' <=>
          \E b \in Index : Using(b)' /\ \E k \in From(b)' .. Len(pkts'[b]) : q = pkts'[b][k]
BY DEF Waiting, Unseen, Using, From

\* It has arrived.
LEMMA WaitingArrived ==
  ASSUME RxInv
  PROVE  Waiting \subseteq 1 .. arrived
<1> SUFFICES ASSUME NEW q \in Waiting PROVE q \in 1 .. arrived
  OBVIOUS
<1>1. PICK b \in Index : \E k \in From(b) .. Len(pkts[b]) : q = pkts[b][k]
  BY WaitingIs
<1>2. pkts[b] \in Seq(1 .. arrived) /\ From(b) \in Nat \ {0}
  BY RxAssumption DEF RxInv, RxTypeOK, From
<1>3. PICK k \in From(b) .. Len(pkts[b]) : q = pkts[b][k]
  BY <1>1
<1>4. k \in 1 .. Len(pkts[b])
  BY <1>2
<1> QED
  BY <1>2, <1>3, <1>4, ElementOfSeq

\* A packet put in the ring is waiting, behind all others.
LEMMA PutWaits ==
  ASSUME RingInv, Put
  PROVE  Ascending' /\ Waiting' = Waiting \cup {arrived'}
<1>1. RxInv /\ Ascending /\ arrived' = arrived + 1 /\ arrived \in Nat
  BY DEF RingInv, RxInv, Put
<1>2. /\ status[head] = "kernel" /\ open' = TRUE /\ head \in Index
      /\ UNCHANGED <<version, status, head, dropped, pc, bd, i, passed>>
  BY <1>1 DEF Put, userVars, RxInv, RxTypeOK
<1>3. /\ pkts'[head] = IF open THEN Append(pkts[head], arrived') ELSE <<arrived'>>
      /\ \A b \in Index \ {head} : pkts'[b] = pkts[b]
      /\ \A b \in Index : pkts[b] \in Seq(1 .. arrived)
  BY <1>1, <1>2 DEF Put, RxInv
<1>4. \A b \in Index : /\ Using(b)' <=> Using(b) \/ b = head
                       /\ From(b)' = From(b) /\ Rank(b)' = Rank(b)
  BY <1>2 DEF Using, From, Rank
<1>5. From(head) = 1 /\ (Using(head) <=> open)
  BY <1>1, <1>2 DEF From, Using, RxInv
<1> DEFINE s == pkts[head]
           t == pkts'[head]
           n == IF open THEN Len(s) ELSE 0
<1>6. /\ n \in Nat /\ Len(t) = n + 1 /\ t[n + 1] = arrived'
      /\ \A k \in 1 .. n : t[k] = s[k] /\ s[k] \in 1 .. arrived /\ t[k] < arrived'
  <2>1. CASE open
    <3>1. s \in Seq(1 .. arrived) /\ t = Append(s, arrived') /\ n = Len(s)
      BY <1>2, <1>3, <2>1
    <3> QED
      BY <1>1, <3>1
  <2>2. CASE ~open
    BY <1>3, <2>2
  <2> QED
    BY <2>1, <2>2
<1> HIDE DEF n, s, t
<1>7. ASSUME NEW q
      PROVE  q \in Waiting' <=> q \in Waiting \cup {arrived'}
  <2>1. ASSUME q \in Waiting' PROVE q \in Waiting \cup {arrived'}
    <3>0. PICK b \in Index : Using(b)' /\ \E k \in From(b)' .. Len(pkts'[b]) : q = pkts'[b][k]
      BY <2>1, WaitingIsNext
    <3>1. PICK k \in From(b)' .. Len(pkts'[b]) : Using(b)' /\ q = pkts'[b][k]
      BY <3>0
    <3>2. CASE b # head
      BY <1>3, <1>4, <3>1, <3>2, WaitingIs
    <3>3. CASE b = head
      <4>1. k \in 1 .. n + 1 /\ q = t[k]
        BY <1>4, <1>5, <1>6, <3>1, <3>3 DEF t
      <4>2. CASE k = n + 1
        BY <1>6, <4>1, <4>2
      <4>3. CASE k # n + 1
        <5>1. k \in 1 .. n /\ q = s[k] /\ open /\ n = Len(s)
          BY <1>6, <4>1, <4>3 DEF n
        <5>2. Using(head) /\ k \in From(head) .. Len(pkts[head]) /\ q = pkts[head][k]
          BY <1>5, <5>1 DEF s
        <5> QED
          BY <1>2, <5>2, WaitingIs
      <4> QED
        BY <4>2, <4>3
    <3> QED
      BY <3>2, <3>3
  <2>2. ASSUME q \in Waiting PROVE q \in Waiting'
    <3>0. PICK b \in Index : Using(b) /\ \E k \in From(b) .. Len(pkts[b]) : q = pkts[b][k]
      BY <2>2, WaitingIs
    <3>1. PICK k \in From(b) .. Len(pkts[b]) : Using(b) /\ q = pkts[b][k]
      BY <3>0
    <3>2. CASE b # head
      BY <1>3, <1>4, <3>1, <3>2, WaitingIsNext
    <3>3. CASE b = head
      <4>1. open /\ n = Len(s) /\ k \in 1 .. n /\ q = s[k]
        BY <1>5, <3>1, <3>3 DEF n, s
      <4>2. k \in 1 .. n + 1 /\ q = t[k]
        BY <1>6, <4>1
      <4>3. Using(head)' /\ k \in From(head)' .. Len(pkts'[head]) /\ q = pkts'[head][k]
        BY <1>2, <1>4, <1>5, <1>6, <4>2 DEF t
      <4> QED
        BY <1>2, <4>3, WaitingIsNext
    <3> QED
      BY <3>2, <3>3
  <2>3. arrived' \in Waiting'
    <3>1. Using(head)' /\ n + 1 \in From(head)' .. Len(pkts'[head]) /\ arrived' = pkts'[head][n + 1]
      BY <1>2, <1>4, <1>5, <1>6 DEF t
    <3> QED
      BY <1>2, <3>1, WaitingIsNext
  <2> QED
    BY <2>1, <2>2, <2>3
<1>8. Waiting' \cap dropped' = {}
  BY <1>1, <1>2, <1>7 DEF Ascending, RxInv, RxTypeOK
<1>9. ASSUME NEW b \in Index, Using(b)', NEW j \in 1 .. Len(pkts'[b]),
             NEW k \in 1 .. Len(pkts'[b]), j < k
      PROVE  pkts'[b][j] < pkts'[b][k]
  <2>1. CASE b # head
    BY <1>1, <1>3, <1>4, <1>9, <2>1 DEF Ascending
  <2>2. CASE b = head
    <3>1. j \in 1 .. n /\ k \in 1 .. n + 1 /\ pkts'[b] = t
      BY <1>6, <1>9, <2>2 DEF t
    <3>2. CASE k = n + 1
      BY <1>6, <3>1, <3>2
    <3>3. CASE k # n + 1
      <4>1. k \in 1 .. n /\ open /\ n = Len(s)
        BY <1>6, <3>1, <3>3 DEF n
      <4>2. s[j] < s[k]
        BY <1>1, <1>2, <1>5, <1>9, <3>1, <4>1 DEF Ascending, s
      <4> QED
        BY <1>6, <3>1, <4>1, <4>2
    <3> QED
      BY <3>2, <3>3
  <2> QED
    BY <2>1, <2>2
<1>10. ASSUME NEW b \in Index, NEW c \in Index, Using(b)', Using(c)', Rank(b) < Rank(c),
              NEW j \in 1 .. Len(pkts'[b]), NEW k \in 1 .. Len(pkts'[c])
       PROVE  pkts'[b][j] < pkts'[c][k]
  <2>1. b # head
    <3> SUFFICES ASSUME b = head PROVE FALSE
      OBVIOUS
    <3>1. bd \in Index /\ Rank(head) \in Int
      BY <1>1, <1>2, RxAssumption DEF RxInv, RxTypeOK, Rank, Index
    <3>2. c # head
      BY <1>10, <3>1
    <3>3. status[c] = "user"
      BY <1>4, <1>10, <3>2 DEF Using
    <3>4. c \in Arc(bd, head)
      BY <1>1, <1>2, <3>3 DEF RxInv, HandedOver
    <3> QED
      BY <1>2, <1>10, <3>1, <3>2, <3>4, RxAssumption DEF Arc, Rank, Index
  <2>2. Using(b) /\ pkts'[b] = pkts[b] /\ pkts[b] \in Seq(1 .. arrived)
    BY <1>3, <1>4, <1>10, <2>1
  <2>3. CASE c # head
    BY <1>1, <1>3, <1>4, <1>10, <2>2, <2>3 DEF Ascending
  <2>4. CASE c = head
    <3>1. k \in 1 .. n + 1 /\ pkts'[c] = t /\ pkts[b][j] \in 1 .. arrived
      <4>1. j \in 1 .. Len(pkts[b])
        BY <2>2
      <4>2. pkts[b][j] \in 1 .. arrived
        BY <2>2, <4>1, ElementOfSeq
      <4>3. pkts'[c] = t
        BY <2>4 DEF t
      <4> QED
        BY <1>6, <4>2, <4>3
    <3>2. CASE k = n + 1
      BY <1>1, <1>6, <2>2, <3>1, <3>2
    <3>3. CASE k # n + 1
      <4>1. k \in 1 .. n /\ open /\ n = Len(s)
        BY <1>6, <3>1, <3>3 DEF n
      <4>2. pkts[b][j] < s[k]
        BY <1>1, <1>5, <1>10, <2>2, <2>4, <4>1 DEF Ascending, s
      <4> QED
        BY <1>6, <2>2, <3>1, <4>1, <4>2
    <3> QED
      BY <3>2, <3>3
  <2> QED
    BY <2>3, <2>4
<1>11. Ascending'
  BY <1>4, <1>8, <1>9, <1>10 DEF Ascending
<1> QED
  BY <1>7, <1>11

\* The callback takes the first of the packets that wait.
LEMMA CallbackTakes ==
  ASSUME RingInv, Callback
  PROVE  LET p == pkts[bd][i + 1]
         IN  /\ Ascending' /\ Waiting' = Waiting \ {p}
             /\ p \in Waiting /\ \A q \in Waiting : p <= q
<1> DEFINE p == pkts[bd][i + 1]
           s == pkts[bd]
<1>1. RxInv /\ Ascending
  BY DEF RingInv
<1>2. /\ pc = "walk" /\ i < Len(s) /\ i' = i + 1 /\ bd \in Index /\ i \in Nat
      /\ UNCHANGED <<version, status, pkts, head, open, arrived, dropped, pc, bd>>
      /\ status[bd] = "user" /\ s \in Seq(1 .. arrived) /\ arrived \in Nat
  BY <1>1 DEF Callback, ringVars, kernelVars, RxInv, RxTypeOK
<1>3. /\ Using(bd) /\ From(bd) = i + 1 /\ From(bd)' = i + 2 /\ i + 1 \in 1 .. Len(s)
      /\ \A b \in Index \ {bd} : From(b) = 1 /\ From(b)' = 1
      /\ \A b \in Index : Using(b)' = Using(b) /\ Rank(b)' = Rank(b)
  BY <1>2 DEF Using, From, Rank
<1>4. p \in Waiting
  BY <1>2, <1>3, WaitingIs
<1>5. \A b \in Index \ {bd} : Rank(bd) < Rank(b)
  BY <1>2, RxAssumption DEF Rank, Index
<1>6. ASSUME NEW b \in Index, Using(b), b # bd, NEW k \in From(b) .. Len(pkts[b])
      PROVE  p < pkts[b][k]
  <2>1. k \in 1 .. Len(pkts[b])
    BY <1>3, <1>6
  <2> QED
    BY <1>1, <1>2, <1>3, <1>5, <1>6, <2>1 DEF Ascending
<1>7. ASSUME NEW k \in i + 2 .. Len(s)
      PROVE  p < s[k]
  <2>1. k \in 1 .. Len(s) /\ i + 1 < k
    BY <1>2
  <2> QED
    BY <1>1, <1>2, <1>3, <2>1 DEF Ascending
<1>8. Waiting \subseteq 1 .. arrived
  BY <1>1, WaitingArrived
<1>9. p \in Nat
  BY <1>2, <1>4, <1>8
<1> HIDE DEF p
<1>10. ASSUME NEW q \in Waiting PROVE q = p \/ (p < q /\ q \in Waiting')
  <2>1. PICK b \in Index : Using(b) /\ \E k \in From(b) .. Len(pkts[b]) : q = pkts[b][k]
    BY WaitingIs
  <2>2. PICK k \in From(b) .. Len(pkts[b]) : q = pkts[b][k]
    BY <2>1
  <2>3. CASE b # bd
    <3>1. Using(b)' /\ k \in From(b)' .. Len(pkts'[b]) /\ q = pkts'[b][k]
      BY <1>2, <1>3, <2>1, <2>2, <2>3
    <3> QED
      BY <1>6, <2>1, <2>2, <2>3, <3>1, WaitingIsNext
  <2>4. CASE b = bd /\ k = i + 1
    BY <2>2, <2>4 DEF p
  <2>5. CASE b = bd /\ k # i + 1
    <3>1. k \in i + 2 .. Len(s) /\ q = s[k]
      BY <1>2, <1>3, <2>2, <2>5
    <3>2. Using(bd)' /\ k \in From(bd)' .. Len(pkts'[bd]) /\ q = pkts'[bd][k]
      BY <1>2, <1>3, <3>1
    <3> QED
      BY <1>2, <1>7, <3>1, <3>2, WaitingIsNext
  <2> QED
    BY <2>3, <2>4, <2>5
<1>11. ASSUME NEW q \in Waiting' PROVE q \in Waiting /\ q # p
  <2>1. PICK b \in Index : Using(b)' /\ \E k \in From(b)' .. Len(pkts'[b]) : q = pkts'[b][k]
    BY WaitingIsNext
  <2>2. PICK k \in From(b)' .. Len(pkts'[b]) : q = pkts'[b][k]
    BY <2>1
  <2>3. Using(b) /\ k \in From(b) .. Len(pkts[b]) /\ q = pkts[b][k]
    BY <1>2, <1>3, <2>1, <2>2
  <2>4. q \in Waiting
    BY <2>3, WaitingIs
  <2>5. p < q
    <3>1. CASE b # bd
      BY <1>6, <2>3, <3>1
    <3>2. CASE b = bd
      <4>1. k \in i + 2 .. Len(s) /\ q = s[k]
        BY <1>2, <1>3, <2>2, <3>2
      <4> QED
        BY <1>7, <4>1
    <3> QED
      BY <3>1, <3>2
  <2>6. q \in Nat
    BY <1>2, <1>8, <2>4
  <2> QED
    BY <1>9, <2>4, <2>5, <2>6
<1>12. Waiting' = Waiting \ {p}
  BY <1>10, <1>11
<1>13. Ascending'
  BY <1>1, <1>2, <1>3, <1>12 DEF Ascending
<1>14. \A q \in Waiting : p <= q
  BY <1>8, <1>9, <1>10
<1> QED
  BY <1>4, <1>12, <1>13, <1>14 DEF p

\* No other step changes what waits.
LEMMA OthersWait ==
  ASSUME RingInv, RxInv',
         Drop \/ Retire \/ Listen \/ Enter \/ Leave \/ Poll \/ PollReturn \/ PollError
  PROVE  Ascending' /\ Waiting' = Waiting
<1>1. RxInv /\ Ascending
  BY DEF RingInv
<1>2. pkts' = pkts /\ bd \in Index /\ head \in Index /\ bd' \in Index
  BY <1>1 DEF Drop, Retire, Listen, Enter, Leave, Poll, PollReturn, PollError, ringVars,
     RxInv, RxTypeOK
<1>3. CASE Leave
  <2>1. /\ pc = "walk" /\ i = Len(pkts[bd]) /\ bd' = After(bd) /\ pc' = "top"
        /\ UNCHANGED <<head, open, dropped>>
        /\ \A b \in Index : status'[b] = IF b = bd THEN "kernel" ELSE status[b]
        /\ status[bd] = "user" /\ ~(bd = head /\ open)
    BY <1>1, <1>2, <1>3 DEF Leave, kernelVars, RxInv, RxTypeOK
  <2>2. /\ \A b \in Index : Using(b)' <=> b # bd /\ Using(b)
        /\ \A b \in Index : b # bd => From(b) = 1 /\ From(b)' = 1
        /\ From(bd) = Len(pkts[bd]) + 1 /\ Len(pkts[bd]) \in Nat
    BY <1>1, <1>2, <2>1 DEF Using, From, RxInv, RxTypeOK
  <2>3. \A b, c \in Index : b # bd /\ c # bd /\ Rank(b)' < Rank(c)' => Rank(b) < Rank(c)
    <3>1. bd' = IF bd = Slots - 1 THEN 0 ELSE bd + 1
      BY <1>2, <2>1, AfterIs
    <3> QED
      BY <1>2, <3>1, RxAssumption DEF Rank, Index
  <2>4. ASSUME NEW q PROVE q \in Waiting' <=> q \in Waiting
    <3>1. ASSUME NEW b \in Index
          PROVE  (Using(b)' /\ \E k \in From(b)' .. Len(pkts'[b]) : q = pkts'[b][k])
                   <=> (Using(b) /\ \E k \in From(b) .. Len(pkts[b]) : q = pkts[b][k])
      <4>1. CASE b = bd
        BY <2>2, <4>1
      <4>2. CASE b # bd
        BY <1>2, <2>2, <4>2
      <4> QED
        BY <4>1, <4>2
    <3> QED
      BY <3>1, WaitingIs, WaitingIsNext
  <2>5. Waiting' = Waiting
    BY <2>4
  <2> QED
    BY <1>1, <1>2, <2>1, <2>2, <2>3, <2>5, SMTT(40) DEF Ascending
<1>4. CASE ~Leave
  <2>1. /\ bd' = bd /\ \A b \in Index : From(b)' = From(b)
    BY <1>4 DEF Drop, Retire, Listen, Enter, Poll, PollReturn, PollError, userVars, From
  <2>2. \A b \in Index : Using(b)' = Using(b)
    <3>1. CASE Retire
      <4>1. /\ open /\ open' = FALSE
            /\ \A b \in Index : status'[b] = IF b = head THEN "user" ELSE status[b]
        BY <1>1, <3>1 DEF Retire, RxInv, RxTypeOK
      <4> QED
        BY <1>2, <4>1 DEF Using
    <3>2. CASE ~Retire
      BY <1>4, <3>2 DEF Drop, Listen, Enter, Poll, PollReturn, PollError, ringVars, kernelVars, Using
    <3> QED
      BY <3>1, <3>2
  <2>3. Waiting' = Waiting
    <3>1. ASSUME NEW q PROVE q \in Waiting' <=> q \in Waiting
      <4>1. \A b \in Index :
              (Using(b)' /\ \E k \in From(b)' .. Len(pkts'[b]) : q = pkts'[b][k])
                <=> (Using(b) /\ \E k \in From(b) .. Len(pkts[b]) : q = pkts[b][k])
        BY <1>2, <2>1, <2>2
      <4> QED
        BY <4>1, WaitingIs, WaitingIsNext
    <3> QED
      BY <3>1
  <2>4. Waiting \cap dropped' = {}
    <3>1. CASE Drop
      <4>1. dropped' = dropped \cup {arrived + 1}
        BY <3>1 DEF Drop
      <4>2. Waiting \subseteq 1 .. arrived /\ arrived \in Nat
        BY <1>1, WaitingArrived DEF RxInv
      <4> QED
        BY <1>1, <4>1, <4>2 DEF Ascending
    <3>2. CASE ~Drop
      BY <1>1, <1>4, <3>2 DEF Retire, Listen, Enter, Poll, PollReturn, PollError, kernelVars, Ascending
    <3> QED
      BY <3>1, <3>2
  <2>5. \A b \in Index : Rank(b)' = Rank(b)
    BY <2>1 DEF Rank
  <2> QED
    BY <1>1, <1>2, <2>2, <2>3, <2>4, <2>5 DEF Ascending
<1> QED
  BY <1>3, <1>4

-------------------------------------------------------------------------------
(* What has passed *)

\* s holds, in the order of arrival, those of the first n packets that are in
\* W, not in D (dropped) and not in U (waiting), and all of U is behind them.
Delivered(s, n, W, D, U) ==
  /\ s \in Seq(Nat)
  /\ \A k \in 1 .. Len(s) - 1 : s[k] < s[k + 1]
  /\ \A k \in 1 .. Len(s), q \in U : s[k] < q
  /\ {s[k] : k \in 1 .. Len(s)} = (1 .. n \cap W) \ (D \cup U)

\* The first of those that wait passes, if it is wanted.
LEMMA FirstPasses ==
  ASSUME NEW n \in Nat, NEW W, NEW D, NEW U \in SUBSET (1 .. n), U \cap D = {},
         NEW s, Delivered(s, n, W, D, U), NEW p \in U, \A q \in U : p <= q
  PROVE  Delivered(IF p \in W THEN Append(s, p) ELSE s, n, W, D, U \ {p})
<1>1. p \in 1 .. n /\ p \in Nat /\ p \notin D
  OBVIOUS
<1>2. CASE p \notin W
  BY <1>2 DEF Delivered
<1>3. CASE p \in W
  <2> DEFINE t == Append(s, p)
  <2>1. s \in Seq(Nat) /\ Len(s) \in Nat
    BY DEF Delivered
  <2>2. /\ t \in Seq(Nat) /\ Len(t) = Len(s) + 1 /\ t[Len(s) + 1] = p
        /\ \A k \in 1 .. Len(s) : t[k] = s[k]
    BY <1>1, <2>1
  <2>3. \A k \in 1 .. Len(s) : s[k] < p /\ s[k] \in Nat
    BY <2>1, ElementOfSeq DEF Delivered
  <2> HIDE DEF t
  <2>4. \A k \in 1 .. Len(t) - 1 : t[k] < t[k + 1]
    <3> TAKE k \in 1 .. Len(t) - 1
    <3>1. k \in 1 .. Len(s) /\ k \in 1 .. Len(t)
      BY <2>1, <2>2
    <3>2. CASE k = Len(s)
      BY <2>2, <2>3, <3>1, <3>2
    <3>3. CASE k # Len(s)
      <4>1. k \in 1 .. Len(s) - 1 /\ k + 1 \in 1 .. Len(s)
        BY <2>1, <3>1, <3>3
      <4> QED
        BY <2>2, <3>1, <4>1 DEF Delivered
    <3> QED
      BY <3>2, <3>3
  <2>5. \A q \in U \ {p} : q \in Nat /\ p < q
    BY <1>1
  <2>6. \A k \in 1 .. Len(t), q \in U \ {p} : t[k] < q
    <3> TAKE k \in 1 .. Len(t), q \in U \ {p}
    <3>1. CASE k = Len(s) + 1
      BY <2>2, <2>5, <3>1
    <3>2. CASE k # Len(s) + 1
      <4>1. k \in 1 .. Len(s)
        BY <2>1, <2>2, <3>2
      <4> QED
        BY <2>2, <4>1 DEF Delivered
    <3> QED
      BY <3>1, <3>2
  <2>7. {t[k] : k \in 1 .. Len(t)} = {s[k] : k \in 1 .. Len(s)} \cup {p}
    <3>1. \A k \in 1 .. Len(t) : k \in 1 .. Len(s) \/ k = Len(s) + 1
      BY <2>1, <2>2
    <3>2. 1 .. Len(s) \subseteq 1 .. Len(t) /\ Len(s) + 1 \in 1 .. Len(t)
      BY <2>1, <2>2
    <3> QED
      BY <2>2, <3>1, <3>2
  <2>8. {s[k] : k \in 1 .. Len(s)} = (1 .. n \cap W) \ (D \cup U)
    BY DEF Delivered
  <2>9. {t[k] : k \in 1 .. Len(t)} = (1 .. n \cap W) \ (D \cup (U \ {p}))
    BY <1>1, <1>3, <2>7, <2>8
  <2>10. Delivered(t, n, W, D, U \ {p})
    BY <2>2, <2>4, <2>6, <2>9 DEF Delivered
  <2> QED
    BY <1>3, <2>10 DEF t
<1> QED
  BY <1>2, <1>3

\* A packet arrives, to wait or to be dropped.
LEMMA OneArrives ==
  ASSUME NEW n \in Nat, NEW W, NEW D, NEW U \in SUBSET (1 .. n),
         NEW s, Delivered(s, n, W, D, U)
  PROVE  /\ Delivered(s, n + 1, W, D, U \cup {n + 1})
         /\ Delivered(s, n + 1, W, D \cup {n + 1}, U)
<1>1. {s[k] : k \in 1 .. Len(s)} = (1 .. n \cap W) \ (D \cup U)
  BY DEF Delivered
<1>2. \A k \in 1 .. Len(s) : s[k] \in 1 .. n
  BY <1>1
<1>3. \A k \in 1 .. Len(s) : s[k] < n + 1
  BY <1>2
<1>4. 1 .. n + 1 = (1 .. n) \cup {n + 1}
  OBVIOUS
<1>5. /\ (1 .. n + 1 \cap W) \ (D \cup (U \cup {n + 1})) = (1 .. n \cap W) \ (D \cup U)
      /\ (1 .. n + 1 \cap W) \ ((D \cup {n + 1}) \cup U) = (1 .. n \cap W) \ (D \cup U)
  <2>1. n + 1 \notin 1 .. n
    OBVIOUS
  <2> QED
    BY <1>4, <2>1, Zenon
<1> QED
  BY <1>1, <1>3, <1>5 DEF Delivered

\* The state of the receive path as a whole.
Passing(s, W) == Delivered(s, arrived, W, dropped, Waiting)

\* A step of the ring keeps RingInv; it delivers the packet the callback sees,
\* and otherwise nothing, whatever is wanted.
LEMMA RingStep ==
  ASSUME RingInv, RxNext, NEW s, NEW W, Passing(s, W)
  PROVE  /\ RingInv'
         /\ Callback =>
              Delivered(IF pkts[bd][i + 1] \in W THEN Append(s, pkts[bd][i + 1]) ELSE s,
                        arrived', W, dropped', Waiting')
         /\ ~Callback => Delivered(s, arrived', W, dropped', Waiting')
<1>1. RxInv'
  BY RxNextInv DEF RingInv
<1>2. /\ arrived \in Nat /\ Waiting \in SUBSET (1 .. arrived) /\ Waiting \cap dropped = {}
      /\ Delivered(s, arrived, W, dropped, Waiting)
  BY WaitingArrived DEF RingInv, RxInv, Ascending, Passing
<1>3. CASE Callback
  <2> DEFINE p == pkts[bd][i + 1]
  <2>1. /\ Ascending' /\ Waiting' = Waiting \ {p}
        /\ p \in Waiting /\ \A q \in Waiting : p <= q
    BY <1>3, CallbackTakes
  <2>2. arrived' = arrived /\ dropped' = dropped
    BY <1>3 DEF Callback, kernelVars
  <2> HIDE DEF p
  <2>3. Delivered(IF p \in W THEN Append(s, p) ELSE s, arrived, W, dropped, Waiting \ {p})
    BY <1>2, <2>1, FirstPasses
  <2> QED
    BY <1>1, <1>3, <2>1, <2>2, <2>3 DEF RingInv, p
<1>4. CASE Put
  <2>1. Ascending' /\ Waiting' = Waiting \cup {arrived'}
    BY <1>4, PutWaits
  <2>2. arrived' = arrived + 1 /\ dropped' = dropped /\ ~Callback
    <3>1. arrived' = arrived + 1 /\ dropped' = dropped
      BY <1>4 DEF Put
    <3>2. Callback => arrived' = arrived
      BY DEF Callback, kernelVars
    <3> QED
      BY <1>2, <3>1, <3>2
  <2>3. Delivered(s, arrived + 1, W, dropped, Waiting \cup {arrived + 1})
    BY <1>2, OneArrives
  <2> QED
    BY <1>1, <2>1, <2>2, <2>3 DEF RingInv
<1>5. CASE Drop
  <2>1. Ascending' /\ Waiting' = Waiting
    BY <1>1, <1>5, OthersWait
  <2>2. arrived' = arrived + 1 /\ dropped' = dropped \cup {arrived + 1} /\ ~Callback
    BY <1>2, <1>5 DEF Drop, Callback, kernelVars
  <2>3. Delivered(s, arrived + 1, W, dropped \cup {arrived + 1}, Waiting)
    BY <1>2, OneArrives
  <2> QED
    BY <1>1, <2>1, <2>2, <2>3 DEF RingInv
<1>6. CASE Retire \/ Listen \/ Enter \/ Leave \/ Poll \/ PollReturn \/ PollError
  <2>1. Ascending' /\ Waiting' = Waiting
    BY <1>1, <1>6, OthersWait
  <2>2. arrived' = arrived /\ dropped' = dropped
    BY <1>6 DEF Retire, Listen, Enter, Leave, Poll, PollReturn, PollError, kernelVars
  <2>3. ~Callback
    BY <1>6 DEF Retire, Listen, Enter, Leave, Poll, PollReturn, PollError, Callback, userVars,
       kernelVars
  <2> QED
    BY <1>1, <1>2, <2>1, <2>2, <2>3 DEF RingInv
<1> QED
  BY <1>3, <1>4, <1>5, <1>6, Zenon DEF RxNext, Listener

\* Nothing has changed.
LEMMA RingStutter ==
  ASSUME RingInv, UNCHANGED rxRingVars
  PROVE  RingInv' /\ Waiting' = Waiting /\ arrived' = arrived /\ dropped' = dropped
<1>1. RxInv'
  BY RxNextInv DEF RingInv
<1>2. UNCHANGED <<version, status, pkts, head, open, arrived, dropped, pc, bd, i, passed>>
  BY DEF rxRingVars, ringVars, kernelVars, userVars
<1>3. Waiting' = Waiting
  BY <1>2 DEF Waiting, Unseen
<1>4. Ascending'
  BY <1>2, <1>3, ZenonT(40) DEF RingInv, Ascending, Using, Rank
<1> QED
  BY <1>1, <1>2, <1>3, <1>4 DEF RingInv

\* At first the ring is empty.
LEMMA RingStart ==
  ASSUME RxInit
  PROVE  RingInv /\ \A W : Passing(<<>>, W)
<1>1. RxInv
  BY RxInitInv
<1>2. \A b \in Index : ~Using(b)
  BY DEF RxInit, Using
<1>3. Waiting = {}
  BY <1>2, WaitingIs
<1>4. Ascending
  BY <1>2, <1>3 DEF Ascending
<1>5. arrived = 0 /\ dropped = {}
  BY DEF RxInit
<1> QED
  BY <1>1, <1>3, <1>4, <1>5 DEF RingInv, Passing, Delivered

-------------------------------------------------------------------------------
(* Theorems *)

\* The ring keeps its types: no slot holds more than it has room for, and
\* kernel and Listen stay inside the ring.
THEOREM RxTypes == RxSpec => []RxTypeOK
<1>1. RxInv => RxTypeOK
  BY DEF RxInv
<1> QED
  BY <1>1, RxInitInv, RxNextInv, PTL DEF RxSpec

\* The kernel never meets a slot Listen has still to hand back while another
\* slot is free: a packet is dropped only when the whole ring is full.
THEOREM DropsWhenFull == RxSpec => DropsOnlyWhenFull
<1>1. RxInv /\ Drop => \A b \in Index : status[b] = "user"
  BY DEF RxInv, RxTypeOK, HandedOver, Arc, Drop, Index
<1> QED
  BY <1>1, RxInitInv, RxNextInv, PTL DEF RxSpec, DropsOnlyWhenFull

\* From the kernel to the callback, no packet is lost, doubled or overtaken that
\* the kernel did not drop, whoever of kernel and Listen is ahead in the ring.
THEOREM RingPassesAll == RxSpec => []RingLosesNothing
<1> DEFINE Inv == RingInv /\ Passing(passed, Wanted)
<1>1. RxInit => Inv
  BY RingStart DEF RxInit
<1>2. Inv /\ [RxNext]_rxRingVars => Inv'
  <2> SUFFICES ASSUME Inv, [RxNext]_rxRingVars PROVE Inv'
    OBVIOUS
  <2>1. CASE RxNext
    <3>1. /\ RingInv'
          /\ Callback => Delivered(IF pkts[bd][i + 1] \in Wanted THEN Append(passed, pkts[bd][i + 1])
                                   ELSE passed, arrived', Wanted, dropped', Waiting')
          /\ ~Callback => Delivered(passed, arrived', Wanted, dropped', Waiting')
      BY <2>1, RingStep
    <3>2. Callback => passed' = IF pkts[bd][i + 1] \in Wanted THEN Append(passed, pkts[bd][i + 1])
                                ELSE passed
      BY DEF Callback, PassOn
    <3>3. ~Callback => passed' = passed
      BY <2>1 DEF RxNext, Listener, Put, Drop, Retire, Listen, Enter, Leave, Poll, PollReturn,
         PollError, userVars
    <3> QED
      BY <3>1, <3>2, <3>3 DEF Passing
  <2>2. CASE UNCHANGED rxRingVars
    <3>1. passed' = passed
      BY <2>2 DEF rxRingVars, userVars
    <3> QED
      BY <2>2, <3>1, RingStutter DEF Passing
  <2> QED
    BY <2>1, <2>2
<1>3. Inv => RingLosesNothing
  BY DEF Passing, Delivered, Waiting, RingLosesNothing
<1> QED
  BY <1>1, <1>2, <1>3, PTL DEF RxSpec

\* With gotBuff, the channel and requestLoop behind the callback, the ring is
\* used in no other way.
THEOREM RingClientImplementsRing == RingClientSpec => RxSpec
<1>1. RingClientInit => RxInit
  BY DEF RingClientInit
<1>2. [RingClientNext]_ringClientVars => [RxNext]_rxRingVars
  BY Zenon DEF RingClientNext, Kernel, Retires, DoMsgLoop, Listening, Interrupted,
     RingCallback, RequestLoopTakes, RequestLoopEnds, RxNext, Listener, ringClientVars
<1> QED
  BY <1>1, <1>2, PTL DEF RingClientSpec, RxSpec

\* requestLoop takes the packets gotBuff accepts in the order of their arrival,
\* each once, and none is lost behind the kernel, however slow requestLoop is.
THEOREM LoopTakesAll == RingClientSpec => []InOrderToLoop
<1> DEFINE seen == taken \o ch
           Inv == RingInv /\ Passing(seen, Sound) /\ taken \in Seq(Nat) /\ ch \in Seq(Nat)
<1>1. RingClientInit => Inv
  <2> SUFFICES ASSUME RingClientInit PROVE Inv
    OBVIOUS
  <2>1. seen = <<>> /\ taken \in Seq(Nat) /\ ch \in Seq(Nat)
    BY DEF RingClientInit
  <2> HIDE DEF seen
  <2> QED
    BY <2>1, RingStart DEF RingClientInit
<1>2. Inv /\ [RingClientNext]_ringClientVars => Inv'
  <2> SUFFICES ASSUME Inv, [RingClientNext]_ringClientVars PROVE Inv'
    OBVIOUS
  <2>1. CASE RingCallback
    <3> DEFINE p == pkts[bd][i + 1]
    <3>1. RxNext /\ Callback
      BY <2>1 DEF RingCallback, RxNext, Listener
    <3>2. RingInv' /\ Delivered(IF p \in Sound THEN Append(seen, p) ELSE seen,
                                arrived', Sound, dropped', Waiting')
      BY <3>1, RingStep
    <3>3. taken' = taken /\ ch' = IF p \in Sound THEN Append(ch, p) ELSE ch
      BY <2>1, RingClientAssumption DEF RingCallback, GotBuff, clientVars
    <3>4. p \in Nat
      <4>1. p \in Waiting
        BY <3>1, CallbackTakes
      <4>2. Waiting \subseteq 1 .. arrived /\ arrived \in Nat
        BY WaitingArrived DEF RingInv, RxInv
      <4> HIDE DEF p
      <4> QED
        BY <4>1, <4>2
    <3> HIDE DEF p
    <3>5. ch' \in Seq(Nat) /\ seen' = IF p \in Sound THEN Append(seen, p) ELSE seen
      <4>1. <<p>> \in Seq(Nat) /\ seen \in Seq(Nat)
        BY <3>4
      <4>2. Append(ch, p) = ch \o <<p>> /\ Append(seen, p) = seen \o <<p>>
        BY <3>4, <4>1, AppendIsConcat
      <4>3. taken \o (ch \o <<p>>) = (taken \o ch) \o <<p>>
        BY <4>1, ConcatAssociative
      <4>4. Append(ch, p) \in Seq(Nat)
        BY <3>4
      <4> QED
        BY <3>3, <4>2, <4>3, <4>4
    <3> QED
      BY <3>2, <3>3, <3>5 DEF Passing
  <2>2. CASE RequestLoopTakes
    <3>1. /\ ch # <<>> /\ taken' = Append(taken, Head(ch)) /\ ch' = Tail(ch)
          /\ UNCHANGED rxRingVars
      BY <2>2 DEF RequestLoopTakes
    <3>2. taken' \in Seq(Nat) /\ ch' \in Seq(Nat) /\ seen' = seen
      BY <3>1
    <3> QED
      BY <3>1, <3>2, RingStutter DEF Passing
  <2>3. CASE RequestLoopEnds \/ UNCHANGED ringClientVars
    <3>1. UNCHANGED rxRingVars /\ taken' = taken /\ ch' = ch
      BY <2>3 DEF RequestLoopEnds, ringClientVars, clientVars
    <3> QED
      BY <3>1, RingStutter DEF Passing
  <2>4. CASE \/ Kernel \/ Retires \/ DoMsgLoop \/ Interrupted
             \/ (Enter \/ Leave \/ Poll \/ PollReturn) /\ UNCHANGED clientVars
    <3>1. RxNext /\ taken' = taken /\ ch' = ch
      BY <2>4 DEF Kernel, Retires, DoMsgLoop, Interrupted, clientVars, RxNext, Listener
    <3>2. ~Callback
      <4>1. Put \/ Drop \/ Retire \/ Listen \/ PollError \/ Enter \/ Leave \/ Poll \/ PollReturn
        BY <2>4 DEF Kernel, Retires, DoMsgLoop, Interrupted
      <4>2. arrived \in Nat
        BY DEF RingInv, RxInv
      <4> QED
        BY <4>1, <4>2, SMTT(40) DEF Put, Drop, Retire, Listen, Enter, Leave, Poll, PollReturn,
           PollError, Callback, userVars, kernelVars
    <3> QED
      BY <3>1, <3>2, RingStep DEF Passing
  <2> QED
    BY <2>1, <2>2, <2>3, <2>4, Zenon DEF RingClientNext, Listening
<1>3. Inv => InOrderToLoop
  BY DEF Passing, Delivered, Waiting, InOrderToLoop
<1> QED
  BY <1>1, <1>2, <1>3, PTL DEF RingClientSpec

===============================================================================
