---------------------------- MODULE RSocketProofs ----------------------------
(***************************************************************************)
(* Proofs about RSocket, for any number of goroutines, any size of the     *)
(* global arrays and any lengths of packets.                               *)
(***************************************************************************)
EXTENDS RSocket, SequenceTheorems, TLAPS

-------------------------------------------------------------------------------
(* The inductive invariant *)

Ops == {"Sendmmsg", "Sendmmsg2", "Recvmmsg"}
PCs == {"idle", "setUp", "called", "done", "port5", "port13", "attach", "panic"}

\* Entry j has been set up, by whichever call.
Arranged(j) == Capacity(dgrams[j]) \in Nat

\* The arrays and the goroutines' own variables.
RSTypes ==
  /\ DOMAIN dgrams = Entries
  /\ \A j \in Entries :
       /\ dgrams[j].len \in Nat
       /\ dgrams[j] = [name |-> dgrams[j].name, iov |-> dgrams[j].iov, len |-> dgrams[j].len]
  /\ filter = <<filter[1], filter[2]>> /\ DOMAIN attached = Callers
  /\ pc \in [Callers -> PCs]
  /\ op \in [Callers -> Ops \cup {"none", "setBPF"}]
  /\ bufs \in [Callers -> Seq(Nat)] /\ lens \in [Callers -> Seq(Nat)]
  /\ buffs = [c \in Callers |-> [i \in 1 .. MaxBatch |-> Room]]
  /\ entry \in [Callers -> 0 .. MaxBatch] /\ DOMAIN used = Callers
  /\ overlap \in BOOLEAN

\* A goroutine that makes no call, or one on the other array.
AtRest == \A c \in Callers : /\ pc[c] = "idle" => entry[c] = 0
                             /\ Filtering(c) => op[c] = "setBPF"

\* A call in the course of setting up its entries.
SettingUp ==
  \A c \in Callers : pc[c] = "setUp" =>
    /\ op[c] \in Ops /\ entry[c] <= Size(c)
    /\ \A j \in Entries : j < entry[c] => Arranged(j)
    /\ op[c] = "Recvmmsg" => bufs[c] = buffs[c]

\* A call that is reading back the lengths.
ReadingBack ==
  \A c \in Callers : pc[c] = "called" =>
    /\ op[c] = "Recvmmsg" /\ Len(bufs[c]) = MaxBatch
    /\ Len(lens[c]) <= MaxBatch /\ entry[c] <= Len(lens[c])

\* No two calls that share an array are under way ...
Alone ==
  \A c, d \in Callers : /\ Batching(c) /\ Batching(d) => c = d
                        /\ Filtering(c) /\ Filtering(d) => c = d

\* ... and what a call has written is there.
FilterOwn ==
  \A c \in Callers : /\ pc[c] = "port13" => filter[1] = c
                     /\ pc[c] = "attach" => filter = <<c, c>>
                     /\ attached[c] \in {<<>>, <<c, c>>}

BatchOwnOf(c) ==
  /\ pc[c] = "setUp" =>
       \A j \in Entries : j < entry[c] => Given(dgrams[j]) = Asked(c)[j + 1]
  /\ pc[c] = "called" =>
       /\ used[c] = Asked(c)
       /\ \A j \in 1 .. Len(lens[c]) : dgrams[j - 1].len = lens[c][j] /\ lens[c][j] <= Room
       /\ \A j \in 1 .. entry[c] : bufs[c][j] = lens[c][j]
  /\ pc[c] = "done" /\ op[c] \in {"Sendmmsg", "Sendmmsg2"} => used[c] = Asked(c)
  /\ pc[c] = "done" /\ op[c] = "Recvmmsg" => SubSeq(bufs[c], 1, Len(lens[c])) = lens[c]
  /\ pc[c] = "panic" => op[c] # "Recvmmsg" /\ Empty(c)

BatchOwn == \A c \in Callers : BatchOwnOf(c)

Shape == RSTypes /\ AtRest /\ SettingUp /\ ReadingBack

RSInv == /\ Shape
         /\ ~overlap => Alone /\ FilterOwn /\ BatchOwn

-------------------------------------------------------------------------------
(* Facts about the operators *)

\* bSize is a number of entries.
LEMMA SizeIs ==
  ASSUME RSTypes, NEW c \in Callers
  PROVE  Size(c) \in 0 .. MaxBatch /\ Size(c) <= Len(bufs[c]) /\ Len(bufs[c]) \in Nat
BY RSocketAssumption DEF Size, RSTypes

\* An entry set up is one the kernel can use.
LEMMA SetUpFits ==
  ASSUME RSInv, NEW c \in Callers, pc[c] = "setUp", entry[c] < Size(c)
  PROVE  LET e == SetUpEntry(c, entry[c])
         IN  /\ e = [name |-> e.name, iov |-> e.iov, len |-> e.len]
             /\ e.len \in Nat /\ Capacity(e) \in Nat
<1>1. /\ op[c] \in Ops /\ entry[c] \in Nat /\ entry[c] + 1 \in 1 .. Len(bufs[c])
  BY SizeIs DEF RSInv, Shape, SettingUp, RSTypes
<1>2. bufs[c][entry[c] + 1] \in Nat /\ HdrLen \in Nat
  BY <1>1, RSocketAssumption DEF RSInv, Shape, RSTypes
<1>3. CASE op[c] = "Sendmmsg"
  BY <1>2, <1>3 DEF SetUpEntry, Capacity
<1>4. CASE op[c] = "Sendmmsg2"
  BY <1>2, <1>4 DEF SetUpEntry, Capacity
<1>5. CASE op[c] = "Recvmmsg"
  BY <1>2, <1>5 DEF SetUpEntry, Capacity
<1> QED
  BY <1>1, <1>3, <1>4, <1>5 DEF Ops

\* The entry the call sets up is the one it means the kernel to use.
LEMMA SetUpAsked ==
  ASSUME RSInv, NEW c \in Callers, pc[c] = "setUp", entry[c] < Size(c)
  PROVE  Given(SetUpEntry(c, entry[c])) = Asked(c)[entry[c] + 1]
<1> DEFINE e == entry[c]
           k == e + 1
<1>1. /\ op[c] \in Ops /\ k \in 1 .. Size(c) /\ k \in 1 .. MaxBatch
      /\ k - 1 = e /\ (k = 1 <=> e = 0)
  <2>1. Size(c) \in 0 .. MaxBatch /\ e \in Nat /\ MaxBatch \in Nat /\ op[c] \in Ops
    BY SizeIs, RSocketAssumption DEF RSInv, Shape, RSTypes, SettingUp
  <2> QED
    BY <2>1
<1>2. op[c] = "Recvmmsg" => bufs[c][k] = Room
  <2>1. op[c] = "Recvmmsg" => bufs[c] = buffs[c]
    BY Zenon DEF RSInv, Shape, SettingUp
  <2>2. buffs[c] = [j \in 1 .. MaxBatch |-> Room]
    BY Zenon DEF RSInv, Shape, RSTypes
  <2>3. buffs[c][k] = Room
    BY <1>1, <2>2, Zenon
  <2> QED
    BY <2>1, <2>3, Zenon
<1>3. SetUpEntry(c, e) = CASE op[c] = "Sendmmsg" ->
            [name |-> <<c, "taddr">>, iov |-> <<<<<<c, "buf", e>>, bufs[c][k]>>>>, len |-> bufs[c][k]]
       [] op[c] = "Sendmmsg2" ->
            [name |-> <<c, "taddr">>,
             iov |-> <<<<<<c, "pktHdr">>, HdrLen>>, <<<<c, "buf", e>>, bufs[c][k]>>>>,
             len |-> bufs[c][k] + HdrLen]
       [] OTHER ->
            [name |-> IF e = 0 THEN <<c, "raddr">> ELSE Null,
             iov |-> <<<<<<c, "buf", e>>, bufs[c][k]>>>>, len |-> bufs[c][k]]
  BY DEF SetUpEntry
<1>4. Asked(c)[k] = CASE op[c] = "Sendmmsg" ->
            [name |-> <<c, "taddr">>, iov |-> <<<<<<c, "buf", e>>, bufs[c][k]>>>>]
       [] op[c] = "Sendmmsg2" ->
            [name |-> <<c, "taddr">>,
             iov |-> <<<<<<c, "pktHdr">>, HdrLen>>, <<<<c, "buf", e>>, bufs[c][k]>>>>]
       [] OTHER ->
            [name |-> IF e = 0 THEN <<c, "raddr">> ELSE Null,
             iov |-> <<<<<<c, "buf", e>>, Room>>>>]
  BY <1>1, Zenon DEF Asked
<1> SUFFICES Given(SetUpEntry(c, e)) = Asked(c)[k]
  OBVIOUS
<1> HIDE DEF e, k
<1>5. CASE op[c] = "Sendmmsg"
  BY <1>3, <1>4, <1>5 DEF Given
<1>6. CASE op[c] = "Sendmmsg2"
  BY <1>3, <1>4, <1>6 DEF Given
<1>7. CASE op[c] = "Recvmmsg"
  BY <1>2, <1>3, <1>4, <1>7 DEF Given
<1> QED
  BY <1>1, <1>5, <1>6, <1>7 DEF Ops

-------------------------------------------------------------------------------
(* Types *)

\* A call begins, and no entry is set up yet.
LEMMA CallShape ==
  ASSUME RSInv, NEW c \in Callers, CallSend(c) \/ CallRecv(c)
  PROVE  Shape'
<1> USE RSocketAssumption
<1>1. PICK f \in Ops, b \in Seq(Nat) :
        /\ op' = [op EXCEPT ![c] = f] /\ bufs' = [bufs EXCEPT ![c] = b]
        /\ f = "Recvmmsg" => b = buffs[c]
  <2>1. CASE CallSend(c)
    <3>1. PICK f \in {"Sendmmsg", "Sendmmsg2"}, n \in 0 .. MaxBatch + 1 :
            /\ op' = [op EXCEPT ![c] = f]
            /\ \E ls \in [1 .. n -> Lens] : bufs' = [bufs EXCEPT ![c] = ls]
      BY <2>1, Zenon DEF CallSend
    <3>2. PICK ls \in [1 .. n -> Lens] : bufs' = [bufs EXCEPT ![c] = ls]
      BY <3>1, Zenon
    <3>3. n \in Nat /\ ls \in [1 .. n -> Nat]
      <4>1. Lens \subseteq Nat /\ MaxBatch \in Nat
        OBVIOUS
      <4>2. n \in Nat
        BY <4>1, SMT
      <4>3. ls \in [1 .. n -> Nat]
        BY <4>1, Zenon
      <4> QED
        BY <4>2, <4>3
    <3>4. ls \in Seq(Nat)
      BY <3>3
    <3> QED
      BY <3>1, <3>2, <3>4 DEF Ops
  <2>2. CASE CallRecv(c)
    <3>1. buffs[c] = [j \in 1 .. MaxBatch |-> Room]
      BY DEF RSInv, Shape, RSTypes
    <3>2. [j \in 1 .. MaxBatch |-> Room] \in Seq(Nat)
      OBVIOUS
    <3> QED
      BY <2>2, <3>1, <3>2 DEF CallRecv, Ops
  <2> QED
    BY <2>1, <2>2
<1>2. /\ pc[c] = "idle" /\ pc' = [pc EXCEPT ![c] = "setUp"]
      /\ overlap' \in BOOLEAN
      /\ UNCHANGED <<dgrams, filter, attached, buffs, entry, used, lens>>
  BY DEF CallSend, CallRecv, RSInv, Shape, RSTypes
<1>3. RSTypes'
  BY <1>1, <1>2 DEF RSInv, Shape, RSTypes, Ops, PCs
<1>4. entry[c] = 0
  BY <1>2 DEF RSInv, Shape, AtRest, Filtering
<1>5. AtRest' /\ ReadingBack'
  BY <1>1, <1>2 DEF RSInv, Shape, AtRest, Filtering, ReadingBack, RSTypes
<1>6. SettingUp'
  <2> SUFFICES ASSUME NEW d \in Callers, pc'[d] = "setUp"
               PROVE  /\ op'[d] \in Ops /\ entry'[d] <= Size(d)'
                      /\ \A j \in Entries : j < entry'[d] => Arranged(j)'
                      /\ op'[d] = "Recvmmsg" => bufs'[d] = buffs'[d]
    BY DEF SettingUp
  <2>1. CASE d = c
    <3>1. /\ op'[d] \in Ops /\ bufs'[d] \in Seq(Nat)
          /\ op'[d] = "Recvmmsg" => bufs'[d] = buffs'[d]
      BY <1>1, <1>2, <2>1 DEF RSInv, Shape, RSTypes
    <3>2. 0 <= Size(d)'
      BY <3>1 DEF Size
    <3> QED
      BY <1>2, <1>4, <2>1, <3>1, <3>2 DEF Entries
  <2>2. CASE d # c
    <3>1. /\ pc[d] = "setUp" /\ op'[d] = op[d] /\ bufs'[d] = bufs[d]
      BY <1>1, <1>2, <2>2 DEF RSInv, Shape, RSTypes
    <3>2. \A j \in Entries : Arranged(j)' = Arranged(j)
      BY <1>2 DEF Arranged, Capacity
    <3> QED
      BY <1>2, <3>1, <3>2 DEF RSInv, Shape, SettingUp, Size
  <2> QED
    BY <2>1, <2>2
<1> QED
  BY <1>3, <1>5, <1>6 DEF Shape

\* One more entry is set up.
LEMMA SetUpShape ==
  ASSUME RSInv, NEW c \in Callers, SetUp(c)
  PROVE  Shape'
<1> DEFINE n == entry[c]
           e == SetUpEntry(c, n)
<1>1. /\ pc[c] = "setUp" /\ n < Size(c) /\ entry' = [entry EXCEPT ![c] = n + 1]
      /\ dgrams' = [dgrams EXCEPT ![n] = e]
      /\ UNCHANGED <<filter, attached, pc, op, bufs, buffs, used, lens, overlap>>
  BY DEF SetUp
<1>2. /\ e = [name |-> e.name, iov |-> e.iov, len |-> e.len]
      /\ e.len \in Nat /\ Capacity(e) \in Nat
  BY <1>1, SetUpFits
<1>3. Size(c) \in 0 .. MaxBatch /\ n \in Nat /\ MaxBatch \in Nat
  BY SizeIs, RSocketAssumption DEF RSInv, Shape, RSTypes
<1>4. n \in Entries /\ n + 1 \in 0 .. MaxBatch /\ n + 1 <= Size(c)
  BY <1>1, <1>3 DEF Entries
<1> HIDE DEF n, e
<1>5. \A j \in Entries : dgrams'[j] = IF j = n THEN e ELSE dgrams[j]
  BY <1>1, <1>4 DEF RSInv, Shape, RSTypes
<1>6. RSTypes'
  BY <1>1, <1>2, <1>4, <1>5 DEF RSInv, Shape, RSTypes
<1>7. \A d \in Callers : entry'[d] = IF d = c THEN n + 1 ELSE entry[d]
  BY <1>1 DEF RSInv, Shape, RSTypes
<1>8. AtRest' /\ ReadingBack'
  BY <1>1, <1>7 DEF RSInv, Shape, AtRest, Filtering, ReadingBack
<1>9. SettingUp'
  <2> SUFFICES ASSUME NEW d \in Callers, pc[d] = "setUp"
               PROVE  /\ entry'[d] <= Size(d)
                      /\ \A j \in Entries : j < entry'[d] => Arranged(j)'
    BY <1>1, Zenon DEF RSInv, Shape, SettingUp, Size
  <2>1. \A j \in Entries : Arranged(j)' = IF j = n THEN TRUE ELSE Arranged(j)
    BY <1>2, <1>5 DEF Arranged, Capacity
  <2>2. entry[d] <= Size(d) /\ \A j \in Entries : j < entry[d] => Arranged(j)
    BY DEF RSInv, Shape, SettingUp
  <2>3. \A j \in Entries : j < n + 1 => j < n \/ j = n
    BY <1>3 DEF Entries
  <2>4. n = entry[c]
    BY DEF n
  <2> QED
    BY <1>4, <1>7, <2>1, <2>2, <2>3, <2>4
<1> QED
  BY <1>6, <1>8, <1>9 DEF Shape

\* The kernel writes lengths into entries that are set up.
LEMMA RecvCallShape ==
  ASSUME RSInv, NEW c \in Callers, RecvCall(c)
  PROVE  /\ Shape'
         /\ Len(lens'[c]) <= Size(c)
         /\ \A j \in Entries : Given(dgrams'[j]) = Given(dgrams[j])
         /\ \A j \in 1 .. Len(lens'[c]) : dgrams'[j - 1].len = lens'[c][j]
<1>1. PICK n \in 1 .. Size(c), l \in Lens :
        /\ lens' = [lens EXCEPT ![c] = Lengths(n, l)]
        /\ dgrams' = [j \in Entries |->
                        IF j < n THEN [dgrams[j] EXCEPT !.len = Lengths(n, l)[j + 1]]
                        ELSE dgrams[j]]
  BY DEF RecvCall
<1> DEFINE got == Lengths(n, l)
<1>2. /\ pc[c] = "setUp" /\ entry[c] = Size(c) /\ op[c] = "Recvmmsg"
      /\ entry' = [entry EXCEPT ![c] = 0] /\ pc' = [pc EXCEPT ![c] = "called"]
      /\ used' = [used EXCEPT ![c] = [k \in 1 .. Size(c) |-> Given(dgrams[k - 1])]]
      /\ UNCHANGED <<filter, attached, op, bufs, buffs, overlap>>
  BY DEF RecvCall, Reading
<1>3. /\ Size(c) \in 0 .. MaxBatch /\ MaxBatch \in Nat /\ n \in Nat /\ n <= Size(c)
      /\ l \in Nat
  BY <1>1, SizeIs, RSocketAssumption DEF RSInv, Shape
<1>4. \A k \in 1 .. n : k - 1 \in Entries /\ Arranged(k - 1)
  BY <1>2, <1>3 DEF RSInv, Shape, SettingUp, Entries
<1>5. \A k \in 1 .. n : got[k] \in Nat
  BY <1>3, <1>4 DEF Arranged, Lengths
<1>6. got \in Seq(Nat) /\ Len(got) = n
  <2>1. got = [k \in 1 .. n |-> got[k]]
    BY DEF Lengths
  <2> QED
    BY <1>3, <1>5, <2>1
<1> HIDE DEF got
<1>7. \A j \in Entries :
        /\ dgrams'[j].name = dgrams[j].name /\ dgrams'[j].iov = dgrams[j].iov
        /\ dgrams'[j].len = IF j < n THEN got[j + 1] ELSE dgrams[j].len
        /\ dgrams'[j] = [name |-> dgrams'[j].name, iov |-> dgrams'[j].iov,
                         len |-> dgrams'[j].len]
  <2> TAKE j \in Entries
  <2>1. dgrams[j] = [name |-> dgrams[j].name, iov |-> dgrams[j].iov, len |-> dgrams[j].len]
    BY DEF RSInv, Shape, RSTypes
  <2>2. dgrams'[j] = IF j < n THEN [dgrams[j] EXCEPT !.len = got[j + 1]] ELSE dgrams[j]
    BY <1>1 DEF got
  <2>3. CASE j < n
    <3>1. dgrams'[j] = [name |-> dgrams[j].name, iov |-> dgrams[j].iov, len |-> got[j + 1]]
      BY <2>1, <2>2, <2>3
    <3> QED
      BY <2>3, <3>1
  <2>4. CASE ~(j < n)
    BY <2>1, <2>2, <2>4
  <2> QED
    BY <2>3, <2>4
<1>8. \A j \in Entries : j < n => got[j + 1] \in Nat
  BY <1>3, <1>5 DEF Entries
<1>9. RSTypes'
  <2>1. DOMAIN dgrams' = Entries
    BY <1>1
  <2>2. \A j \in Entries :
          /\ dgrams'[j].len \in Nat
          /\ dgrams'[j] = [name |-> dgrams'[j].name, iov |-> dgrams'[j].iov,
                           len |-> dgrams'[j].len]
    BY <1>7, <1>8 DEF RSInv, Shape, RSTypes
  <2>3. lens' \in [Callers -> Seq(Nat)]
    BY <1>1, <1>6 DEF got, RSInv, Shape, RSTypes
  <2>4. /\ entry' \in [Callers -> 0 .. MaxBatch] /\ DOMAIN used' = Callers
        /\ pc' \in [Callers -> PCs]
    BY <1>2, <1>3 DEF RSInv, Shape, RSTypes, PCs
  <2> QED
    BY <1>2, <2>1, <2>2, <2>3, <2>4 DEF RSInv, Shape, RSTypes
<1>10. AtRest' /\ lens'[c] = got
  BY <1>1, <1>2 DEF got, RSInv, Shape, AtRest, Filtering, RSTypes
<1>11. ReadingBack'
  <2>1. Len(bufs[c]) = MaxBatch
    BY <1>2, <1>3 DEF RSInv, Shape, SettingUp, RSTypes
  <2> QED
    BY <1>1, <1>2, <1>3, <1>6, <1>10, <2>1, SMTT(40) DEF RSInv, Shape, ReadingBack, RSTypes, Ops
<1>12. SettingUp'
  <2>1. \A j \in Entries : Arranged(j)' = Arranged(j)
    BY <1>7 DEF Arranged, Capacity
  <2>2. \A d \in Callers : pc'[d] = "setUp" => d # c /\ pc[d] = "setUp" /\ entry'[d] = entry[d]
    BY <1>2 DEF RSInv, Shape, RSTypes
  <2> QED
    BY <1>2, <2>1, <2>2, Zenon DEF RSInv, Shape, SettingUp, Size
<1>13. \A j \in 1 .. Len(lens'[c]) : dgrams'[j - 1].len = lens'[c][j]
  <2> TAKE j \in 1 .. Len(lens'[c])
  <2>1. j \in 1 .. n /\ j - 1 \in Entries /\ j - 1 < n /\ j - 1 + 1 = j
    BY <1>3, <1>4, <1>6, <1>10
  <2> QED
    BY <1>7, <1>10, <2>1
<1> QED
  BY <1>3, <1>6, <1>7, <1>9, <1>10, <1>11, <1>12, <1>13 DEF Shape, Given

\* A slice is cut to the length in an entry.
LEMMA CutShape ==
  ASSUME RSInv, NEW c \in Callers, Cut(c)
  PROVE  /\ Shape' /\ UNCHANGED pc
         /\ bufs' = [bufs EXCEPT ![c][entry[c] + 1] = dgrams[entry[c]].len]
         /\ entry[c] \in Nat /\ entry[c] + 1 \in 1 .. Len(bufs[c]) /\ entry[c] \in Entries
<1> DEFINE n == entry[c]
           bLen == dgrams[n].len
<1>1. /\ pc[c] = "called" /\ n < Len(lens[c])
      /\ bufs' = [bufs EXCEPT ![c][n + 1] = bLen] /\ UNCHANGED pc
      /\ entry' = [entry EXCEPT ![c] = n + 1]
      /\ UNCHANGED <<dgrams, filter, attached, op, buffs, used, lens, overlap>>
  BY DEF Cut
<1>2. /\ n \in Nat /\ Len(lens[c]) \in Nat /\ Len(lens[c]) <= MaxBatch /\ MaxBatch \in Nat
      /\ Len(bufs[c]) = MaxBatch /\ bufs[c] \in Seq(Nat)
  BY <1>1, RSocketAssumption DEF RSInv, Shape, RSTypes, ReadingBack
<1>3. n \in Entries /\ n + 1 \in 1 .. Len(bufs[c]) /\ n + 1 \in 0 .. MaxBatch
  BY <1>1, <1>2 DEF Entries
<1>4. bLen \in Nat
  BY <1>3 DEF RSInv, Shape, RSTypes
<1> HIDE DEF n, bLen
<1>5. bufs' = [bufs EXCEPT ![c][n + 1] = bLen] /\ UNCHANGED pc
  BY <1>1
<1>6. [bufs[c] EXCEPT ![n + 1] = bLen] \in Seq(Nat)
      /\ Len([bufs[c] EXCEPT ![n + 1] = bLen]) = MaxBatch
  BY <1>2, <1>3, <1>4
<1>7. \A d \in Callers : bufs'[d] = IF d = c THEN [bufs[c] EXCEPT ![n + 1] = bLen] ELSE bufs[d]
  BY <1>5 DEF RSInv, Shape, RSTypes
<1>8. bufs' \in [Callers -> Seq(Nat)]
  <2>1. DOMAIN bufs' = Callers /\ bufs' = [d \in Callers |-> bufs'[d]]
    BY <1>5 DEF RSInv, Shape, RSTypes
  <2> QED
    BY <1>6, <1>7, <2>1 DEF RSInv, Shape, RSTypes
<1>9. \A d \in Callers : entry'[d] = IF d = c THEN n + 1 ELSE entry[d]
  BY <1>1 DEF RSInv, Shape, RSTypes
<1>10. RSTypes'
  BY <1>1, <1>3, <1>5, <1>8 DEF RSInv, Shape, RSTypes
<1>11. AtRest' /\ SettingUp'
  <2>1. \A d \in Callers : pc[d] # "called" => entry'[d] = entry[d] /\ bufs'[d] = bufs[d]
    BY <1>1, <1>7, <1>9
  <2>2. AtRest'
    BY <1>1, <1>5, <2>1 DEF RSInv, Shape, AtRest, Filtering
  <2>3. \A j \in Entries : Arranged(j)' = Arranged(j)
    BY <1>1 DEF Arranged, Capacity
  <2>4. \A d \in Callers : pc'[d] = "setUp" => pc[d] = "setUp" /\ entry'[d] = entry[d] /\ bufs'[d] = bufs[d]
    BY <1>5, <2>1
  <2>5. SettingUp'
    BY <1>1, <2>3, <2>4, Zenon DEF RSInv, Shape, SettingUp, Size
  <2> QED
    BY <2>2, <2>5
<1>12. ReadingBack'
  BY <1>1, <1>2, <1>5, <1>6, <1>7, <1>9 DEF RSInv, Shape, ReadingBack
<1> QED
  BY <1>2, <1>3, <1>5, <1>10, <1>11, <1>12 DEF Shape, n, bLen

\* The steps that leave the arrays of batches alone.
Quiet(c) == \/ SendCall(c) \/ RecvNone(c) \/ CutAll(c)
            \/ SetUpPanics(c) \/ CutPanics(c) \/ FilterStep(c) \/ Return(c)

\* They keep the shape of the state, and the other goroutines' variables.
LEMMA QuietShape ==
  ASSUME RSInv, NEW c \in Callers, Quiet(c)
  PROVE  /\ Shape' /\ dgrams' = dgrams
         /\ \A d \in Callers \ {c} :
              /\ pc'[d] = pc[d] /\ op'[d] = op[d] /\ bufs'[d] = bufs[d]
              /\ entry'[d] = entry[d] /\ used'[d] = used[d] /\ lens'[d] = lens[d]
              /\ attached'[d] = attached[d]
         /\ pc'[c] \in PCs \ {"setUp", "called"}
<1> USE DEF Quiet, FilterStep, batchVars
<1> USE DEF SendCall, RecvNone, CutAll, SetUpPanics, CutPanics, CallBPF, SetPort5, SetPort13,
        Attach, Return, Reading
<1>1. <<>> \in Seq(Nat) /\ 0 \in 0 .. MaxBatch
  BY RSocketAssumption
<1>2. /\ dgrams' = dgrams /\ buffs' = buffs
      /\ pc' \in [Callers -> PCs] /\ op' \in [Callers -> Ops \cup {"none", "setBPF"}]
  <2>1. buffs' = buffs
    BY DEF KeptSlices, RSInv, Shape, RSTypes
  <2>2. dgrams' = dgrams
    OBVIOUS
  <2>3. \E x \in PCs : pc' = [pc EXCEPT ![c] = x]
    BY DEF PCs
  <2>4. \E x \in {op[c], "none", "setBPF"} : op' = op \/ op' = [op EXCEPT ![c] = x]
    OBVIOUS
  <2> HIDE DEF Quiet
  <2> QED
    BY <2>1, <2>2, <2>3, <2>4 DEF RSInv, Shape, RSTypes
<1>3. /\ bufs' \in [Callers -> Seq(Nat)] /\ lens' \in [Callers -> Seq(Nat)]
      /\ entry' \in [Callers -> 0 .. MaxBatch]
  <2>1. /\ bufs' = bufs \/ bufs' = [bufs EXCEPT ![c] = <<>>]
        /\ lens' = lens \/ lens' = [lens EXCEPT ![c] = <<>>]
        /\ entry' = entry \/ entry' = [entry EXCEPT ![c] = 0]
    OBVIOUS
  <2> HIDE DEF Quiet
  <2>2. bufs' \in [Callers -> Seq(Nat)]
    BY <1>1, <2>1 DEF RSInv, Shape, RSTypes
  <2>3. lens' \in [Callers -> Seq(Nat)]
    BY <1>1, <2>1 DEF RSInv, Shape, RSTypes
  <2>4. entry' \in [Callers -> 0 .. MaxBatch]
    BY <1>1, <2>1 DEF RSInv, Shape, RSTypes
  <2> QED
    BY <2>2, <2>3, <2>4
<1>4. /\ DOMAIN used' = Callers /\ DOMAIN attached' = Callers /\ overlap' \in BOOLEAN
      /\ filter' = <<filter'[1], filter'[2]>>
  <2>1. used' = used \/ \E u : used' = [used EXCEPT ![c] = u]
    BY Zenon
  <2>2. attached' = attached \/ attached' = [attached EXCEPT ![c] = filter]
    OBVIOUS
  <2>3. overlap' \in BOOLEAN
    BY DEF RSInv, Shape, RSTypes
  <2>4. \/ filter' = filter \/ filter' = [filter EXCEPT ![1] = c]
        \/ filter' = [filter EXCEPT ![2] = c]
    OBVIOUS
  <2>5. filter = <<filter[1], filter[2]>>
    BY DEF RSInv, Shape, RSTypes
  <2>6. filter' = <<filter'[1], filter'[2]>>
    BY <2>4, <2>5
  <2>7. DOMAIN used' = Callers /\ DOMAIN attached' = Callers
    BY <2>1, <2>2 DEF RSInv, Shape, RSTypes
  <2> QED
    BY <2>3, <2>6, <2>7
<1>5. RSTypes'
  BY <1>2, <1>3, <1>4 DEF RSInv, Shape, RSTypes
<1>6. \A d \in Callers \ {c} :
        /\ pc'[d] = pc[d] /\ op'[d] = op[d] /\ bufs'[d] = bufs[d]
        /\ entry'[d] = entry[d] /\ used'[d] = used[d] /\ lens'[d] = lens[d]
        /\ attached'[d] = attached[d]
  BY SMTT(40) DEF RSInv, Shape, RSTypes
<1>7. /\ pc'[c] \in PCs \ {"setUp", "called"}
      /\ pc'[c] = "idle" => entry'[c] = 0
      /\ Filtering(c)' => op'[c] = "setBPF"
  BY DEF RSInv, Shape, RSTypes, PCs, AtRest, Filtering
<1>8. AtRest' /\ ReadingBack'
  BY <1>6, <1>7 DEF RSInv, Shape, AtRest, Filtering, ReadingBack
<1>9. SettingUp'
  <2>1. \A j \in Entries : Arranged(j)' = Arranged(j)
    BY <1>2 DEF Arranged, Capacity
  <2>2. \A d \in Callers : pc'[d] = "setUp" => d # c /\ pc[d] = "setUp"
    BY <1>6, <1>7
  <2> HIDE DEF Quiet
  <2>3. SUFFICES ASSUME NEW d \in Callers, pc'[d] = "setUp"
                 PROVE  /\ op'[d] \in Ops /\ entry'[d] <= Size(d)'
                        /\ \A j \in Entries : j < entry'[d] => Arranged(j)'
                        /\ op'[d] = "Recvmmsg" => bufs'[d] = buffs'[d]
    BY Zenon DEF SettingUp
  <2>4. /\ op'[d] = op[d] /\ bufs'[d] = bufs[d] /\ entry'[d] = entry[d] /\ buffs' = buffs
        /\ pc[d] = "setUp"
    BY <1>2, <1>6, <2>2, <2>3, Zenon
  <2>5. Size(d)' = Size(d)
    BY <2>4, Zenon DEF Size
  <2>6. /\ op[d] \in Ops /\ entry[d] <= Size(d)
        /\ \A j \in Entries : j < entry[d] => Arranged(j)
        /\ op[d] = "Recvmmsg" => bufs[d] = buffs[d]
    BY <2>4, Zenon DEF RSInv, Shape, SettingUp
  <2> QED
    BY <2>1, <2>4, <2>5, <2>6, Zenon
<1> QED
  BY <1>2, <1>5, <1>6, <1>7, <1>8, <1>9 DEF Shape

-------------------------------------------------------------------------------
(* What calls that do not overlap find *)

\* What a call asks for depends on its own variables only.
LEMMA AskedSame ==
  ASSUME NEW c \in Callers, op'[c] = op[c], Len(bufs'[c]) = Len(bufs[c]),
         op[c] \in {"Sendmmsg", "Sendmmsg2"} => bufs'[c] = bufs[c]
  PROVE  Asked(c)' = Asked(c)
<1>1. Size(c)' = Size(c)
  BY DEF Size
<1>2. CASE op[c] \in {"Sendmmsg", "Sendmmsg2"}
  BY <1>1, <1>2, Zenon DEF Asked
<1>3. CASE op[c] \notin {"Sendmmsg", "Sendmmsg2"}
  BY <1>1, <1>3, Zenon DEF Asked
<1> QED
  BY <1>2, <1>3

\* No two calls overlap unless overlap says so.
LEMMA AloneKept ==
  ASSUME RSInv, NEW c \in Callers, BatchStep(c) \/ FilterStep(c) \/ Return(c), ~overlap'
  PROVE  ~overlap /\ Alone'
<1>1. ~overlap
  BY DEF BatchStep, FilterStep, CallSend, CallRecv, SetUp, SetUpPanics, SendCall, RecvNone,
     RecvCall, Cut, CutPanics, CutAll, CallBPF, SetPort5, SetPort13, Attach, Return, RSInv, Shape, RSTypes
<1>2. \A d \in Callers \ {c} : pc'[d] = pc[d]
  BY DEF BatchStep, FilterStep, CallSend, CallRecv, SetUp, SetUpPanics, SendCall, RecvNone,
     RecvCall, Cut, CutPanics, CutAll, CallBPF, SetPort5, SetPort13, Attach, Return, RSInv, Shape, RSTypes
<1>3. Batching(c)' => Batching(c) \/ \A d \in Callers : ~Batching(d)
  BY ZenonT(40) DEF BatchStep, FilterStep, CallSend, CallRecv, SetUp, SetUpPanics, SendCall, RecvNone,
     RecvCall, Cut, CutPanics, CutAll, CallBPF, SetPort5, SetPort13, Attach, Return, RSInv, Shape, RSTypes, Batching
<1>4. Filtering(c)' => Filtering(c) \/ \A d \in Callers : ~Filtering(d)
  BY ZenonT(40) DEF BatchStep, FilterStep, CallSend, CallRecv, SetUp, SetUpPanics, SendCall, RecvNone,
     RecvCall, Cut, CutPanics, CutAll, CallBPF, SetPort5, SetPort13, Attach, Return, RSInv, Shape, RSTypes, Filtering
<1>5. \A d \in Callers \ {c} : Batching(d)' = Batching(d) /\ Filtering(d)' = Filtering(d)
  BY <1>2 DEF Batching, Filtering
<1>6. Alone
  BY <1>1 DEF RSInv
<1> QED
  BY <1>1, <1>3, <1>4, <1>5, <1>6 DEF Alone

\* The ports in the program are those of the call that is writing them.
LEMMA FilterKept ==
  ASSUME RSInv, NEW c \in Callers, BatchStep(c) \/ FilterStep(c) \/ Return(c), ~overlap'
  PROVE  FilterOwn'
<1>1. ~overlap /\ Alone'
  BY AloneKept
<1>2. Alone /\ FilterOwn
  BY <1>1 DEF RSInv
<1>3. filter = <<filter[1], filter[2]>> /\ DOMAIN attached = Callers /\ pc \in [Callers -> PCs]
  BY DEF RSInv, Shape, RSTypes
<1>4. CASE BatchStep(c) \/ Return(c)
  <2>1. /\ filter' = filter /\ attached' = attached
        /\ pc'[c] \notin {"port13", "attach"} /\ \A d \in Callers \ {c} : pc'[d] = pc[d]
    BY <1>3, <1>4 DEF BatchStep, CallSend, CallRecv, SetUp, SetUpPanics, SendCall, RecvNone,
       RecvCall, Cut, CutPanics, CutAll, Return
  <2> QED
    BY <1>2, <2>1 DEF FilterOwn
<1>5. CASE CallBPF(c)
  <2>1. /\ filter' = filter /\ attached' = attached
        /\ pc'[c] # "port13" /\ (pc'[c] = "attach" => filter = <<c, c>>)
        /\ \A d \in Callers \ {c} : pc'[d] = pc[d]
    BY <1>3, <1>5 DEF CallBPF
  <2> QED
    BY <1>2, <2>1 DEF FilterOwn
<1>6. CASE SetPort5(c) \/ SetPort13(c)
  <2>1. \A d \in Callers \ {c} : pc'[d] = pc[d] /\ pc[d] \notin {"port13", "attach"}
    BY <1>2, <1>3, <1>6 DEF SetPort5, SetPort13, Alone, Filtering
  <2>2. /\ attached' = attached
        /\ pc'[c] = "port13" => filter'[1] = c
        /\ pc'[c] = "attach" => filter' = <<c, c>>
    <3>1. CASE SetPort5(c)
      BY <1>3, <3>1 DEF SetPort5
    <3>2. CASE SetPort13(c)
      <4>1. filter[1] = c
        BY <1>2, <3>2 DEF SetPort13, FilterOwn
      <4> QED
        BY <1>3, <3>2, <4>1 DEF SetPort13
    <3> QED
      BY <1>6, <3>1, <3>2
  <2> QED
    BY <1>2, <2>1, <2>2 DEF FilterOwn
<1>7. CASE Attach(c)
  <2>1. filter = <<c, c>>
    BY <1>2, <1>7 DEF Attach, FilterOwn
  <2>2. /\ filter' = filter /\ pc'[c] = "done" /\ \A d \in Callers \ {c} : pc'[d] = pc[d]
        /\ \A d \in Callers : attached'[d] \in {attached[d], IF d = c THEN filter ELSE attached[d]}
    BY <1>3, <1>7 DEF Attach
  <2> QED
    BY <1>2, <2>1, <2>2 DEF FilterOwn
<1> QED
  BY <1>4, <1>5, <1>6, <1>7 DEF FilterStep

\* A step of another goroutine does not disturb a call, unless it writes to
\* the arrays while the call uses them.
LEMMA OtherBatch ==
  ASSUME NEW d \in Callers, BatchOwnOf(d), pc'[d] = pc[d], op'[d] = op[d], bufs'[d] = bufs[d],
         entry'[d] = entry[d], used'[d] = used[d], lens'[d] = lens[d],
         Batching(d) => dgrams' = dgrams
  PROVE  BatchOwnOf(d)'
<1>1. Asked(d)' = Asked(d)
  BY AskedSame
<1>2. CASE Batching(d)
  <2>1. dgrams' = dgrams
    BY <1>2
  <2> QED
    BY <1>1, <2>1 DEF BatchOwnOf, Given, Empty
<1>3. CASE ~Batching(d)
  BY <1>1, <1>3 DEF BatchOwnOf, Batching, Empty
<1> QED
  BY <1>2, <1>3

\* The kernel is given what the call asks for.
LEMMA ReadsAsked ==
  ASSUME RSInv, ~overlap, NEW c \in Callers, pc[c] = "setUp", entry[c] = Size(c), Reading(c)
  PROVE  used'[c] = Asked(c)
<1>1. Size(c) \in 0 .. MaxBatch /\ MaxBatch \in Nat
  BY SizeIs, RSocketAssumption DEF RSInv, Shape
<1>2. used'[c] = [k \in 1 .. Size(c) |-> Given(dgrams[k - 1])]
  BY DEF Reading, RSInv, Shape, RSTypes
<1>3. ASSUME NEW k \in 1 .. Size(c)
      PROVE  Given(dgrams[k - 1]) = Asked(c)[k]
  <2>1. k - 1 \in Entries /\ k - 1 < entry[c] /\ k - 1 + 1 = k
    BY <1>1 DEF Entries
  <2>2. Given(dgrams[k - 1]) = Asked(c)[k - 1 + 1]
    BY <2>1 DEF RSInv, BatchOwn, BatchOwnOf
  <2> QED
    BY <2>1, <2>2
<1>4. Asked(c) = [k \in 1 .. Size(c) |-> Asked(c)[k]]
  BY DEF Asked
<1> QED
  BY <1>2, <1>3, <1>4, Zenon

\* The kernel cuts what it receives to the call's own buffers.
LEMMA ReceivedFits ==
  ASSUME RSInv, ~overlap, NEW c \in Callers, RecvCall(c)
  PROVE  \A j \in 1 .. Len(lens'[c]) : lens'[c][j] <= Room
<1>1. PICK n \in 1 .. Size(c), l \in Lens : lens' = [lens EXCEPT ![c] = Lengths(n, l)]
  BY DEF RecvCall
<1>2. pc[c] = "setUp" /\ entry[c] = Size(c) /\ op[c] = "Recvmmsg"
  BY DEF RecvCall
<1>3. /\ Size(c) \in 0 .. MaxBatch /\ MaxBatch \in Nat /\ n \in Nat /\ n <= Size(c)
      /\ l \in Nat /\ Room \in Nat
  BY <1>1, SizeIs, RSocketAssumption DEF RSInv, Shape
<1>4. ASSUME NEW j \in 1 .. n PROVE Capacity(dgrams[j - 1]) = Room
  <2>1. j - 1 \in Entries /\ j - 1 < entry[c] /\ j - 1 + 1 = j /\ j \in 1 .. Size(c)
    BY <1>2, <1>3 DEF Entries
  <2>2. Given(dgrams[j - 1]) = Asked(c)[j]
    BY <1>2, <2>1 DEF RSInv, BatchOwn, BatchOwnOf
  <2>3. Asked(c)[j].iov = <<<<<<c, "buf", j - 1>>, Room>>>>
    BY <1>2, <2>1 DEF Asked
  <2>4. dgrams[j - 1].iov = <<<<<<c, "buf", j - 1>>, Room>>>>
    BY <2>2, <2>3 DEF Given
  <2> QED
    BY <1>3, <2>4 DEF Capacity
<1>5. lens'[c] = Lengths(n, l)
  BY <1>1 DEF RSInv, Shape, RSTypes
<1>6. Len(Lengths(n, l)) = n
  BY <1>3 DEF Lengths
<1>7. \A j \in 1 .. n : Lengths(n, l)[j] <= Room
  BY <1>3, <1>4 DEF Lengths
<1> QED
  BY <1>5, <1>6, <1>7

\* Every step keeps what calls that do not overlap find.
LEMMA BatchKept ==
  ASSUME RSInv, NEW c \in Callers, BatchStep(c) \/ FilterStep(c) \/ Return(c), ~overlap'
  PROVE  BatchOwn'
<1>1. ~overlap /\ Alone /\ BatchOwn /\ RSTypes
  BY AloneKept DEF RSInv, Shape
<1>2. CASE CallSend(c) \/ CallRecv(c)
  <2>1. /\ pc' = [pc EXCEPT ![c] = "setUp"] /\ pc[c] = "idle"
        /\ UNCHANGED <<dgrams, entry, used, lens>>
        /\ \E f : op' = [op EXCEPT ![c] = f]
        /\ \E b : bufs' = [bufs EXCEPT ![c] = b]
    BY <1>2, Zenon DEF CallSend, CallRecv
  <2>2. BatchOwnOf(c)'
    <3>1. pc'[c] = "setUp" /\ entry'[c] = 0
      BY <1>1, <2>1 DEF RSInv, Shape, RSTypes, AtRest, Filtering
    <3>2. \A j \in Entries : ~(j < 0)
      BY DEF Entries
    <3> QED
      BY <3>1, <3>2 DEF BatchOwnOf
  <2>3. ASSUME NEW d \in Callers \ {c} PROVE BatchOwnOf(d)'
    <3>1. pc'[d] = pc[d] /\ op'[d] = op[d] /\ bufs'[d] = bufs[d]
      BY <1>1, <2>1 DEF RSTypes
    <3> QED
      BY <1>1, <2>1, <3>1, OtherBatch DEF BatchOwn
  <2> QED
    BY <2>2, <2>3 DEF BatchOwn
<1>3. CASE SetUp(c)
  <2> DEFINE n == entry[c]
  <2>1. /\ pc[c] = "setUp" /\ n < Size(c) /\ entry' = [entry EXCEPT ![c] = n + 1]
        /\ dgrams' = [dgrams EXCEPT ![n] = SetUpEntry(c, n)]
        /\ UNCHANGED <<pc, op, bufs, used, lens>>
    BY <1>3 DEF SetUp
  <2>2. Size(c) \in 0 .. MaxBatch /\ n \in Nat /\ n \in Entries
    BY <1>1, <2>1, SizeIs, RSocketAssumption DEF RSTypes, Entries
  <2>3. BatchOwnOf(c)'
    <3>1. Given(SetUpEntry(c, n)) = Asked(c)[n + 1]
      BY <2>1, SetUpAsked
    <3>2. Asked(c)' = Asked(c)
      BY <2>1, AskedSame
    <3>3. \A j \in Entries : j < n + 1 => dgrams'[j] = IF j = n THEN SetUpEntry(c, n) ELSE dgrams[j]
      BY <1>1, <2>1, <2>2 DEF RSTypes
    <3>4. \A j \in Entries : j < n + 1 => j < n \/ j = n
      BY <2>2 DEF Entries
    <3>5. \A j \in Entries : j < n => Given(dgrams[j]) = Asked(c)[j + 1]
      BY <1>1, <2>1 DEF BatchOwn, BatchOwnOf
    <3>6. entry'[c] = n + 1 /\ pc'[c] = "setUp"
      BY <1>1, <2>1 DEF RSTypes
    <3> HIDE DEF n
    <3>7. \A j \in Entries : j < n + 1 => Given(dgrams'[j]) = Asked(c)[j + 1]
      BY <3>1, <3>3, <3>4, <3>5
    <3> QED
      BY <3>2, <3>6, <3>7 DEF BatchOwnOf, Given
  <2>4. ASSUME NEW d \in Callers \ {c} PROVE BatchOwnOf(d)'
    <3>1. entry'[d] = entry[d] /\ ~Batching(d)
      BY <1>1, <2>1 DEF RSTypes, Alone, Batching
    <3> QED
      BY <1>1, <2>1, <3>1, OtherBatch DEF BatchOwn
  <2> QED
    BY <2>3, <2>4 DEF BatchOwn
<1>4. CASE RecvCall(c)
  <2>1. /\ pc[c] = "setUp" /\ entry[c] = Size(c) /\ op[c] = "Recvmmsg" /\ Reading(c)
        /\ entry' = [entry EXCEPT ![c] = 0] /\ pc' = [pc EXCEPT ![c] = "called"]
        /\ UNCHANGED <<op, bufs>> /\ \E g : lens' = [lens EXCEPT ![c] = g]
    BY <1>4, Zenon DEF RecvCall
  <2>2. BatchOwnOf(c)'
    <3>1. used'[c] = Asked(c) /\ Asked(c)' = Asked(c)
      BY <1>1, <2>1, ReadsAsked, AskedSame
    <3>2. \A j \in 1 .. Len(lens'[c]) : dgrams'[j - 1].len = lens'[c][j] /\ lens'[c][j] <= Room
      BY <1>1, <1>4, RecvCallShape, ReceivedFits
    <3>3. pc'[c] = "called" /\ entry'[c] = 0
      BY <1>1, <2>1 DEF RSTypes
    <3> QED
      BY <3>1, <3>2, <3>3 DEF BatchOwnOf
  <2>3. ASSUME NEW d \in Callers \ {c} PROVE BatchOwnOf(d)'
    <3>1. /\ pc'[d] = pc[d] /\ entry'[d] = entry[d] /\ used'[d] = used[d]
          /\ lens'[d] = lens[d] /\ ~Batching(d)
      BY <1>1, <2>1 DEF RSTypes, Alone, Batching, Reading
    <3> QED
      BY <1>1, <2>1, <3>1, OtherBatch DEF BatchOwn
  <2> QED
    BY <2>2, <2>3 DEF BatchOwn
<1>5. CASE Cut(c)
  <2> DEFINE n == entry[c]
  <2>1. /\ pc[c] = "called" /\ n < Len(lens[c]) /\ entry' = [entry EXCEPT ![c] = n + 1]
        /\ UNCHANGED <<dgrams, op, used, lens, pc>>
        /\ bufs' = [bufs EXCEPT ![c][n + 1] = dgrams[n].len]
        /\ n \in Nat /\ n + 1 \in 1 .. Len(bufs[c]) /\ op[c] = "Recvmmsg"
    BY <1>5, CutShape DEF Cut, RSInv, Shape, ReadingBack
  <2>2. /\ bufs[c] \in Seq(Nat) /\ lens[c] \in Seq(Nat)
        /\ bufs'[c] = [bufs[c] EXCEPT ![n + 1] = dgrams[n].len] /\ entry'[c] = n + 1
    BY <1>1, <2>1 DEF RSTypes
  <2>3. BatchOwnOf(c)'
    <3>1. Len(bufs'[c]) = Len(bufs[c]) /\ \A j \in 1 .. n + 1 :
            bufs'[c][j] = IF j = n + 1 THEN dgrams[n].len ELSE bufs[c][j]
      BY <2>1, <2>2
    <3>2. Asked(c)' = Asked(c)
      BY <2>1, <3>1, AskedSame
    <3>3. dgrams[n].len = lens[c][n + 1]
      <4>1. n + 1 \in 1 .. Len(lens[c]) /\ n + 1 - 1 = n
        BY <2>1, <2>2
      <4>2. dgrams[n + 1 - 1].len = lens[c][n + 1]
        BY <1>1, <2>1, <4>1 DEF BatchOwn, BatchOwnOf
      <4> QED
        BY <4>1, <4>2
    <3>4. \A j \in 1 .. n : bufs[c][j] = lens[c][j]
      BY <1>1, <2>1 DEF BatchOwn, BatchOwnOf
    <3>5. \A j \in 1 .. n + 1 : bufs'[c][j] = lens[c][j]
      BY <2>1, <3>1, <3>3, <3>4
    <3>6. /\ used[c] = Asked(c)
          /\ \A j \in 1 .. Len(lens[c]) : dgrams[j - 1].len = lens[c][j] /\ lens[c][j] <= Room
      BY <1>1, <2>1 DEF BatchOwn, BatchOwnOf
    <3> QED
      BY <2>1, <2>2, <3>2, <3>5, <3>6 DEF BatchOwnOf
  <2>4. ASSUME NEW d \in Callers \ {c} PROVE BatchOwnOf(d)'
    <3>1. entry'[d] = entry[d] /\ bufs'[d] = bufs[d]
      BY <1>1, <2>1 DEF RSTypes
    <3> QED
      BY <1>1, <2>1, <3>1, OtherBatch DEF BatchOwn
  <2> QED
    BY <2>3, <2>4 DEF BatchOwn
<1>6. CASE Quiet(c)
  <2>1. /\ dgrams' = dgrams
        /\ \A d \in Callers \ {c} :
             /\ pc'[d] = pc[d] /\ op'[d] = op[d] /\ bufs'[d] = bufs[d]
             /\ entry'[d] = entry[d] /\ used'[d] = used[d] /\ lens'[d] = lens[d]
        /\ pc'[c] \in PCs \ {"setUp", "called"}
    BY <1>6, QuietShape
  <2>2. ASSUME NEW d \in Callers \ {c} PROVE BatchOwnOf(d)'
    BY <1>1, <2>1, OtherBatch DEF BatchOwn
  <2>3. BatchOwnOf(c)'
    <3>1. CASE SendCall(c)
      <4>1. /\ pc[c] = "setUp" /\ entry[c] = Size(c) /\ op[c] # "Recvmmsg" /\ Reading(c)
            /\ UNCHANGED <<op, bufs>>
        BY <3>1 DEF SendCall
      <4>2. used'[c] = Asked(c) /\ Asked(c)' = Asked(c)
        BY <1>1, <4>1, ReadsAsked, AskedSame
      <4>3. pc'[c] = "done"
        BY <1>1, <3>1 DEF SendCall, RSTypes
      <4> QED
        BY <2>1, <4>1, <4>2, <4>3 DEF BatchOwnOf
    <3>2. CASE RecvNone(c)
      <4>1. lens'[c] = <<>> /\ op'[c] = "Recvmmsg" /\ bufs' = bufs /\ pc'[c] = "done"
        BY <1>1, <3>2 DEF RecvNone, RSTypes
      <4>2. SubSeq(bufs'[c], 1, Len(lens'[c])) = lens'[c]
        BY <4>1
      <4> QED
        BY <2>1, <4>1, <4>2 DEF BatchOwnOf
    <3>3. CASE CutAll(c)
      <4>1. /\ pc[c] = "called" /\ entry[c] = Len(lens[c]) /\ op[c] = "Recvmmsg"
            /\ UNCHANGED <<op, bufs, lens>> /\ pc'[c] = "done"
        BY <3>3 DEF CutAll, RSInv, Shape, ReadingBack, RSTypes
      <4>2. /\ lens[c] \in Seq(Nat) /\ bufs[c] \in Seq(Nat)
            /\ Len(lens[c]) <= Len(bufs[c])
            /\ \A j \in 1 .. Len(lens[c]) : bufs[c][j] = lens[c][j]
        BY <1>1, <4>1 DEF RSInv, Shape, RSTypes, ReadingBack, BatchOwn, BatchOwnOf
      <4>3. SubSeq(bufs[c], 1, Len(lens[c])) = lens[c]
        BY <4>2
      <4> QED
        BY <2>1, <4>1, <4>3 DEF BatchOwnOf
    <3>4. CASE FilterStep(c)
      <4>1. /\ pc'[c] = "done" => op'[c] = "setBPF"
            /\ pc'[c] # "panic"
        BY <1>1, <3>4 DEF FilterStep, CallBPF, SetPort5, SetPort13, Attach, RSTypes,
           RSInv, Shape, AtRest, Filtering
      <4> QED
        BY <2>1, <4>1 DEF BatchOwnOf
    <3>5. CASE Return(c)
      <4>1. pc'[c] = "idle"
        BY <1>1, <3>5 DEF Return, RSTypes
      <4> QED
        BY <4>1 DEF BatchOwnOf
    <3>6. CASE SetUpPanics(c)
      <4>1. /\ pc[c] = "setUp" /\ entry[c] < Size(c) /\ Empty(c)
            /\ UNCHANGED <<op, bufs, entry>>
        BY <3>6 DEF SetUpPanics, batchVars
      <4>2. op[c] # "Recvmmsg"
        <5> SUFFICES ASSUME op[c] = "Recvmmsg" PROVE FALSE
          OBVIOUS
        <5>1. bufs[c] = [j \in 1 .. MaxBatch |-> Room]
          BY <4>1 DEF RSInv, Shape, SettingUp, RSTypes
        <5>2. entry[c] + 1 \in 1 .. MaxBatch /\ Room # 0
          BY <1>1, <4>1, SizeIs, RSocketAssumption DEF RSTypes
        <5> QED
          BY <4>1, <5>1, <5>2 DEF Empty
      <4>3. pc'[c] = "panic"
        BY <1>1, <3>6 DEF SetUpPanics, RSTypes
      <4> QED
        BY <4>1, <4>2, <4>3 DEF BatchOwnOf, Empty
    <3>7. CASE CutPanics(c)
      <4>1. pc[c] = "called" /\ entry[c] < Len(lens[c]) /\ dgrams[entry[c]].len > Room
        BY <3>7 DEF CutPanics
      <4>2. entry[c] \in Nat /\ lens[c] \in Seq(Nat) /\ Room \in Nat
        BY <1>1, RSocketAssumption DEF RSTypes
      <4>3. PICK j \in 1 .. Len(lens[c]) : j = entry[c] + 1 /\ j - 1 = entry[c]
        BY <4>1, <4>2
      <4>4. dgrams[j - 1].len = lens[c][j] /\ lens[c][j] <= Room
        BY <1>1, <4>1, Zenon DEF BatchOwn, BatchOwnOf
      <4>5. lens[c][j] \in Nat
        BY <4>2
      <4> QED
        BY <4>1, <4>2, <4>3, <4>4, <4>5
    <3> QED
      BY <1>6, <3>1, <3>2, <3>3, <3>4, <3>5, <3>6, <3>7 DEF Quiet
  <2> QED
    BY <2>2, <2>3 DEF BatchOwn
<1> QED
  BY <1>2, <1>3, <1>4, <1>5, <1>6 DEF BatchStep, Quiet

-------------------------------------------------------------------------------
(* Theorems *)

\* At first nothing is set up and nobody calls.
LEMMA RSInitInv == RSocketInit => RSInv
<1> SUFFICES ASSUME RSocketInit PROVE RSInv
  OBVIOUS
<1> USE RSocketAssumption DEF RSocketInit
<1>1. \A c \in Callers : pc[c] = "idle" /\ attached[c] = <<>>
  OBVIOUS
<1>2. RSTypes
  <2>1. filter = <<filter[1], filter[2]>>
    OBVIOUS
  <2>2. \A j \in Entries :
          /\ dgrams[j].len \in Nat
          /\ dgrams[j] = [name |-> dgrams[j].name, iov |-> dgrams[j].iov, len |-> dgrams[j].len]
    BY DEF Zero
  <2>3. <<>> \in Seq(Nat) /\ 0 \in 0 .. MaxBatch
    OBVIOUS
  <2>4. /\ pc \in [Callers -> PCs] /\ op \in [Callers -> Ops \cup {"none", "setBPF"}]
        /\ entry \in [Callers -> 0 .. MaxBatch] /\ DOMAIN used = Callers
    BY <2>3 DEF PCs
  <2>5. bufs \in [Callers -> Seq(Nat)] /\ lens \in [Callers -> Seq(Nat)]
    BY <2>3
  <2>6. /\ DOMAIN dgrams = Entries /\ DOMAIN attached = Callers /\ overlap \in BOOLEAN
        /\ buffs = [c \in Callers |-> [i \in 1 .. MaxBatch |-> Room]]
    OBVIOUS
  <2> QED
    BY <2>1, <2>2, <2>4, <2>5, <2>6, Zenon DEF RSTypes
<1>3. AtRest /\ SettingUp /\ ReadingBack
  BY <1>1 DEF AtRest, SettingUp, ReadingBack, Filtering
<1>4. Alone /\ FilterOwn /\ BatchOwn
  BY <1>1 DEF Alone, FilterOwn, BatchOwn, BatchOwnOf, Batching, Filtering
<1> QED
  BY <1>2, <1>3, <1>4 DEF RSInv, Shape

\* Every step keeps the invariant.
LEMMA RSNextInv == RSInv /\ [RSocketNext]_rsVars => RSInv'
<1> SUFFICES ASSUME RSInv, [RSocketNext]_rsVars PROVE RSInv'
  OBVIOUS
<1>1. ASSUME NEW c \in Callers, BatchStep(c) \/ FilterStep(c) \/ Return(c)
      PROVE  RSInv'
  <2>1. Shape'
    BY <1>1, CallShape, SetUpShape, RecvCallShape, CutShape, QuietShape DEF BatchStep, Quiet
  <2>2. ~overlap' => Alone' /\ FilterOwn' /\ BatchOwn'
    BY <1>1, AloneKept, FilterKept, BatchKept
  <2> QED
    BY <2>1, <2>2 DEF RSInv
<1>2. ASSUME UNCHANGED rsVars
      PROVE  RSInv'
  <2>1. /\ UNCHANGED <<dgrams, filter, attached, pc, op, bufs, buffs, entry, used, lens, overlap>>
    BY <1>2 DEF rsVars, batchVars
  <2>2. Shape'
    BY <2>1 DEF RSInv, Shape, RSTypes, AtRest, SettingUp, ReadingBack, Filtering, Size, Arranged, Capacity
  <2>3. (Alone => Alone') /\ (FilterOwn => FilterOwn')
    BY <2>1 DEF Alone, FilterOwn, Batching, Filtering
  <2>4. BatchOwn => BatchOwn'
    BY <2>1, OtherBatch DEF BatchOwn
  <2> QED
    BY <2>1, <2>2, <2>3, <2>4 DEF RSInv
<1> QED
  BY <1>1, <1>2, Zenon DEF RSocketNext

\* The invariant holds throughout.
THEOREM RSInvariance == RSocketSpec => []RSInv
BY RSInitInv, RSNextInv, PTL DEF RSocketSpec

\* Calls of Sendmmsg, Sendmmsg2 and Recvmmsg that do not overlap give the kernel
\* their own buffers and return its lengths, whatever earlier calls have left,
\* and panic only over an empty packet they were given.
THEOREM OwnBatch == RSocketSpec => []BatchIsOwn
<1>1. RSInv => BatchIsOwn
  BY DEF RSInv, BatchOwn, BatchOwnOf, BatchIsOwn
<1> QED
  BY <1>1, RSInvariance, PTL

\* Calls of setBPF that do not overlap attach a filter on their own port.
THEOREM OwnFilter == RSocketSpec => []FilterIsOwn
<1>1. RSInv => FilterIsOwn
  BY DEF RSInv, FilterOwn, FilterIsOwn
<1> QED
  BY <1>1, RSInvariance, PTL

==============================================================================
