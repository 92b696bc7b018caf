---------------------------- MODULE MsgCacheProofs ----------------------------
(***************************************************************************)
(* Proofs about MsgCache, for pages of any size and any growth increment:  *)
(* the paged array implements the map MsgStore.                            *)
(***************************************************************************)
EXTENDS MsgCache, FiniteSetTheorems, NaturalsInduction, WellFoundedInduction, TLAPS

-------------------------------------------------------------------------------
(* Pages and offsets *)

\* A product is larger by one factor if the other is larger by one.
LEMMA Multiples ==
  ASSUME NEW p \in Nat, NEW q \in Nat, NEW m \in Nat, p < q
  PROVE  p * m + m <= q * m /\ p * m \in Nat /\ q * m \in Nat
<1>1. PICK d \in Nat : q = p + 1 + d
  <2>1. q - p - 1 \in Nat /\ q = p + 1 + (q - p - 1)
    OBVIOUS
  <2> QED
    BY <2>1
<1>2. q * m = p * m + m + d * m /\ d * m \in Nat /\ p * m \in Nat
  BY <1>1
<1> QED
  BY <1>2

\* A sequence number is its page times the page size, plus its offset.
LEMMA PageAndOff ==
  ASSUME NEW n \in Nat
  PROVE  /\ Page(n) \in Nat /\ Off(n) \in Offsets
         /\ n = Page(n) * PageMsg + Off(n)
BY CacheAssumption DEF Page, Off, Offsets

\* And in no other way.
LEMMA PageUnique ==
  ASSUME NEW n \in Nat, NEW p \in Nat, NEW o \in Offsets, n = p * PageMsg + o
  PROVE  Page(n) = p /\ Off(n) = o
<1>1. /\ Page(n) \in Nat /\ Off(n) \in Offsets /\ n = Page(n) * PageMsg + Off(n)
  BY PageAndOff
<1>2. PageMsg \in Nat \ {0} /\ o \in Nat /\ o < PageMsg /\ Off(n) \in Nat /\ Off(n) < PageMsg
  BY <1>1, CacheAssumption DEF Offsets
<1>3. ~(p < Page(n))
  <2> SUFFICES ASSUME p < Page(n) PROVE FALSE
    OBVIOUS
  <2>1. p * PageMsg + PageMsg <= Page(n) * PageMsg /\ p * PageMsg \in Nat /\ Page(n) * PageMsg \in Nat
    BY <1>1, <1>2, Multiples
  <2> QED
    BY <1>1, <1>2, <2>1
<1>4. ~(Page(n) < p)
  <2> SUFFICES ASSUME Page(n) < p PROVE FALSE
    OBVIOUS
  <2>1. Page(n) * PageMsg + PageMsg <= p * PageMsg /\ p * PageMsg \in Nat /\ Page(n) * PageMsg \in Nat
    BY <1>1, <1>2, Multiples
  <2> QED
    BY <1>1, <1>2, <2>1
<1>5. Page(n) = p
  BY <1>1, <1>3, <1>4
<1>6. p * PageMsg \in Int
  BY <1>2
<1>7. p * PageMsg + o = p * PageMsg + Off(n)
  BY <1>1, <1>5
<1>8. \A x, y, z \in Int : x + y = x + z => y = z
  OBVIOUS
<1>9. o \in Int /\ Off(n) \in Int
  BY <1>2
<1> QED
  BY <1>5, <1>6, <1>7, <1>8, <1>9, Zenon

\* The numbers whose page is among the first k.
LEMMA PageBelow ==
  ASSUME NEW n \in Nat, NEW k \in Nat
  PROVE  Page(n) < k <=> n < k * PageMsg
<1>1. /\ Page(n) \in Nat /\ Off(n) \in Nat /\ Off(n) < PageMsg /\ PageMsg \in Nat
      /\ n = Page(n) * PageMsg + Off(n)
  BY PageAndOff, CacheAssumption DEF Offsets
<1>2. ASSUME Page(n) < k PROVE n < k * PageMsg
  <2>1. Page(n) * PageMsg + PageMsg <= k * PageMsg /\ Page(n) * PageMsg \in Nat /\ k * PageMsg \in Nat
    BY <1>1, <1>2, Multiples
  <2> QED
    BY <1>1, <2>1
<1>3. ASSUME ~(Page(n) < k) PROVE ~(n < k * PageMsg)
  <2>1. CASE Page(n) = k
    <3>1. k * PageMsg \in Nat
      BY <1>1
    <3> QED
      BY <1>1, <2>1, <3>1
  <2>2. CASE k < Page(n)
    <3>1. k * PageMsg + PageMsg <= Page(n) * PageMsg /\ Page(n) * PageMsg \in Nat /\ k * PageMsg \in Nat
      BY <1>1, <2>2, Multiples
    <3> QED
      BY <1>1, <3>1
  <2> QED
    BY <1>1, <1>3, <2>1, <2>2
<1> QED
  BY <1>2, <1>3

\* Going k slots on from a number's slot leads to the slot k numbers on.
LEMMA WalkLeadsOn ==
  ASSUME NEW n \in Nat, NEW k \in Nat
  PROVE  /\ WalkPage(Page(n), Off(n), k) = Page(n + k)
         /\ WalkOff(Off(n), k) = Off(n + k)
<1> DEFINE d == Off(n) + k
<1>1. /\ Page(n) \in Nat /\ Off(n) \in Nat /\ PageMsg \in Nat \ {0}
      /\ n = Page(n) * PageMsg + Off(n)
  BY PageAndOff, CacheAssumption DEF Offsets
<1>2. d \in Nat /\ Page(d) \in Nat /\ Off(d) \in Offsets /\ d = Page(d) * PageMsg + Off(d)
  BY <1>1, PageAndOff
<1>3. /\ WalkPage(Page(n), Off(n), k) = Page(n) + Page(d)
      /\ WalkOff(Off(n), k) = Off(d)
  BY DEF WalkPage, WalkOff, Page, Off
<1>4. n + k = (Page(n) + Page(d)) * PageMsg + Off(d)
  <2>1. n + k = Page(n) * PageMsg + Page(d) * PageMsg + Off(d)
    BY <1>1, <1>2 DEF Offsets
  <2>2. (Page(n) + Page(d)) * PageMsg = Page(n) * PageMsg + Page(d) * PageMsg
    BY <1>1, <1>2
  <2> QED
    BY <2>1, <2>2
<1> HIDE DEF d
<1>5. Page(n) + Page(d) \in Nat /\ n + k \in Nat
  BY <1>1, <1>2
<1> QED
  BY <1>2, <1>3, <1>4, <1>5, PageUnique

\* Growing makes room for the page, and for those there were.
LEMMA GrownFits ==
  ASSUME NEW page \in Nat, nPage \in Nat
  PROVE  Grown(page) \in Nat /\ nPage <= Grown(page) /\ page < Grown(page)
<1>1. CASE page < nPage
  BY <1>1 DEF Grown
<1>2. CASE ~(page < nPage)
  <2> DEFINE a == page - nPage
             q == a \div PageIncrement
             r == a % PageIncrement
  <2>1. a \in Nat /\ PageIncrement \in Nat \ {0}
    BY <1>2, CacheAssumption
  <2>2. q \in Nat /\ r \in Nat /\ r < PageIncrement /\ a = PageIncrement * q + r
    BY <2>1
  <2>3. Grown(page) = nPage + PageIncrement * (q + 1)
    BY <1>2 DEF Grown
  <2> HIDE DEF q, r
  <2>4. PageIncrement * (q + 1) = PageIncrement * q + PageIncrement /\ PageIncrement * q \in Nat
    BY <2>1, <2>2
  <2> QED
    BY <2>1, <2>2, <2>3, <2>4
<1> QED
  BY <1>1, <1>2

-------------------------------------------------------------------------------
(* The map behind the pages *)

\* What a slot holds.
Slot(n) == msgPages[Page(n)][Off(n)]

\* The numbers with a message.
LEMMA FilledIs ==
  ASSUME CacheTypeOK, NEW n \in Nat
  PROVE  n \in Filled <=> Page(n) < nPage /\ Slot(n) # Nil
<1>1. nPage \in Nat /\ PageMsg \in Nat /\ nPage * PageMsg \in Nat
  BY CacheAssumption DEF CacheTypeOK
<1>2. n \in 0 .. nPage * PageMsg - 1 <=> Page(n) < nPage
  BY <1>1, PageBelow
<1> QED
  BY <1>2, Zenon DEF Filled, Slot

\* They are numbers, and the map is defined on them.
LEMMA FilledNat ==
  ASSUME CacheTypeOK
  PROVE  Filled \subseteq Nat /\ DOMAIN Contents = Filled
BY CacheAssumption DEF Filled, Contents, CacheTypeOK

\* What Upset leaves in a slot.
LEMMA UpsetSlots ==
  ASSUME CacheTypeOK, NEW n \in Nat, NEW m \in Message, CacheUpset(n, m)
  PROVE  /\ CacheTypeOK'
         /\ nPage <= nPage' /\ Page(n) < nPage'
         /\ flag' = (Page(n) < nPage /\ Slot(n) # Nil)
         /\ \A p \in 0 .. nPage' - 1, o \in Offsets :
              msgPages'[p][o] = IF p = Page(n) /\ o = Off(n) THEN m
                                ELSE IF p < nPage THEN msgPages[p][o] ELSE Nil
<1> DEFINE G == Grown(Page(n))
           pages == Extended(G)
<1>1. /\ Page(n) \in Nat /\ Off(n) \in Offsets
      /\ G \in Nat /\ nPage <= G /\ Page(n) < G /\ nPage \in Nat
  BY PageAndOff, GrownFits DEF CacheTypeOK
<1>2. nPage' = G
  BY DEF CacheUpset
<1> HIDE DEF G
<1>3. EmptyPage \in [Offsets -> Message \cup {Nil}] /\ \A o \in Offsets : EmptyPage[o] = Nil
  BY DEF EmptyPage
<1>4. pages \in [0 .. G - 1 -> [Offsets -> Message \cup {Nil}]]
  BY <1>1, <1>3 DEF Extended, CacheTypeOK
<1>5. \A p \in 0 .. G - 1, o \in Offsets :
        pages[p][o] = IF p < nPage THEN msgPages[p][o] ELSE Nil
  BY <1>3 DEF Extended
<1>6. flag' = (pages[Page(n)][Off(n)] # Nil) /\ msgPages' = [pages EXCEPT ![Page(n)][Off(n)] = m]
  BY Zenon DEF CacheUpset, G
<1> HIDE DEF pages
<1>7. msgPages' \in [0 .. G - 1 -> [Offsets -> Message \cup {Nil}]]
  BY <1>1, <1>4, <1>6
<1>8. \A p \in 0 .. G - 1, o \in Offsets :
        msgPages'[p][o] = IF p = Page(n) /\ o = Off(n) THEN m ELSE pages[p][o]
  BY <1>1, <1>4, <1>6
<1>9. maxPageNo' \in 0 .. nPage' - 1
  BY <1>1, <1>2 DEF CacheUpset, MaxPage, CacheTypeOK
<1>10. flag' = (Page(n) < nPage /\ Slot(n) # Nil)
  BY <1>1, <1>5, <1>6 DEF Slot
<1> QED
  BY <1>1, <1>2, <1>5, <1>7, <1>8, <1>9, <1>10 DEF CacheTypeOK

\* Upset on the pages is Upset on the map.
LEMMA UpsetIsUpset ==
  ASSUME CacheTypeOK, NEW n \in Nat, NEW m \in Message, CacheUpset(n, m)
  PROVE  /\ Contents' = Store!Upset(Contents, n, m)
         /\ flag' = ~Store!IsNil(Contents, n)
         /\ merged' = merged
<1>1. /\ CacheTypeOK'
      /\ nPage <= nPage' /\ Page(n) < nPage'
      /\ flag' = (Page(n) < nPage /\ Slot(n) # Nil)
      /\ \A p \in 0 .. nPage' - 1, o \in Offsets :
           msgPages'[p][o] = IF p = Page(n) /\ o = Off(n) THEN m
                             ELSE IF p < nPage THEN msgPages[p][o] ELSE Nil
  BY UpsetSlots
<1>2. nPage \in Nat /\ nPage' \in Nat /\ m # Nil
  BY <1>1, CacheAssumption DEF CacheTypeOK
<1>3. ASSUME NEW x \in Nat
      PROVE  /\ x \in Filled' <=> Page(x) < nPage' /\ Slot(x)' # Nil
             /\ x \in Filled <=> Page(x) < nPage /\ Slot(x) # Nil
             /\ Page(x) < nPage' =>
                  Slot(x)' = IF x = n THEN m
                             ELSE IF Page(x) < nPage THEN Slot(x) ELSE Nil
  <2>1. Page(x) \in Nat /\ Off(x) \in Offsets /\ x = Page(x) * PageMsg + Off(x)
    BY PageAndOff
  <2>2. n = Page(n) * PageMsg + Off(n)
    BY PageAndOff
  <2>3. x = n <=> Page(x) = Page(n) /\ Off(x) = Off(n)
    BY <2>1, <2>2
  <2>4. x \in Filled <=> Page(x) < nPage /\ Slot(x) # Nil
    BY FilledIs
  <2>5. x \in Filled' <=> Page(x) < nPage' /\ Slot(x)' # Nil
    <3>1. nPage' * PageMsg \in Nat
      <4>1. \A a, b \in Nat : a * b \in Nat
        OBVIOUS
      <4>2. PageMsg \in Nat
        BY CacheAssumption
      <4> QED
        BY <1>2, <4>1, <4>2, Zenon
    <3>2. Page(x) < nPage' <=> x < nPage' * PageMsg
      BY <1>2, PageBelow
    <3>3. x \in 0 .. nPage' * PageMsg - 1 <=> Page(x) < nPage'
      BY <3>1, <3>2
    <3> QED
      BY <3>3, Zenon DEF Filled, Slot
  <2>6. Page(x) < nPage' =>
          Slot(x)' = IF x = n THEN m ELSE IF Page(x) < nPage THEN Slot(x) ELSE Nil
    <3>1. Slot(x)' = msgPages'[Page(x)][Off(x)]
      BY DEF Slot, Page, Off
    <3>2. Page(x) < nPage' => Page(x) \in 0 .. nPage' - 1
      BY <1>2, <2>1
    <3>3. Page(x) < nPage' =>
            msgPages'[Page(x)][Off(x)] =
              IF Page(x) = Page(n) /\ Off(x) = Off(n) THEN m
              ELSE IF Page(x) < nPage THEN msgPages[Page(x)][Off(x)] ELSE Nil
      BY <1>1, <2>1, <3>2, Zenon
    <3> QED
      BY <2>3, <3>1, <3>3, Zenon DEF Slot
  <2> QED
    BY <2>4, <2>5, <2>6
<1>4. \A x \in Nat : x \in Filled' <=> x \in Filled \cup {n}
  <2> TAKE x \in Nat
  <2>1. Page(x) \in Nat
    BY PageAndOff
  <2> QED
    BY <1>1, <1>2, <1>3, <2>1
<1>5. Filled \subseteq Nat /\ Filled' \subseteq Nat
  BY <1>1, <1>2, CacheAssumption DEF Filled
<1>6. Filled' = Filled \cup {n}
  BY <1>4, <1>5
<1>7. \A x \in Filled' : Slot(x)' = IF x = n THEN m ELSE Contents[x]
  <2> TAKE x \in Filled'
  <2>1. x \in Nat /\ Page(x) \in Nat /\ (x # n => x \in Filled)
    BY <1>5, <1>6, PageAndOff
  <2>2. x \in Filled => Contents[x] = Slot(x)
    BY DEF Contents, Slot
  <2> QED
    BY <1>3, <2>1, <2>2
<1>8. Contents' = [x \in Filled' |-> Slot(x)']
  BY DEF Contents, Slot
<1>9. DOMAIN Contents = Filled
  BY DEF Contents
<1>10. Contents' = Store!Upset(Contents, n, m)
  BY <1>6, <1>7, <1>8, <1>9 DEF Store!Upset
<1>11. flag' = ~Store!IsNil(Contents, n)
  BY <1>1, <1>3, <1>9 DEF Store!IsNil
<1> QED
  BY <1>10, <1>11 DEF CacheUpset

\* IsNil on the pages is IsNil on the map.
LEMMA IsNilIsIsNil ==
  ASSUME CacheTypeOK, NEW n \in Nat, CacheIsNil(n)
  PROVE  flag' = Store!IsNil(Contents, n)
<1>1. n \in Filled <=> Page(n) < nPage /\ Slot(n) # Nil
  BY FilledIs
<1>2. Page(n) \in Nat /\ nPage \in Nat
  BY PageAndOff DEF CacheTypeOK
<1>3. Store!IsNil(Contents, n) <=> n \notin Filled
  BY FilledNat DEF Store!IsNil
<1>4. flag' = (Page(n) >= nPage \/ Slot(n) = Nil)
  BY DEF CacheIsNil, Slot
<1> QED
  BY <1>1, <1>2, <1>3, <1>4 DEF Store!IsNil

\* Every set of natural numbers but the empty one has a least element.
LEMMA LeastOne ==
  ASSUME NEW T \in SUBSET Nat, T # {}
  PROVE  \E k \in T : \A x \in T : k <= x
<1> DEFINE R == OpToRel(<, Nat)
<1>1. \A x, y \in Nat : <<x, y>> \in R <=> x < y
  BY DEF OpToRel
<1>2. IsWellFoundedOn(R, Nat)
  BY NatLessThanWellFounded, Zenon
<1> HIDE DEF R
<1>3. PICK k \in T : \A x \in T : ~(<<x, k>> \in R)
  BY <1>2, WFMin, Zenon
<1>4. ASSUME NEW x \in T
      PROVE  k <= x
  <2>1. x \in Nat /\ k \in Nat /\ ~(<<x, k>> \in R)
    BY <1>3
  <2> QED
    BY <1>1, <2>1
<1> QED
  BY <1>4

\* getCount's loop ends k rounds after n exactly if nothing is cached there.
LEMMA EndsAtGap ==
  ASSUME CacheTypeOK, NEW n \in Nat, NEW k \in Nat
  PROVE  WalkEnds(Page(n), Off(n), k) <=> n + k \notin Filled
<1>1. /\ WalkPage(Page(n), Off(n), k) = Page(n + k)
      /\ WalkOff(Off(n), k) = Off(n + k)
  BY WalkLeadsOn
<1>2. n + k \in Nat /\ Page(n + k) \in Nat /\ nPage \in Nat
  BY PageAndOff DEF CacheTypeOK
<1>3. n + k \in Filled <=> Page(n + k) < nPage /\ Slot(n + k) # Nil
  BY <1>2, FilledIs
<1> QED
  BY <1>1, <1>2, <1>3 DEF WalkEnds, Slot

\* The run getCount counts: it ends, and everything before its end is cached.
LEMMA CountIsRun ==
  ASSUME CacheTypeOK, NEW n \in Nat
  PROVE  LET k == GetCount(Page(n), Off(n))
         IN  k \in Nat /\ n + k \notin Filled /\ \A j \in 0 .. k - 1 : n + j \in Filled
<1> DEFINE N == nPage * PageMsg
           T == {k \in Nat : n + k \notin Filled}
           Good(k) == /\ WalkEnds(Page(n), Off(n), k)
                      /\ \A j \in 0 .. k - 1 : ~WalkEnds(Page(n), Off(n), j)
<1>1. N \in Nat
  BY CacheAssumption DEF CacheTypeOK
<1>2. Filled \subseteq 0 .. N - 1
  BY DEF Filled
<1> HIDE DEF N
<1>3. N \in T
  BY <1>1, <1>2
<1>4. PICK k \in T : \A x \in T : k <= x
  BY <1>3, LeastOne
<1>5. k \in Nat /\ k <= N /\ k \in 0 .. N
  BY <1>1, <1>3, <1>4
<1>6. Good(k)
  <2>1. WalkEnds(Page(n), Off(n), k)
    BY <1>4, EndsAtGap
  <2>2. ASSUME NEW j \in 0 .. k - 1
        PROVE  ~WalkEnds(Page(n), Off(n), j)
    <3>1. j \in Nat /\ ~(k <= j)
      BY <1>5
    <3>2. n + j \in Filled
      BY <1>4, <3>1
    <3> QED
      BY <3>1, <3>2, EndsAtGap
  <2> QED
    BY <2>1, <2>2
<1>7. GetCount(Page(n), Off(n)) \in 0 .. N /\ Good(GetCount(Page(n), Off(n)))
  BY <1>5, <1>6 DEF GetCount, N
<1> DEFINE c == GetCount(Page(n), Off(n))
<1> HIDE DEF c
<1>8. c \in Nat
  BY <1>1, <1>7 DEF c
<1>9. n + c \notin Filled
  BY <1>7, <1>8, EndsAtGap DEF c
<1>10. ASSUME NEW j \in 0 .. c - 1 PROVE n + j \in Filled
  <2>1. j \in Nat /\ ~WalkEnds(Page(n), Off(n), j)
    BY <1>7, <1>8 DEF c
  <2> QED
    BY <2>1, EndsAtGap
<1> QED
  BY <1>8, <1>9, <1>10 DEF c

\* The map's cardinality is the usual one.
LEMMA SameCardinality == \A S : Store!Cardinality(S) = Cardinality(S)
BY DEF Store!Cardinality, Cardinality

\* Merge on the pages is Merge on the map.
LEMMA MergeIsMerge ==
  ASSUME CacheTypeOK, NEW n \in Nat, CacheMerge(n)
  PROVE  merged' = Store!Merge(Contents, n)
<1>1. Filled \subseteq Nat /\ DOMAIN Contents = Filled
  BY FilledNat
<1>2. \A x \in Filled : Contents[x] = Slot(x)
  BY DEF Contents, Slot
<1>3. CASE Page(n) >= nPage
  <2>1. n \notin Filled
    <3>1. Page(n) \in Nat /\ nPage \in Nat
      BY PageAndOff DEF CacheTypeOK
    <3> QED
      BY <1>3, <3>1, FilledIs
  <2>2. Store!RunFrom(Contents, n) = {}
    <3>1. ASSUME NEW x \in Store!RunFrom(Contents, n) PROVE FALSE
      <4>1. x \in Nat /\ n <= x /\ n .. x \subseteq Filled
        BY <1>1 DEF Store!RunFrom
      <4>2. n \in n .. x
        BY <4>1
      <4> QED
        BY <2>1, <4>1, <4>2
    <3> QED
      BY <3>1
  <2>3. Store!Merge(Contents, n) = <<>>
    BY <2>2, FS_EmptySet, SameCardinality DEF Store!Merge
  <2> QED
    BY <1>3, <2>3 DEF CacheMerge
<1>4. CASE ~(Page(n) >= nPage)
  <2> DEFINE k == GetCount(Page(n), Off(n))
             End == n + k
  <2>1. k \in Nat /\ End \notin Filled /\ \A j \in 0 .. k - 1 : n + j \in Filled
    BY CountIsRun
  <2>2. merged' = [i \in 1 .. k |->
                     msgPages[WalkPage(Page(n), Off(n), i - 1)][WalkOff(Off(n), i - 1)]]
    BY <1>4 DEF CacheMerge
  <2> HIDE DEF k
  <2>3. End \in Nat /\ n <= End /\ End = n + k
    BY <2>1
  <2> HIDE DEF End
  <2>4. \A x \in n .. End - 1 : x \in Filled
    <3> TAKE x \in n .. End - 1
    <3>1. x - n \in 0 .. k - 1 /\ x = n + (x - n)
      BY <2>1, <2>3
    <3> QED
      BY <2>1, <3>1
  <2>5. Store!RunFrom(Contents, n) = n .. End - 1
    <3>1. ASSUME NEW x \in Store!RunFrom(Contents, n)
          PROVE  x \in n .. End - 1
      <4>1. x \in Nat /\ n <= x /\ n .. x \subseteq Filled
        BY <1>1 DEF Store!RunFrom
      <4> QED
        BY <2>1, <2>3, <4>1
    <3>2. ASSUME NEW x \in n .. End - 1
          PROVE  x \in Store!RunFrom(Contents, n)
      <4>1. x \in Filled /\ n <= x
        BY <2>3, <2>4
      <4>2. n .. x \subseteq Filled
        BY <2>3, <2>4
      <4> QED
        BY <1>1, <4>1, <4>2 DEF Store!RunFrom
    <3> QED
      BY <3>1, <3>2, Zenon
  <2>6. Cardinality(Store!RunFrom(Contents, n)) = k
    BY <2>1, <2>3, <2>5, FS_Interval
  <2>7. ASSUME NEW i \in 1 .. k
        PROVE  msgPages[WalkPage(Page(n), Off(n), i - 1)][WalkOff(Off(n), i - 1)]
                 = Contents[n + i - 1]
    <3>1. i - 1 \in Nat /\ n + i - 1 = n + (i - 1) /\ n + (i - 1) \in Filled
      BY <2>1
    <3> QED
      BY <1>2, <3>1, WalkLeadsOn DEF Slot
  <2> QED
    BY <2>2, <2>6, <2>7, SameCardinality DEF Store!Merge
<1> QED
  BY <1>3, <1>4

-------------------------------------------------------------------------------
(* Theorems *)

\* Every step of the pages keeps their types, and is a step of the map.
LEMMA CacheStep ==
  ASSUME CacheTypeOK, [CacheNext]_cacheVars
  PROVE  CacheTypeOK' /\ [Store!StoreNext]_<<Contents, flag, merged>>
<1>1. ASSUME NEW n \in SeqNos, NEW m \in Message, CacheUpset(n, m)
      PROVE  CacheTypeOK' /\ Store!StoreUpset(n, m)
  <2>1. n \in Nat
    BY CacheAssumption
  <2> QED
    BY <1>1, <2>1, UpsetSlots, UpsetIsUpset DEF Store!StoreUpset
<1>2. ASSUME NEW n \in SeqNos, CacheIsNil(n)
      PROVE  CacheTypeOK' /\ Store!StoreIsNil(n)
  <2>1. n \in Nat
    BY CacheAssumption
  <2>2. CacheTypeOK' /\ Contents' = Contents /\ merged' = merged
    BY <1>2 DEF CacheIsNil, CacheTypeOK, Contents, Filled
  <2> QED
    BY <1>2, <2>1, <2>2, IsNilIsIsNil DEF Store!StoreIsNil
<1>3. ASSUME NEW n \in SeqNos, CacheMerge(n)
      PROVE  CacheTypeOK' /\ Store!StoreMerge(n)
  <2>1. n \in Nat
    BY CacheAssumption
  <2>2. CacheTypeOK' /\ Contents' = Contents /\ flag' = flag
    BY <1>3 DEF CacheMerge, CacheTypeOK, Contents, Filled
  <2> QED
    BY <1>3, <2>1, <2>2, MergeIsMerge DEF Store!StoreMerge
<1>4. ASSUME UNCHANGED cacheVars
      PROVE  CacheTypeOK' /\ UNCHANGED <<Contents, flag, merged>>
  BY <1>4 DEF cacheVars, CacheTypeOK, Contents, Filled
<1> QED
  BY <1>1, <1>2, <1>3, <1>4, Zenon DEF CacheNext, Store!StoreNext

\* At first the pages are empty, and so is the map.
LEMMA CacheStart ==
  ASSUME CacheInit
  PROVE  CacheTypeOK /\ Store!StoreInit
<1>1. CacheTypeOK
  BY CacheAssumption DEF CacheInit, CacheTypeOK, EmptyPage
<1>2. Filled = {}
  <2>1. ASSUME NEW n \in Filled PROVE FALSE
    <3>1. n \in Nat
      BY <1>1, FilledNat
    <3>2. Page(n) < nPage /\ Slot(n) # Nil /\ Page(n) \in Nat /\ Off(n) \in Offsets
      BY <1>1, <3>1, FilledIs, PageAndOff
    <3> QED
      BY <3>2, CacheAssumption DEF CacheInit, Slot, EmptyPage
  <2> QED
    BY <2>1
<1>3. Contents = <<>>
  BY <1>2 DEF Contents
<1> QED
  BY <1>1, <1>3 DEF CacheInit, Store!StoreInit

\* The pages of the cache are always there as counted, and no slot holds
\* anything but nil or a message, for every page size and growth increment.
THEOREM CacheTypes == CacheSpec => []CacheTypeOK
<1>1. CacheInit => CacheTypeOK
  BY CacheStart
<1>2. CacheTypeOK /\ [CacheNext]_cacheVars => CacheTypeOK'
  BY CacheStep
<1> QED
  BY <1>1, <1>2, PTL DEF CacheSpec

\* The paged array of msgCache implements the map of sequence numbers to
\* messages: Upset, IsNil and Merge answer as on the map, whatever the page
\* size, the growth increment and the numbers in use.
THEOREM CacheImplementsStore == CacheSpec => ImplementsStore
<1>1. CacheInit => Store!StoreInit
  BY CacheStart
<1>2. CacheTypeOK /\ [CacheNext]_cacheVars => [Store!StoreNext]_<<Contents, flag, merged>>
  BY CacheStep
<1> QED
  BY <1>1, <1>2, CacheTypes, PTL DEF CacheSpec, ImplementsStore, Store!StoreSpec

===============================================================================
