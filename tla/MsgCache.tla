------------------------------- MODULE MsgCache -------------------------------
(***************************************************************************)
(* msgCache: the client's cache as an array of pages of message slots that *)
(* grows by a fixed number of pages.  It implements MsgStore.              *)
(***************************************************************************)
EXTENDS Integers, Sequences, FiniteSets

CONSTANTS
  PageMsg,        \* maxPageMsg, 2^pageShift: slots in a page
  PageIncrement,  \* pageIncrement: pages added at a time
  SeqNos,         \* sequence numbers in use
  Message,        \* messages in use
  Nil             \* the nil pointer in an empty slot

ASSUME CacheAssumption ==
  /\ PageMsg \in Nat \ {0} /\ PageIncrement \in Nat \ {0}
  /\ SeqNos \subseteq Nat
  /\ Nil \notin Message

VARIABLES
  nPage,      \* mc.nPage
  maxPageNo,  \* mc.maxPageNo
  msgPages,   \* mc.msgPages
  flag,       \* what the last Upset or IsNil returned
  merged      \* what the last Merge returned

cacheVars == <<nPage, maxPageNo, msgPages, flag, merged>>

Offsets == 0 .. PageMsg - 1
EmptyPage == [o \in Offsets |-> Nil]

CacheInit == /\ nPage = PageIncrement /\ maxPageNo = 0
             /\ msgPages = [p \in 0 .. PageIncrement - 1 |-> EmptyPage]
             /\ flag = FALSE /\ merged = <<>>

Page(n) == n \div PageMsg       \* seqNo >> pageShift
Off(n) == n % PageMsg           \* seqNo & (maxPageMsg - 1)

\* mc.nPage once page fits: increments are added while it does not.
Grown(page) ==
  IF page < nPage THEN nPage
  ELSE nPage + PageIncrement * ((page - nPage) \div PageIncrement + 1)

\* Mutant: growing allocates the pages anew.
ExtendedAnew(n) ==
  [p \in 0 .. n - 1 |-> IF n = nPage THEN msgPages[p] ELSE EmptyPage]

\* mc.msgPages with empty pages appended up to n.
Extended(n) == [p \in 0 .. n - 1 |-> IF p < nPage THEN msgPages[p] ELSE EmptyPage]

\* Mutant: the page behind the one in use is counted.
MaxPageBehind(page) == IF page + 1 > maxPageNo THEN page + 1 ELSE maxPageNo

\* mc.maxPageNo with page in use.
MaxPage(page) == IF page > maxPageNo THEN page ELSE maxPageNo

CacheUpset(n, m) ==
  LET pages == Extended(Grown(Page(n)))
  IN /\ nPage' = Grown(Page(n))
     /\ maxPageNo' = MaxPage(Page(n))
     /\ flag' = (pages[Page(n)][Off(n)] # Nil)
     /\ msgPages' = [pages EXCEPT ![Page(n)][Off(n)] = m]
     /\ UNCHANGED merged

CacheIsNil(n) ==
  /\ flag' = (Page(n) >= nPage \/ msgPages[Page(n)][Off(n)] = Nil)
  /\ UNCHANGED <<nPage, maxPageNo, msgPages, merged>>

\* Where k times off++, with its carry into page, leads from page and off.
WalkPage(page, off, k) == page + (off + k) \div PageMsg
WalkOff(off, k) == (off + k) % PageMsg

\* getCount's loop ends after k rounds: at the end of the pages or at nil.
WalkEnds(page, off, k) ==
  \/ WalkPage(page, off, k) >= nPage
  \/ msgPages[WalkPage(page, off, k)][WalkOff(off, k)] = Nil

GetCount(page, off) ==
  CHOOSE k \in 0 .. nPage * PageMsg :
    WalkEnds(page, off, k) /\ \A j \in 0 .. k - 1 : ~WalkEnds(page, off, j)

CacheMerge(n) ==
  /\ merged' = IF Page(n) >= nPage THEN <<>>
               ELSE [i \in 1 .. GetCount(Page(n), Off(n)) |->
                       msgPages[WalkPage(Page(n), Off(n), i - 1)][WalkOff(Off(n), i - 1)]]
  /\ UNCHANGED <<nPage, maxPageNo, msgPages, flag>>

CacheNext == \E n \in SeqNos : \/ \E m \in Message : CacheUpset(n, m)
                               \/ CacheIsNil(n)
                               \/ CacheMerge(n)

CacheSpec == CacheInit /\ [][CacheNext]_cacheVars

-------------------------------------------------------------------------------
(* Properties *)

\* The pages are there as counted, and every slot is nil or holds a message.
CacheTypeOK ==
  /\ nPage \in Nat /\ maxPageNo \in 0 .. nPage - 1
  /\ msgPages \in [0 .. nPage - 1 -> [Offsets -> Message \cup {Nil}]]

\* The map the pages stand for: the messages in slots that are not nil.
Filled == {n \in 0 .. nPage * PageMsg - 1 : msgPages[Page(n)][Off(n)] # Nil}
Contents == [n \in Filled |-> msgPages[Page(n)][Off(n)]]

Store == INSTANCE MsgStore WITH store <- Contents

\* The paged array behaves as the map: growing it loses nothing and brings
\* nothing in, and Merge returns the whole unbroken run from its argument,
\* across page boundaries and up to the last page.
ImplementsStore == Store!StoreSpec

===============================================================================
