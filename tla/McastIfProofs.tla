----------------------------- MODULE McastIfProofs -----------------------------
(***************************************************************************)
(* Proofs about McastIf, for any number of descriptors: what an interface  *)
(* holds open, whose descriptors it closes and on which it sets options.   *)
(***************************************************************************)
EXTENDS McastIf, TLAPS

-------------------------------------------------------------------------------
(* The inductive invariant *)

Owners == {"free", "if", "dup", "lost", "other"}

IfTypes ==
  /\ kind \in {"net", "sock", "winsock", "zsock"}
  /\ owner \in [Fds -> Owners]
  /\ handle \in Fds \cup {None} /\ fd \in Fds \cup {None}
  /\ stage \in {"idle", "socket", "file", "bind", "ring", "reserve", "join", "loop"}
  /\ mode \in {"read", "send", "loop"}
  /\ starts \in Nat
  /\ stale \in BOOLEAN /\ early \in BOOLEAN

\* Where Open is, and what it works on.
OpenShape ==
  /\ stage \in {"idle", "socket", "file"} => fd = None
  /\ stage \in {"socket", "ring"} => handle = None
  /\ stage = "file" => kind = "net"
  /\ stage = "bind" => kind \in {"sock", "winsock"}
  /\ stage = "ring" => kind = "zsock" /\ fd # None /\ owner[fd] = "if"
  /\ stage \in {"file", "bind", "reserve", "join", "loop"} =>
       handle # None /\ owner[handle] = "if" /\ (kind # "net" => fd = handle)
  /\ kind = "net" /\ fd # None => owner[fd] = "dup" \/ early

\* Whose descriptor c has, and what is left when WSACleanup has taken all.
HandleShape ==
  /\ handle # None => owner[handle] = "if" \/ stale \/ starts = 0
  /\ stale => /\ kind \in {"sock", "winsock"} /\ stage = "idle"
              /\ handle # None /\ owner[handle] # "if"
  /\ starts = 0 => stage \in {"idle", "socket"} /\ \A d \in Fds : owner[d] = "free"
  /\ result = "foreign" => stale

\* HoldsItsOwn, descriptor by descriptor.
ExactlyHeld ==
  starts > 0 =>
    \A d \in Fds :
      owner[d] = "if" <=> ~stale /\ (d = handle \/ (stage = "ring" /\ d = fd))

IfInv == IfTypes /\ OpenShape /\ HandleShape /\ ExactlyHeld

\* A descriptor number is not -1.
LEMMA NoneIsNoFd == None \notin Fds
BY DEF None, Fds

\* NewIf gives an interface with nothing open.
LEMMA IfInitInv == IfInit => IfInv
BY IfAssumption, NoneIsNoFd
   DEF IfInit, IfInv, IfTypes, OpenShape, HandleShape, ExactlyHeld, Owners

\* Calls and system calls that leave every descriptor as it is.
LEMMA QuietStepInv ==
  ASSUME IfInv,
         \/ OpenAgain \/ (\E m \in {"read", "send", "loop"} : OpenCalled(m))
         \/ OpenPanics \/ SocketFails \/ FileFails \/ Bind \/ SetsOption
         \/ CloseNone
  PROVE  IfInv'
<1> USE NoneIsNoFd DEF IfInv, IfTypes, OpenShape, HandleShape, ExactlyHeld, openVars, historyVars
<1>1. CASE OpenAgain \/ CloseNone
  BY <1>1 DEF OpenAgain, CloseNone
<1>2. CASE \E m \in {"read", "send", "loop"} : OpenCalled(m)
  BY <1>2 DEF OpenCalled
<1>3. CASE OpenPanics \/ SocketFails
  BY <1>3 DEF OpenPanics, SocketFails, End
<1>4. CASE FileFails
  BY <1>4 DEF FileFails, GoOn
<1>5. CASE Bind
  BY <1>5 DEF Bind, GoOn
<1>6. CASE Reserve
  BY <1>6 DEF Reserve, GoOn
<1>7. CASE Join
  BY <1>7 DEF Join, GoOn, End
<1>8. CASE Loop \/ LoopFails
  BY <1>8 DEF Loop, LoopFails, End
<1> QED
  BY <1>1, <1>2, <1>3, <1>4, <1>5, <1>6, <1>7, <1>8 DEF SetsOption

\* Recv and Send reach another's descriptor only through a stale one.
LEMMA TransferStepInv ==
  ASSUME IfInv, Recv \/ Send \/ MSendRing
  PROVE  IfInv'
<1> USE NoneIsNoFd DEF IfInv, IfTypes, OpenShape, HandleShape, ExactlyHeld, openVars, historyVars
<1>1. UNCHANGED <<kind, owner, handle, bRead, stage, mode, fd, starts, stale, early>>
  BY DEF Recv, Send, MSendRing
<1>2. result' = "foreign" => stale
  <2>1. Transfer = "foreign" => stale
    BY DEF Transfer
  <2> QED
    BY <2>1, Zenon DEF Recv, Send, MSendRing
<1> QED
  BY <1>1, <1>2

\* System calls that give the interface a descriptor.
LEMMA OpenStepInv ==
  ASSUME IfInv, ListenUDP \/ File \/ Socket \/ RingSocket \/ Ring \/ RingFails
  PROVE  IfInv'
<1> USE NoneIsNoFd DEF IfInv, IfTypes, OpenShape, HandleShape, ExactlyHeld, Owners, GoOn, End,
                       Lowest, historyVars
<1>1. CASE ListenUDP
  BY <1>1 DEF ListenUDP
<1>2. CASE File
  BY <1>2 DEF File
<1>3. CASE Socket
  BY <1>3 DEF Socket
<1>4. CASE RingSocket
  BY <1>4 DEF RingSocket
<1>5. CASE Ring
  BY <1>5 DEF Ring
<1>6. CASE RingFails
  BY <1>6 DEF RingFails
<1> QED
  BY <1>1, <1>2, <1>3, <1>4, <1>5, <1>6

\* What closing a descriptor leaves.
LEMMA CloseFdKeeps ==
  ASSUME IfTypes, NEW d \in Fds, CloseFd(d)
  PROVE  /\ starts' \in Nat /\ owner' \in [Fds -> Owners]
         /\ starts = 0 => starts' = 0
         /\ starts' = 0 => \A e \in Fds : owner'[e] = "free"
         /\ starts' # 0 => \A e \in Fds : owner'[e] = IF e = d THEN "free" ELSE owner[e]
BY DEF CloseFd, IfTypes, Owners

\* Calls that close a descriptor.
LEMMA CloseStepInv ==
  ASSUME IfInv, BindFails \/ Close
  PROVE  IfInv'
<1> USE NoneIsNoFd DEF IfInv
<1>1. handle \in Fds /\ CloseFd(handle)
  BY DEF BindFails, Close, IfTypes, OpenShape
<1>2. /\ starts' \in Nat /\ owner' \in [Fds -> Owners]
      /\ starts = 0 => starts' = 0
      /\ starts' = 0 => \A e \in Fds : owner'[e] = "free"
      /\ starts' # 0 => \A e \in Fds : owner'[e] = IF e = handle THEN "free" ELSE owner[e]
  BY <1>1, CloseFdKeeps
<1>3. CASE BindFails
  BY <1>2, <1>3 DEF BindFails, End, IfTypes, OpenShape, HandleShape, ExactlyHeld
<1>4. CASE Close
  <2>1. /\ stage = "idle" /\ handle' = None /\ stale' = FALSE
        /\ UNCHANGED <<kind, bRead, stage, mode, fd, early>>
        /\ result' \in {"error", "nil"}
    BY <1>4 DEF Close, openVars
  <2>2. IfTypes' /\ OpenShape' /\ HandleShape'
    BY <1>2, <2>1 DEF IfTypes, OpenShape, HandleShape
  <2>3. ExactlyHeld'
    BY <1>2, <2>1 DEF IfTypes, ExactlyHeld
  <2> QED
    BY <2>2, <2>3
<1> QED
  BY <1>3, <1>4

\* The rest of the process.
LEMMA OtherStepInv ==
  ASSUME IfInv, Collect \/ OtherOpens \/ OtherCloses
  PROVE  IfInv'
<1> USE NoneIsNoFd DEF IfInv, IfTypes, OpenShape, HandleShape, ExactlyHeld, Owners, openVars,
                       historyVars
<1>1. CASE Collect
  <2>1. IfTypes'
    BY <1>1 DEF Collect
  <2>2. OpenShape'
    BY <1>1 DEF Collect
  <2>3. HandleShape'
    BY <1>1 DEF Collect
  <2>4. ExactlyHeld'
    BY <1>1 DEF Collect
  <2> QED
    BY <2>1, <2>2, <2>3, <2>4
<1>2. CASE OtherOpens
  BY <1>2 DEF OtherOpens, Lowest
<1>3. CASE OtherCloses
  BY <1>3 DEF OtherCloses
<1> QED
  BY <1>1, <1>2, <1>3

\* Every step keeps the invariant.
LEMMA IfNextInv == IfInv /\ [IfNext]_ifVars => IfInv'
<1> SUFFICES ASSUME IfInv, [IfNext]_ifVars PROVE IfInv'
  OBVIOUS
<1>1. CASE IfNext
  BY <1>1, QuietStepInv, TransferStepInv, OpenStepInv, CloseStepInv, OtherStepInv, Zenon
     DEF IfNext, Opening
<1>2. CASE UNCHANGED ifVars
  BY <1>2 DEF ifVars, openVars, historyVars, IfInv, IfTypes, OpenShape, HandleShape, ExactlyHeld
<1> QED
  BY <1>1, <1>2

-------------------------------------------------------------------------------
(* Theorems *)

\* The invariant holds in every reachable state.
THEOREM IfInvariance == IfSpec => []IfInv
BY IfInitInv, IfNextInv, PTL DEF IfSpec

\* The interface holds what it was given and no more, and its calls reach its own
\* socket; after a failed Bind it holds nothing, and they may reach another's
\* until Close.  The descriptor of a failed NewZSocket counts as nobody's.
THEOREM HoldsOwn == IfSpec => []HoldsItsOwn
<1>1. IfInv => HoldsItsOwn
  BY NoneIsNoFd DEF IfInv, IfTypes, OpenShape, HandleShape, ExactlyHeld, HoldsItsOwn, Held
<1> QED
  BY <1>1, IfInvariance, PTL

\* Except through the descriptor a failed Bind leaves in c.fd, and WSACleanup,
\* the interface never closes a descriptor of the rest of the process.
THEOREM OthersSafe == IfSpec => OthersUntouched
<1>1. ASSUME IfInv, [IfNext]_ifVars
      PROVE  [\A d \in Fds : owner[d] = "other" /\ owner'[d] # "other"
                => \/ OtherCloses
                   \/ kind \in {"sock", "winsock"} /\ stale /\ handle = d
                   \/ starts' = 0]_ifVars
  <2> SUFFICES ASSUME IfNext, NEW d \in Fds, owner[d] = "other", owner'[d] # "other",
                      ~OtherCloses, starts' # 0
               PROVE  kind \in {"sock", "winsock"} /\ stale /\ handle = d
    BY <1>1, Zenon DEF ifVars
  <2> USE <1>1, NoneIsNoFd DEF IfInv, IfTypes
  <2>1. owner' # owner
    OBVIOUS
  <2>2. CASE BindFails \/ Close
    <3>1. handle \in Fds /\ CloseFd(handle)
      BY <2>2 DEF BindFails, Close, OpenShape
    <3>2. d = handle /\ starts # 0
      BY <3>1, CloseFdKeeps
    <3> QED
      BY <2>2, <3>2 DEF HandleShape
  <2>3. CASE ListenUDP \/ File \/ Socket \/ RingSocket
    BY <2>3 DEF ListenUDP, File, Socket, RingSocket, Lowest
  <2>4. CASE RingFails
    BY <2>4 DEF RingFails, OpenShape
  <2>5. CASE Collect \/ OtherOpens
    BY <2>5 DEF Collect, OtherOpens, Lowest
  <2>6. CASE OpenAgain \/ (\E m \in {"read", "send", "loop"} : OpenCalled(m))
             \/ OpenPanics \/ SocketFails \/ FileFails \/ Bind \/ Ring \/ SetsOption
             \/ CloseNone \/ Recv \/ Send \/ MSendRing
    BY <2>1, <2>6, Zenon
       DEF OpenAgain, OpenCalled, OpenPanics, SocketFails, FileFails, Bind, Ring, SetsOption,
           Reserve, Join, Loop, LoopFails, CloseNone, Recv, Send, MSendRing
  <2> QED
    BY <2>2, <2>3, <2>4, <2>5, <2>6, Zenon DEF IfNext, Opening
<1> QED
  BY <1>1, IfInvariance, PTL DEF IfSpec, OthersUntouched

\* Buffer sizes, membership and loop option are set on the interface's socket,
\* or on netIf's copy of it unless that was collected too early.
THEOREM OptionsSafe == IfSpec => OptionsOnOwn
<1>1. ASSUME IfInv
      PROVE  SetsOption /\ fd # None => owner[fd] \in {"if", "dup"} \/ early
  BY <1>1 DEF IfInv, OpenShape, IfTypes, SetsOption, Reserve, Join, Loop, LoopFails
<1> QED
  BY <1>1, IfInvariance, PTL DEF IfSpec, OptionsOnOwn

===============================================================================
