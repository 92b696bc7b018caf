-------------------------------- MODULE McastIf --------------------------------
(***************************************************************************)
(* The life of a McastConn: netIf over net.UDPConn ("net"), sockIf over a  *)
(* descriptor ("sock", and "winsock" on Windows), zsockIf over a ZSocket   *)
(* ("zsock").  Its user opens, closes, receives and sends in any order;    *)
(* the rest of the process opens and closes descriptors of its own, also   *)
(* between the system calls of Open.  Every system call may fail.          *)
(***************************************************************************)
EXTENDS Integers, FiniteSets

CONSTANTS
  MaxFd,        \* largest descriptor number of the process
  Starts        \* WSAStartup calls: of winsock.go's init and of package net

ASSUME IfAssumption == MaxFd \in Nat /\ Starts \in Nat \ {0}

Fds == 0 .. MaxFd
None == -1            \* fd -1, a nil conn or a nil zs

VARIABLES
  kind,         \* which of the four it is
  owner,        \* whose each descriptor is, or "free"
  handle,       \* c.fd, or the descriptor behind c.conn or c.zs
  bRead,        \* c.bRead
  stage,           \* where in Open or OpenSend the user is, or "idle"
  mode,         \* which of the two it is: "read", "send", "loop" (bLoop)
  fd,           \* the descriptor Open works on in a local variable
  starts,       \* WSAStartup calls not yet taken back
  stale,        \* history: Bind has failed, and c.fd is no longer its own
  early,        \* history: netIf's copy was collected before its last use
  result        \* what the last call returned

openVars == <<stage, mode, fd>>
historyVars == <<stale, early>>
ifVars == <<kind, owner, handle, bRead, openVars, starts, historyVars, result>>

IfInit ==
  /\ kind \in {"net", "sock", "winsock", "zsock"}
  /\ owner = [d \in Fds |-> "free"]
  /\ handle = None /\ bRead = FALSE /\ starts = Starts
  /\ stage = "idle" /\ mode = "read" /\ fd = None
  /\ stale = FALSE /\ early = FALSE /\ result = "nil"

\* Descriptors of the interface are "if", "dup" for the copy netIf makes, and
\* "lost"; the others in use are "other".

\* The kernel's choice for a new descriptor: the lowest number that is free.
Lowest(d) == starts > 0 /\ owner[d] = "free" /\ \A e \in 0 .. d - 1 : owner[e] # "free"

\* A step of Open goes on at p, or ends the call with r.
GoOn(p) == stage' = p /\ UNCHANGED <<mode, result>>
End(r) == stage' = "idle" /\ mode' = "read" /\ result' = r

\* Close of descriptor d; on Windows it takes back a WSAStartup, and with the
\* last of them every socket of the process is gone.
CloseFd(d) ==
  /\ starts' = IF kind = "winsock" /\ starts > 0 THEN starts - 1 ELSE starts
  /\ owner' = IF starts' = 0 THEN [e \in Fds |-> "free"] ELSE [owner EXCEPT ![d] = "free"]

-------------------------------------------------------------------------------
(* Open and OpenSend *)

OpenAgain ==
  /\ stage = "idle" /\ handle # None /\ result' = "errOpened"
  /\ UNCHANGED <<kind, owner, handle, bRead, openVars, starts, historyVars>>

OpenCalled(m) ==
  /\ stage = "idle" /\ handle = None
  /\ stage' = "socket" /\ mode' = m
  /\ UNCHANGED <<kind, owner, handle, bRead, fd, starts, historyVars, result>>

\* zsockIf: without an interface, ifn.Index is a run-time panic.
OpenPanics ==
  /\ stage = "socket" /\ kind = "zsock" /\ End("panic")
  /\ UNCHANGED <<kind, owner, handle, bRead, fd, starts, historyVars>>

\* Socket or ListenUDP fails.
SocketFails ==
  /\ stage = "socket" /\ End("error")
  /\ UNCHANGED <<kind, owner, handle, bRead, fd, starts, historyVars>>

\* netIf: ListenUDP.
ListenUDP ==
  /\ stage = "socket" /\ kind = "net"
  /\ \E d \in Fds : Lowest(d) /\ handle' = d /\ owner' = [owner EXCEPT ![d] = "if"]
  /\ bRead' = (mode = "read") /\ GoOn("file")
  /\ UNCHANGED <<kind, fd, starts, historyVars>>

\* File makes a copy of the descriptor, of which Open keeps the number.
File ==
  /\ stage = "file"
  /\ \E d \in Fds : Lowest(d) /\ fd' = d /\ owner' = [owner EXCEPT ![d] = "dup"]
  /\ GoOn("reserve")
  /\ UNCHANGED <<kind, handle, bRead, starts, historyVars>>

FileFails ==
  /\ stage = "file" /\ GoOn("reserve")
  /\ UNCHANGED <<kind, owner, handle, bRead, fd, starts, historyVars>>

\* sockIf: Socket.
Socket ==
  /\ stage = "socket" /\ kind \in {"sock", "winsock"}
  /\ \E d \in Fds : /\ Lowest(d) /\ handle' = d /\ fd' = d
                    /\ owner' = [owner EXCEPT ![d] = "if"]
  /\ GoOn(IF mode = "read" THEN "reserve" ELSE "bind")
  /\ UNCHANGED <<kind, bRead, starts, historyVars>>

Bind ==
  /\ stage = "bind" /\ bRead' = (mode = "read")
  /\ GoOn(IF mode = "read" THEN "join" ELSE "reserve")
  /\ UNCHANGED <<kind, owner, handle, fd, starts, historyVars>>

\* Mutant: Open goes on although Bind has failed.
BindFailsOn ==
  /\ stage = "bind" /\ CloseFd(handle)
  /\ GoOn(IF mode = "read" THEN "join" ELSE "reserve") /\ stale' = TRUE
  /\ UNCHANGED <<kind, handle, bRead, fd, early>>

\* Bind fails: the descriptor is closed but stays in c.fd.
BindFails ==
  /\ stage = "bind" /\ CloseFd(handle)
  /\ End("error") /\ fd' = None /\ stale' = TRUE
  /\ UNCHANGED <<kind, handle, bRead, early>>

\* zsockIf: NewZSocket opens a socket ...
RingSocket ==
  /\ stage = "socket" /\ kind = "zsock"
  /\ \E d \in Fds : Lowest(d) /\ fd' = d /\ owner' = [owner EXCEPT ![d] = "if"]
  /\ GoOn("ring")
  /\ UNCHANGED <<kind, handle, bRead, starts, historyVars>>

\* ... binds it, sets its version and ring and maps that, and c.zs is set ...
Ring ==
  /\ stage = "ring" /\ handle' = fd /\ bRead' = (mode = "read") /\ GoOn("join")
  /\ UNCHANGED <<kind, owner, fd, starts, historyVars>>

\* Mutant: NewZSocket closes the descriptor and c keeps it.
RingFailsStale ==
  /\ stage = "ring" /\ owner' = [owner EXCEPT ![fd] = "free"] /\ handle' = fd
  /\ End("error") /\ fd' = None /\ stale' = TRUE
  /\ UNCHANGED <<kind, bRead, starts, early>>

\* ... or one of these fails, and the descriptor stays open.
RingFails ==
  /\ stage = "ring" /\ owner' = [owner EXCEPT ![fd] = "lost"]
  /\ End("error") /\ fd' = None
  /\ UNCHANGED <<kind, handle, bRead, starts, historyVars>>

\* ReserveRecvBuf or ReserveSendBuf, on descriptor fd; failures are logged.
Reserve ==
  /\ stage = "reserve"
  /\ GoOn(IF kind \in {"sock", "winsock"} /\ mode = "read" THEN "bind" ELSE "join")
  /\ UNCHANGED <<kind, owner, handle, bRead, fd, starts, historyVars>>

\* JoinMulticast, JoinPacketMulticast or SetMulticastInterface, likewise; the
\* loop option follows if it is asked for and the kernel does the looping.
Join ==
  /\ stage = "join"
  /\ IF mode = "loop" /\ kind # "zsock"
       THEN GoOn("loop") /\ UNCHANGED fd
       ELSE End("nil") /\ fd' = None
  /\ UNCHANGED <<kind, owner, handle, bRead, starts, historyVars>>

Loop ==
  /\ stage = "loop" /\ End("nil") /\ fd' = None
  /\ UNCHANGED <<kind, owner, handle, bRead, starts, historyVars>>

\* SetMulticastLoop fails: sockIf's OpenSend returns the error and stays open.
LoopFails ==
  /\ stage = "loop" /\ End(IF kind = "net" THEN "nil" ELSE "error") /\ fd' = None
  /\ UNCHANGED <<kind, owner, handle, bRead, starts, historyVars>>

SetsOption == Reserve \/ Join \/ Loop \/ LoopFails

-------------------------------------------------------------------------------
(* Close, Recv and Send *)

CloseNone ==
  /\ stage = "idle" /\ handle = None /\ result' = "errClosed"
  /\ UNCHANGED <<kind, owner, handle, bRead, openVars, starts, historyVars>>

\* Mutant: c.fd, c.conn or c.zs is not reset.
CloseKeeps ==
  /\ stage = "idle" /\ handle # None
  /\ CloseFd(handle)
  /\ result' = IF owner[handle] = "free" THEN "error" ELSE "nil"
  /\ UNCHANGED <<kind, handle, bRead, openVars, historyVars>>

Close ==
  /\ stage = "idle" /\ handle # None
  /\ CloseFd(handle) /\ handle' = None /\ stale' = FALSE
  /\ result' = IF owner[handle] = "free" THEN "error" ELSE "nil"
  /\ UNCHANGED <<kind, bRead, openVars, early>>

\* What a system call on c's descriptor comes to.
Transfer == IF handle = None \/ owner[handle] = "free" THEN "error"
            ELSE IF owner[handle] = "if" THEN "data" ELSE "foreign"

\* Recv, and MRecv of sockIf; zsockIf only has Listen.
Recv ==
  /\ stage = "idle"
  /\ result' = IF ~bRead THEN "errModeRW"
               ELSE IF kind = "zsock" THEN "errNotSupport" ELSE Transfer
  /\ UNCHANGED <<kind, owner, handle, bRead, openVars, starts, historyVars>>

\* Send, and MSend of sockIf; a nil c.zs is a run-time panic.
Send ==
  /\ stage = "idle"
  /\ result' = IF bRead THEN "errModeRW"
               ELSE IF kind = "zsock" /\ handle = None THEN "panic" ELSE Transfer
  /\ UNCHANGED <<kind, owner, handle, bRead, openVars, starts, historyVars>>

\* MSend of zsockIf, which does not look at c.bRead: nothing is copied to a
\* receive ring.
MSendRing ==
  /\ stage = "idle" /\ kind = "zsock"
  /\ result' = IF handle = None THEN "panic" ELSE IF bRead THEN "nil" ELSE Transfer
  /\ UNCHANGED <<kind, owner, handle, bRead, openVars, starts, historyVars>>

-------------------------------------------------------------------------------
(* The rest of the process *)

\* The garbage collector closes the copy File has made: after ff.Fd() nothing
\* refers to it any more, though Open goes on to use its number.
Collect ==
  /\ \E d \in Fds : /\ owner[d] = "dup" /\ owner' = [owner EXCEPT ![d] = "free"]
                    /\ early' = (early \/ fd = d)
  /\ UNCHANGED <<kind, handle, bRead, openVars, starts, stale, result>>

OtherOpens ==
  /\ \E d \in Fds : Lowest(d) /\ owner' = [owner EXCEPT ![d] = "other"]
  /\ UNCHANGED <<kind, handle, bRead, openVars, starts, historyVars, result>>

OtherCloses ==
  /\ \E d \in Fds : owner[d] = "other" /\ owner' = [owner EXCEPT ![d] = "free"]
  /\ UNCHANGED <<kind, handle, bRead, openVars, starts, historyVars, result>>

Opening == \/ OpenAgain \/ (\E m \in {"read", "send", "loop"} : OpenCalled(m))
           \/ OpenPanics \/ SocketFails \/ ListenUDP \/ File \/ FileFails
           \/ Socket \/ Bind \/ BindFails \/ RingSocket \/ Ring \/ RingFails
           \/ SetsOption

IfNext == /\ result # "panic"
          /\ \/ Opening \/ CloseNone \/ Close \/ Recv \/ Send \/ MSendRing
             \/ Collect \/ OtherOpens \/ OtherCloses

IfSpec == IfInit /\ [][IfNext]_ifVars

-------------------------------------------------------------------------------
(* Properties *)

\* The descriptors the interface should have open: the one it keeps, and the
\* one NewZSocket is still working on.
Held == ({handle} \cup (IF stage = "ring" THEN {fd} ELSE {})) \ {None}

\* Over any sequence of calls, the interface holds exactly the descriptor it was
\* given: Close leaves none behind, none is closed twice, and neither Recv nor
\* Send reaches another's socket.  There are three exceptions.  From a failed
\* Bind to the next Close, sockIf holds none though it has a number, which may
\* become another's; a failed NewZSocket leaves its descriptor open, and nobody's
\* ("lost"); and Windows takes all sockets away with the last WSAStartup.
HoldsItsOwn ==
  starts > 0 =>
    /\ {d \in Fds : owner[d] = "if"} = IF stale THEN {} ELSE Held
    /\ result = "foreign" => stale

\* Whatever fails, only the rest of the process closes its descriptors, unless
\* a Bind of sockIf has failed and its user closes it then, or the last
\* WSAStartup is taken back.
OthersUntouched ==
  [][\A d \in Fds : owner[d] = "other" /\ owner'[d] # "other"
       => \/ OtherCloses
          \/ kind \in {"sock", "winsock"} /\ stale /\ handle = d
          \/ starts' = 0]_ifVars

\* Open sets its options, and joins the group, on its own socket, whatever is
\* opened and closed between its system calls, unless netIf's copy was collected
\* while Open still used its number.
OptionsOnOwn ==
  [][SetsOption /\ fd # None => owner[fd] \in {"if", "dup"} \/ early]_ifVars

===============================================================================
