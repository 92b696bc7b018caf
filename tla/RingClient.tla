------------------------------ MODULE RingClient ------------------------------
(***************************************************************************)
(* The client on a receive ring: doMsgLoop runs inside Listen, whose       *)
(* callback checks a packet (gotBuff) and sends it on the channel c.ch,    *)
(* from which requestLoop takes it until it ends.  While the channel is    *)
(* full the callback waits, and with it Listen and the ring.               *)
(***************************************************************************)
EXTENDS RxRing

CONSTANTS
  Sound,        \* the packets gotBuff accepts
  ChanSize      \* capacity of c.ch

ASSUME RingClientAssumption == Sound \subseteq Wanted /\ ChanSize \in Nat \ {0}

VARIABLES
  ch,           \* c.ch
  looping,      \* whether requestLoop runs
  taken         \* history: what requestLoop has taken

clientVars == <<ch, looping, taken>>
ringClientVars == <<rxRingVars, clientVars>>

RingClientInit == RxInit /\ ch = <<>> /\ looping = TRUE /\ taken = <<>>

\* Mutant: a packet is thrown away when the channel is full.
GotBuffDrops(p) ==
  /\ ch' = IF p \in Sound /\ Len(ch) < ChanSize THEN Append(ch, p) ELSE ch
  /\ UNCHANGED <<looping, taken>>

\* gotBuff on packet p: c.ch <- msgBB waits for room.
GotBuff(p) ==
  /\ p \in Sound => Len(ch) < ChanSize
  /\ ch' = IF p \in Sound THEN Append(ch, p) ELSE ch
  /\ UNCHANGED <<looping, taken>>

\* The callback doMsgLoop gives to Listen, behind zsockIf's own.  What it learns
\* of the sender's session and address is MoldClient's (LearnSession, RxLearn).
RingCallback ==
  /\ Callback
  /\ LET p == pkts[bd][i + 1]
     IN IF p \in Wanted THEN GotBuff(p) ELSE UNCHANGED clientVars

\* requestLoop: msgBB := <-c.ch
RequestLoopTakes ==
  /\ looping /\ ch # <<>>
  /\ taken' = Append(taken, Head(ch)) /\ ch' = Tail(ch)
  /\ UNCHANGED <<rxRingVars, looping>>

\* c.Running is false: requestLoop ends.  doMsgLoop does not look at it.
RequestLoopEnds ==
  /\ looping /\ looping' = FALSE
  /\ UNCHANGED <<rxRingVars, ch, taken>>

Kernel == (Put \/ Drop) /\ UNCHANGED clientVars
Retires == Retire /\ UNCHANGED clientVars
DoMsgLoop == Listen /\ UNCHANGED clientVars
Listening == \/ RingCallback
             \/ (Enter \/ Leave \/ Poll \/ PollReturn) /\ UNCHANGED clientVars
Interrupted == PollError /\ UNCHANGED clientVars

RingClientNext == \/ Kernel \/ Retires \/ DoMsgLoop \/ Listening \/ Interrupted
                  \/ RequestLoopTakes \/ RequestLoopEnds

\* Goroutines go on, and the kernel hands over a slot in time.
RingClientSpec ==
  /\ RingClientInit /\ [][RingClientNext]_ringClientVars
  /\ WF_ringClientVars(DoMsgLoop) /\ WF_ringClientVars(Listening)
  /\ WF_ringClientVars(Retires) /\ WF_ringClientVars(RequestLoopTakes)

-------------------------------------------------------------------------------
(* Properties *)

\* From the wire to requestLoop no packet is lost, doubled or overtaken: what
\* has been taken and what waits in the channel are, in the order of arrival,
\* the packets the kernel had room for and Listen has seen.  A slow requestLoop
\* holds Listen up and never makes it lose a packet.
InOrderToLoop ==
  LET seen == taken \o ch
  IN /\ \A k \in 1 .. Len(seen) - 1 : seen[k] < seen[k + 1]
     /\ {seen[k] : k \in 1 .. Len(seen)}
          = (1 .. arrived \cap Sound) \ (dropped \cup UNION {Unseen(b) : b \in Index})

\* A packet the kernel had room for eventually reaches requestLoop, unless a
\* Poll has failed or requestLoop has ended.
RingDelivers ==
  \A p \in Sound \cap 1 .. MaxPackets :
    (p <= arrived /\ p \notin dropped)
      ~> (pc = "returned" \/ ~looping \/ \E k \in 1 .. Len(taken) : taken[k] = p)

===============================================================================
