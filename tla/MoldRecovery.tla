----------------------------- MODULE MoldRecovery -----------------------------
(***************************************************************************)
(* Recovery of lost messages: MoldOrder with a request server (external to *)
(* the repository) behind an unreliable network.  MoldProgram completes it *)
(* to the program that runs the client.                                    *)
(***************************************************************************)
EXTENDS MoldOrder

ASSUME RecoveryAssumption == Srvs # <<>>

VARIABLE reply    \* the request server's answer on its way to the client, or Nil

recoveryVars == <<orderVars, reply>>

RecoveryInit == OrderInit /\ reply = Nil

\* The request server sends messages from the first one asked for: as many as
\* were asked for, or fewer.  An answer overtaken by a newer one is lost.
Answer ==
  /\ Depart
  /\ \E k \in 1 .. MaxMessages - 1 :
       k <= sent.msgCnt /\ reply' = DataBuf(sent.session, sent.seqNo, k)

\* The request, or every packet of its answer, is lost.
LoseRequest == Depart /\ UNCHANGED reply

HandleReply == reply # Nil /\ DoMsgBuf(reply) /\ reply' = Nil

\* Multicast packets, duplicated, delayed and reordered.
HandleInput ==
  /\ session # NoSession
  /\ \E m \in Inputs(session) : DoMsgBuf(m)
  /\ UNCHANGED reply

Learn == (\E s \in Sessions : LearnSession(s)) /\ UNCHANGED reply

HandleEos == session # NoSession /\ DoMsgBuf(EosBuf) /\ UNCHANGED reply

Steps == (PTop \/ PEosStop \/ PEosLate \/ PSeqNo \/ PAppend) /\ UNCHANGED reply
Tick == PTick /\ UNCHANGED reply
AppSteps == Application /\ UNCHANGED reply
TimePasses == Elapse /\ UNCHANGED reply

===============================================================================
