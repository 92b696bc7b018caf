------------------------------ MODULE MoldProgram ------------------------------
(***************************************************************************)
(* The client program, main.go: MoldRecovery with main's loop, which ends  *)
(* the process when the client has stopped or nothing was received for     *)
(* too long, the goroutine that handles signals, and an outage of the      *)
(* network that lasts longer than the program waits (option -w).           *)
(***************************************************************************)
EXTENDS MoldRecovery

VARIABLES
  mpc,          \* main: "loop", or the process has "exited"
  fault         \* at most one of an "outage", longer than the program waits, and
                \* a "signal"; Nil before

programVars == <<mpc, fault>>
allVars == <<recoveryVars, programVars>>

ProgramInit == RecoveryInit /\ mpc = "loop" /\ fault = Nil

-------------------------------------------------------------------------------
(* main and its goroutines *)

\* The process ends, and its memory is gone.
Exit ==
  /\ mpc' = "exited" /\ UNCHANGED fault
  /\ Running' = FALSE /\ session' = NoSession /\ reqSrv' = <<>> /\ ppc' = "done"
  /\ eosSeq' = 0 /\ res' = <<>> /\ cache' = <<>> /\ seqNo' = First /\ seqMax' = 0
  /\ endSession' = FALSE /\ seqEnd' = 0 /\ recent' = FALSE /\ connReq' = Nil
  /\ robinN' = 0 /\ sent' = Nil /\ bDone' = FALSE /\ lastSeq' = 0 /\ lastN' = 0
  /\ ready' = Nil /\ apc' = "done" /\ ares' = Nil /\ aseq' = 0 /\ delivered' = <<>>
  /\ reply' = Nil

\* A tick of main's loop that finds the client stopped: main returns, which
\* ends the process.  (MoldClient has the deferred call of cc.Close.)
MReturn == mpc = "loop" /\ ~Running /\ Exit

\* A tick that finds c.LastRecv too old.
MTimeout ==
  /\ mpc = "loop" /\ Running /\ fault = "outage" /\ Running' = FALSE
  /\ UNCHANGED <<rxVars, ppc, eosSeq, ordVars, eosVars, reqVars, ready, appVars, reply,
                 programVars>>

Signal ==
  /\ mpc = "loop" /\ Running /\ fault = Nil
  /\ Running' = FALSE /\ fault' = "signal"
  /\ UNCHANGED <<rxVars, ppc, eosSeq, ordVars, eosVars, reqVars, ready, appVars, reply,
                 mpc>>

\* Five seconds after the signal, wherever main and the client are.
ExitFunc == mpc = "loop" /\ fault = "signal" /\ Exit

-------------------------------------------------------------------------------
(* The client and the network, as long as there is a process *)

Alive(A) == mpc = "loop" /\ A /\ UNCHANGED programVars

Up == fault # "outage"

PLearn == Alive(Up /\ Learn)
PInput == Alive(Up /\ HandleInput)
PReply == Alive(Up /\ HandleReply)
PEos == Alive(Up /\ HandleEos)      \* one of PInput, for its fairness
PSteps == Alive(Steps)
PTicks == Alive(Tick)
PAsks == Alive(Tick /\ sent' # Nil)
PApp == Alive(AppSteps)
PElapse == Alive(TimePasses)
PAnswer == Alive(Up /\ Answer)
PLose == Alive(LoseRequest)

GoesDown ==
  /\ mpc = "loop" /\ Running /\ fault = Nil /\ fault' = "outage"
  /\ UNCHANGED <<recoveryVars, mpc>>

ProgramNext == \/ MReturn \/ MTimeout \/ Signal \/ ExitFunc
               \/ PSteps \/ PTicks \/ PApp \/ PElapse \/ PAnswer \/ PLose
               \/ PLearn \/ PInput \/ PReply \/ GoesDown

\* Fairness.  Goroutines run, time passes and packets of the session come while
\* the network is up (WF); select takes a tick, the server's EOS packets, its
\* answers and the requests for them get through if tried again and again (SF).
\* main's ticker ticks, and an outage outlasts the timeout (WF).
ProgramFairness ==
  /\ WF_allVars(MReturn \/ MTimeout)
  /\ WF_allVars(PSteps) /\ WF_allVars(PApp) /\ WF_allVars(PElapse) /\ WF_allVars(PLearn)
  /\ SF_allVars(PTicks) /\ SF_allVars(PAsks) /\ SF_allVars(PEos)
  /\ SF_allVars(PAnswer) /\ SF_allVars(PReply)

ProgramSpec == ProgramInit /\ [][ProgramNext]_allVars /\ ProgramFairness

-------------------------------------------------------------------------------
(* Properties *)

\* Even if every multicast data packet is lost, the ticker's repeated requests
\* bring the whole session in: the last message is eventually ordered, unless
\* an outage or a signal comes first.  The answers come back over the multicast
\* socket: they are handed to doMsgBuf from c.ch, and nothing reads c.connReq.
RecoversAll == <>(seqNo = End \/ fault # Nil)

\* The process ends: at the end of the session, where between EOS packets, the
\* last block and Read whichever notices last stops the client; after a signal;
\* and when the network is down, at whatever point of the recovery.
ProcessEnds == <>(mpc = "exited")

\* Recovery keeps the order.  While there is a process, what it has received,
\* lost and asked for again reaches the application once and in order, and an
\* answer under way, to a request that may be older than what has arrived since,
\* is a packet of the client's session: newReq never asks beyond its end.
RecoversInOrder ==
  mpc = "loop" => /\ NothingLost
                  /\ reply # Nil => session # NoSession /\ reply \in Inputs(session)

===============================================================================
