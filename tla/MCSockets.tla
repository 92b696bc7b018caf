------------------------------- MODULE MCSockets -------------------------------
(***************************************************************************)
(* RSocket and McastIf on small instances.  The arrays of batches, that of *)
(* setBPF and the descriptors of an interface have nothing in common: a    *)
(* behaviour is about one of them.                                         *)
(***************************************************************************)
EXTENDS RSocket, McastIf, TLC

VARIABLE subject

MCInit == /\ RSocketInit /\ IfInit
          /\ subject \in {"batch", "filter", "interface"}
          /\ subject # "interface" => kind = "net"

MCNext ==
  \/ /\ Alive
     /\ \E c \in Callers : \/ subject = "batch" /\ BatchStep(c)
                           \/ subject = "filter" /\ FilterStep(c)
                           \/ Return(c)
     /\ UNCHANGED <<ifVars, subject>>
  \/ subject = "interface" /\ IfNext /\ UNCHANGED <<rsVars, subject>>

MCSpec == MCInit /\ [][MCNext]_<<rsVars, ifVars, subject>>

CallerSymmetry == Permutations(Callers)

===============================================================================
