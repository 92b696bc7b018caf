----------------------------- MODULE MCMoldClient -----------------------------
(* MoldClient on small instances. *)
EXTENDS MoldClient, TLC

CONSTANTS srv1, srv2

NoServer == <<>>

\* The sessions with a name are interchangeable.
SessionSymmetry == Permutations(Sessions \ Nameless)

\* What a misled client does is not explored: the properties say nothing of it.
NotMisled == ~misled

===============================================================================
