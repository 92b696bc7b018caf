---------------------------- MODULE MCMoldRecovery ----------------------------
(* MoldRecovery, inside MoldProgram, on small instances. *)
EXTENDS MoldProgram

CONSTANT srv1

OneServer == <<srv1>>

===============================================================================
