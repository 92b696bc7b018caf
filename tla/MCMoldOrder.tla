------------------------------ MODULE MCMoldOrder ------------------------------
(* MoldOrder on small instances. *)
EXTENDS MoldOrder

CONSTANTS srv1, srv2

NoServer == <<>>

===============================================================================
