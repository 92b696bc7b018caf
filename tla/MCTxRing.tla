------------------------------- MODULE MCTxRing -------------------------------
(* TxRing on small instances. *)
EXTENDS TxRing

===============================================================================
