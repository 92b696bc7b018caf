------------------------------- MODULE MCRxRing -------------------------------
(* RxRing, inside RingClient, on small instances. *)
EXTENDS RingClient

===============================================================================
