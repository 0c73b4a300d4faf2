----------------------------- MODULE MC_Scanner -----------------------------
(* Instances of Scanner: both ways to follow the chain, restarts anywhere. *)
EXTENDS Scanner
=============================================================================
