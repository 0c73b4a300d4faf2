------------------------------ MODULE MC_Tunnel ------------------------------
(* Instances of Tunnel: one middle node, deadlines as close as a node allows. *)
EXTENDS Tunnel

\* Hop 2 may be opened at time 0 or 1, hop 1 expires SafePeriod + MinSafe later.
TwoHops == <<5, 3>>
=============================================================================
