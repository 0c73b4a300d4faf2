--------------------------- MODULE MC_Derivatives ---------------------------
(* One position of each kind of request, on a few seconds of prices.       *)
EXTENDS Derivatives

MCMay == [n \in Node |-> IF n = "O" THEN {"close", "cancel"} ELSE {}]
=============================================================================
