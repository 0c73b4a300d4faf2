--------------------------- MODULE MC_Settlement ---------------------------
(* Instances of Settlement: several messages, an unknown resolve, a pending *)
(* state with a conditional more than the newest one.                       *)
EXTENDS Settlement
=============================================================================
