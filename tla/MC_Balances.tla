---------------------------- MODULE MC_Balances ----------------------------
(* Two contracts with one coin each; the right side owes one. *)
EXTENDS Balances

MCStart == [s \in Sides |-> 1]
MCOwed == [s \in Sides |-> s - 1]
MCMay == [s \in Sides |-> IF s = 1 THEN {"withdraw", "fee", "deposit", "close"} ELSE {"pay", "commit", "close"}]
=============================================================================
