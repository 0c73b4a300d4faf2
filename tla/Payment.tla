------------------------------ MODULE Payment ------------------------------
(***************************************************************************)
(* What a tunnel promises to the nodes it passes through.  A conditional   *)
(* payment is locked hop by hop from the sender to the receiver and paid   *)
(* hop by hop from the receiver to the sender.  A hop becomes void only    *)
(* when the hop after it is void or will never exist, so that no node in   *)
(* the middle ever pays without being paid.                                *)
(***************************************************************************)
EXTENDS Integers

CONSTANT N       \* the number of hops; hop h joins node h-1 and node h

VARIABLE hop     \* hop[h]: "none", "open", "paid" or "void"

Hops == 1..N

Init == hop = [h \in Hops |-> "none"]

Open(h) ==
    /\ hop[h] = "none"
    /\ h > 1 => hop[h - 1] = "open"
    /\ hop' = [hop EXCEPT ![h] = "open"]

Pay(h) ==
    /\ hop[h] = "open"
    /\ h < N => hop[h + 1] = "paid"
    /\ hop' = [hop EXCEPT ![h] = "paid"]

Void(h) ==
    /\ hop[h] = "open"
    /\ h < N => hop[h + 1] \in {"none", "void"}
    /\ hop' = [hop EXCEPT ![h] = "void"]

Next == \E h \in Hops : Open(h) \/ Pay(h) \/ Void(h)

Spec == Init /\ [][Next]_hop
=============================================================================
