--------------------------- MODULE AtomicChannel ---------------------------
(***************************************************************************)
(* What the co-signing protocol of a channel promises: to everyone outside *)
(* it, the two sides behave like one agreed state that changes by one      *)
(* action at a time.  A conditional is opened at most once; from then on   *)
(* it is locked until it is executed or removed, and never comes back.     *)
(***************************************************************************)
EXTENDS Integers

CONSTANTS Conds

VARIABLES
    chan,    \* the agreed state
    opened   \* the conditionals opened so far

Init ==
    /\ chan.seqno = 0 /\ chan.conds = {} /\ chan.prepaid = {} /\ chan.paid = {}
    /\ opened = {}

\* A step moves the sequence number by one and the three sets to new values.
Step(conds, prepaid, paid) ==
    /\ chan'.seqno = chan.seqno + 1
    /\ chan'.conds = conds /\ chan'.prepaid = prepaid /\ chan'.paid = paid

Open(c) ==
    /\ c \notin opened
    /\ opened' = opened \cup {c}
    /\ Step(chan.conds \cup {c}, chan.prepaid, chan.paid)

Prepay(c) ==
    /\ c \in chan.conds
    /\ Step(chan.conds, chan.prepaid \cup {c}, chan.paid)
    /\ UNCHANGED opened

Execute(c) ==
    /\ c \in chan.conds
    /\ Step(chan.conds \ {c}, chan.prepaid \ {c}, chan.paid \cup {c})
    /\ UNCHANGED opened

Remove(c) ==
    /\ c \in chan.conds
    /\ Step(chan.conds \ {c}, chan.prepaid, chan.paid)
    /\ UNCHANGED opened

\* An increment, a swap or a rent: no conditional is touched.
Other ==
    /\ Step(chan.conds, chan.prepaid, chan.paid)
    /\ UNCHANGED opened

Next ==
    \/ \E c \in Conds : Open(c) \/ Prepay(c) \/ Execute(c) \/ Remove(c)
    \/ Other

Spec == Init /\ [][Next]_<<chan, opened>>
=============================================================================
