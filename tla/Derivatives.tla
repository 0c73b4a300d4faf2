---------------------------- MODULE Derivatives ----------------------------
(***************************************************************************)
(* One derivative position: a pair of linked conditionals in one channel,  *)
(* one paid by the side that opened it (O), the other by the side that     *)
(* accepted it (A).  Whoever loses on the price pays the winner.  Each     *)
(* node watches the price on its own, asks to close or cancel, liquidates  *)
(* itself, and both conditionals must open, settle and go together.        *)
(*                                                                         *)
(* The co-signing of a state is that of StateExchange, here in two steps:  *)
(* the party accepts and saves (Accept...), the proposer saves (Confirm);  *)
(* an answer may be lost in between, and the task then proposes the same   *)
(* again.  Balances are taken to be sufficient.                            *)
(***************************************************************************)
EXTENDS Integers, Sequences, FiniteSetsExt

CONSTANTS
    Long,          \* whether the order is a long one
    Entry,         \* its entry price
    Amount,        \* collateral of each side
    Leverage, Fee,
    Prices,        \* prices the provider may report
    Since,         \* nodes whose price provider fills the seconds they missed
    Keep,          \* seconds a resolver keeps (120 in the code)
    Window,        \* derivativeResolveAcceptanceWindowSec (10 in the code)
    May,           \* May[n]: what the user of n asks for: close, cancel
    Hedging,       \* whether A hedges the positions it accepts
    MaxTime,       \* bound: seconds
    MaxLost        \* bound: answers lost

Node == {"O", "A"}
Peer(n) == IF n = "O" THEN "A" ELSE "O"

ASSUME DerivativesAssumption ==
    /\ {Long, Hedging} \subseteq BOOLEAN
    /\ {Entry, Amount, Leverage, Keep} \subseteq Nat \ {0}
    /\ Prices \subseteq Nat \ {0} /\ Since \subseteq Node
    /\ {Fee, Window, MaxTime, MaxLost} \subseteq Nat /\ Window < Keep
    /\ May \in [Node -> SUBSET {"close", "cancel"}]

VARIABLES
    price,  \* price[t]: what the provider says of second t
    got,    \* got[n]: the seconds in the cache of n's resolver
    nd,     \* nd[n]: the channel, the two metas and the tasks in n's database
    half,   \* what the party accepted and the proposer has not saved yet
    hedge,  \* the hedge of A: was it opened, was it told to close
    chain,  \* whether the channel is being closed on chain
    lost    \* number of answers lost

vars == <<price, got, nd, half, hedge, chain, lost>>

NoRes == [amt |-> -1, at |-> 0]
NoMeta == [st |-> "none", res |-> NoRes]
NoHalf == [by |-> "O", type |-> "none", res |-> NoRes, lost |-> FALSE]
NoMon == [last |-> 0, min |-> 0, max |-> 0, crossed |-> FALSE, liq |-> 0, old |-> FALSE]

Init ==
    /\ price = <<>>
    /\ got = [n \in Node |-> {}]
    /\ nd = [n \in Node |-> [conds |-> {}, paid |-> [s \in Node |-> 0], out |-> NoMeta, in |-> NoMeta,
                             born |-> 0, mon |-> NoMon, hedged |-> FALSE, active |-> TRUE,
                             tasks |-> {}]]
    /\ half = NoHalf
    /\ hedge = [open |-> FALSE, close |-> FALSE]
    /\ chain = FALSE
    /\ lost = 0

now == Len(price)
Latest(n) == IF got[n] = {} THEN 0 ELSE Max(got[n])

-----------------------------------------------------------------------------
(* What a price means to the side that pays a conditional.                 *)

IsLong(s) == IF s = "O" THEN Long ELSE ~Long

Roi(s, p) ==
    ((IF IsLong(s) THEN p - Entry ELSE Entry - p) * Amount * Leverage) \div Entry

Loss(s, p) == Min({Max({-Roi(s, p), 0}), Amount})

Profit(s, p) == Min({Max({Roi(s, p), 0}), Amount})

\* Execute: the side that opened pays the fee on top, the other side keeps it back.
Pays(s, amt) == IF s = "O" THEN Min({amt, Amount}) + Fee ELSE Max({Min({amt, Amount}) - Fee, 0})

\* ValidateState, for the conditional that s pays, at node n.
Valid(n, s, r) ==
    /\ got[n] # {}
    /\ r.at <= Latest(n) + 2 /\ Latest(n) - r.at <= Window
    /\ r.at \in got[n]
    /\ r.amt - Loss(s, price[r.at]) \in -1 .. 1

-----------------------------------------------------------------------------
(* The price monitor of the incoming conditional.                          *)

Low(S) == IF S = {} THEN 0 ELSE Min(S)
High(S) == IF S = {} THEN 0 ELSE Max(S)

\* applyDerivativePriceSample: a long conditional of the party counts as entered from above.
Enters(n, p) == IF IsLong(Peer(n)) THEN p >= Entry ELSE p <= Entry

\* Fault: a second is looked at only once the next one is known.
MonitorOneBehind(n) ==
    LET m == nd[n].mon
        from == Max({m.last + 1, nd[n].born})
        seen == {t \in got[n] : from <= t /\ t < Latest(n)}
        lows == {price[t] : t \in seen} \cup ({m.min} \ {0})
        tops == {price[t] : t \in seen} \cup ({m.max} \ {0})
    IN  IF got[n] = {} \/ Latest(n) < from THEN m
        ELSE [m EXCEPT !.min = Low(lows), !.max = High(tops), !.last = Latest(n)]

\* The seconds since the last check, as far as the resolver has them: a second too old
\* ends the check, a second without a sample is passed over.
Monitor(n) ==
    LET m == nd[n].mon
        from == Max({m.last + 1, nd[n].born})
        seen == {t \in got[n] : from <= t}
        lows == {price[t] : t \in seen} \cup ({m.min} \ {0})
        tops == {price[t] : t \in seen} \cup ({m.max} \ {0})
        Entered(t) == m.crossed \/ \E u \in seen : u <= t /\ Enters(n, price[u])
        gone == {t \in seen : Entered(t) /\ Roi(Peer(n), price[t]) >= Amount}
    IN  IF got[n] = {} \/ Latest(n) < from THEN m
        ELSE IF Latest(n) - from >= Keep THEN [m EXCEPT !.old = TRUE, !.last = now]
        ELSE [m EXCEPT !.min = Low(lows), !.max = High(tops), !.last = Latest(n),
                       !.crossed = Entered(Latest(n)), !.liq = IF @ # 0 THEN @ ELSE Low(gone)]

Monitored(d) == d.in.st \in {"pending", "active"}
Refreshed(n) == IF Monitored(nd[n]) THEN [nd[n] EXCEPT !.mon = Monitor(n)] ELSE nd[n]

\* derivativeOrderOpenedFromMonitor: a long order opens at its price or lower.
Reached(p) == IF Long THEN p <= Entry ELSE p >= Entry

Opened(d) ==
    LET extreme == IF Long THEN d.mon.min ELSE d.mon.max
    IN  IF extreme # 0 THEN Reached(extreme) ELSE d.mon.old \/ d.mon.crossed

\* ensureDerivativeRemovable, after the refresh.
Removable(d) == ~Monitored(d) \/ ~Opened(d) \/ (d.mon.old /\ ~d.hedged)

-----------------------------------------------------------------------------
(* Closing, on one node.                                                   *)

\* ClosePairMeta
Pair(d, st) == [d EXCEPT !.out.st = st, !.in.st = st]

\* Fault: the position counts as closed before the party has agreed.
CloseDerivativeEarly(d, n) ==
    IF n \notin d.conds \/ ~d.active THEN d
    ELSE [Pair(d, "closed") EXCEPT !.in.res = [amt |-> 0, at |-> d.out.res.at], !.tasks = @ \cup {"close"}]

\* CloseDerivative: the incoming conditional is the one this node can execute.
CloseDerivative(d, n) ==
    IF n \notin d.conds \/ ~d.active THEN d
    ELSE [d EXCEPT !.out.st = "wantclose", !.in.st = "wantclose", !.tasks = @ \cup {"close"},
                   !.in.res = IF d.out.res.amt > 0 THEN [amt |-> 0, at |-> d.out.res.at]
                              ELSE IF @ # NoRes THEN @
                              ELSE [amt |-> Profit(n, price[Latest(n)]), at |-> Latest(n)]]

\* triggerIncomingDerivativeLiquidation: tried once, when the monitor becomes liquidated.
Liquidate(d, n) ==
    LET r == [amt |-> Amount, at |-> d.mon.liq]
    IN  IF d.in.st # "active" \/ d.out.st # "active" THEN d
        ELSE IF d.out.res # NoRes THEN CloseDerivative(d, n)
        ELSE IF n \in d.conds /\ Valid(n, n, r) THEN CloseDerivative([d EXCEPT !.out.res = r], n)
        ELSE d

\* Fault: the linked conditional stays in the state.
SettledAlone(d, s, r) ==
    [d EXCEPT !.conds = @ \ {s}, !.paid[s] = @ + IF r.amt > 0 THEN Pays(s, r.amt) ELSE 0]

\* Fault: the linked side is charged whoever lost.
SettledTwice(d, s, r) ==
    [d EXCEPT !.conds = {}, !.paid = [x \in Node |-> @[x] + Pays(x, r.amt)]]

\* ExecuteConditionalAction on the conditional of side s: the same on both nodes.
Settled(d, s, r) ==
    LET linked == IF r.amt = 0 /\ Peer(s) \in d.conds THEN Loss(Peer(s), price[r.at]) ELSE 0
    IN  [d EXCEPT !.conds = {},
                  !.paid[s] = @ + IF r.amt > 0 THEN Pays(s, r.amt) ELSE 0,
                  !.paid[Peer(s)] = @ + IF linked > 0 THEN Pays(Peer(s), linked) ELSE 0]

\* Fault: only a settled position is reported to the hedge.
HedgeCloseSettled(n) ==
    hedge' = [hedge EXCEPT !.close = @ \/ (n = "A" /\ Hedging /\ nd'[n].out.st = "closed")]

\* scheduleDerivativeHedgeClose: one task for an order, which is tried until it is done.
HedgeClose(n) == hedge' = [hedge EXCEPT !.close = @ \/ (n = "A" /\ Hedging)]

-----------------------------------------------------------------------------
(* The world: time, prices, the requests of the users.                     *)

\* Bound: A gets the proposal in the first second, if at all, and the clock stops when
\* both nodes are done with the position.
Running == nd["A"].out.st # "none" /\ (half # NoHalf \/ \E n \in Node : nd[n].conds # {})

Tick == /\ now < MaxTime /\ (now = 0 \/ Running)
        /\ \E p \in Prices : price' = Append(price, p)
        /\ UNCHANGED <<got, nd, half, hedge, chain, lost>>

\* fetchOnce
Fetch(n) == /\ now \notin got[n] /\ now > 0
            /\ got' = [got EXCEPT ![n] = @ \cup (IF n \in Since THEN 1 .. now ELSE {now})]
            /\ UNCHANGED <<price, nd, half, hedge, chain, lost>>

\* derivativePriceWorker
Watch(n) ==
    LET d == Refreshed(n)
        fresh == d.mon.liq # 0 /\ nd[n].mon.liq = 0
    IN  /\ Monitored(nd[n]) /\ d # nd[n]
        /\ nd' = [nd EXCEPT ![n] = IF fresh THEN Liquidate(d, n) ELSE d]
        /\ UNCHANGED <<price, got, half, hedge, chain, lost>>

\* closePositionByID; the node may fail between the resolve and the close.
AskClose(n) ==
    LET d == Refreshed(n)
        r == [amt |-> Loss(n, price[Latest(n)]), at |-> Latest(n)]
    IN  /\ "close" \in May[n] /\ nd[n].out.st = "active" /\ nd[n].active
        /\ Opened(d) /\ n \in d.conds /\ got[n] # {} /\ d.out.res = NoRes
        /\ \/ nd' = [nd EXCEPT ![n] = CloseDerivative([d EXCEPT !.out.res = r], n)]
           \/ nd' = [nd EXCEPT ![n] = [d EXCEPT !.out.res = r]]
        /\ UNCHANGED <<price, got, half, hedge, chain, lost>>

\* cancelPositionByID and RemoveConditional
AskCancel(n) ==
    LET d == Refreshed(n)
    IN  /\ "cancel" \in May[n] /\ nd[n].out.st = "active" /\ Monitored(nd[n])
        /\ "remove" \notin nd[n].tasks
        /\ ~Opened(d)
        /\ nd' = [nd EXCEPT ![n] = [d EXCEPT !.tasks = @ \cup {"remove"}]]
        /\ UNCHANGED <<price, got, half, hedge, chain, lost>>

\* SetDerivativeOrderHedged; the flag is not read once the pair is gone.
SetHedged ==
    /\ Hedging /\ nd["A"].conds # {}
    /\ nd' = [nd EXCEPT !["A"].hedged = ~@]
    /\ UNCHANGED <<price, got, half, hedge, chain, lost>>

-----------------------------------------------------------------------------
(* Opening: the task "create-derivative-cond" of O.                        *)

\* OpenPosition, CreateDerivativeCond: the order of this module is placed once, at its start.
OpenPosition ==
    /\ now = 0 /\ nd["O"].out.st = "none" /\ "create" \notin nd["O"].tasks
    /\ nd["O"].active
    /\ nd' = [nd EXCEPT !["O"].tasks = @ \cup {"create"}]
    /\ UNCHANGED <<price, got, half, hedge, chain, lost>>

Free == half = NoHalf
Half(n, type, r) == [by |-> n, type |-> type, res |-> r, lost |-> FALSE]
Drop(d, t) == [d EXCEPT !.tasks = @ \ {t}]

\* The two metas are created before anything is proposed.
Created(d) ==
    IF d.out.st # "none" THEN d
    ELSE [Pair(d, "pending") EXCEPT !.born = now, !.mon.last = now - 1]

CanCreate == "create" \in nd["O"].tasks /\ nd["O"].active /\ Free

\* The request does not arrive and the task is tried again, or the balance is too small.
CreateFails ==
    /\ CanCreate
    /\ nd' = [nd EXCEPT !["O"] = Created(@)] \/ nd' = [nd EXCEPT !["O"] = Drop(Created(@), "create")]
    /\ UNCHANGED <<price, got, half, hedge, chain, lost>>

\* A refuses (it does not accept, or its hedge does), and O sends a state without the pair.
\* A hedge that answers too late may have been opened.
CreateDenied ==
    /\ CanCreate
    /\ nd' = [nd EXCEPT !["O"] = [Drop(Created(@), "create") EXCEPT !.out.st = "wantremove"]]
    /\ hedge' = hedge \/ (Hedging /\ hedge' = [hedge EXCEPT !.open = TRUE])
    /\ UNCHANGED <<price, got, half, chain, lost>>

\* A opens its hedge, adds both conditionals and creates its two metas.
AcceptCreate ==
    /\ CanCreate /\ nd["A"].active
    /\ nd' = [nd EXCEPT !["O"] = Created(@),
                        !["A"] = [Pair(@, "active") EXCEPT !.conds = Node, !.born = now, !.mon.last = now - 1]]
    /\ hedge' = [hedge EXCEPT !.open = Hedging]
    /\ half' = Half("O", "add", NoRes)
    /\ UNCHANGED <<price, got, chain, lost>>

-----------------------------------------------------------------------------
(* Settling: the task "close-conditional".                                 *)

\* Fault: a position that is being closed counts as closed.
CloseDoneEarly(n) ==
    /\ "close" \in nd[n].tasks
    /\ nd' = [nd EXCEPT ![n] = Drop(@, "close")]
    /\ UNCHANGED <<price, got, half, hedge, chain, lost>>

\* Nothing is left to close: the pair is gone, or the channel is.
CloseDone(n) ==
    /\ "close" \in nd[n].tasks
    /\ \/ nd[n].in.st \in {"closed", "removed", "wantremove"}
       \/ ~nd[n].active
       \/ Peer(n) \notin nd[n].conds
    /\ nd' = [nd EXCEPT ![n] = Drop(@, "close")]
    /\ UNCHANGED <<price, got, half, hedge, chain, lost>>

CanClose(n) ==
    /\ "close" \in nd[n].tasks /\ nd[n].active
    /\ nd[n].in.st \notin {"closed", "removed", "wantremove"}
    /\ Peer(n) \in nd[n].conds
    /\ Valid(n, Peer(n), nd[n].in.res)

\* AddKnownResolve: only if no resolve of this conditional is known here.
TakesResolve(m, r) ==
    /\ nd[m].active /\ m \in nd[m].conds
    /\ nd[m].out.res = NoRes
    /\ Valid(m, m, r)

AcceptClose(n) ==
    LET m == Peer(n)
        r == nd[n].in.res
    IN  /\ CanClose(n) /\ Free
        /\ TakesResolve(m, r)
        /\ nd' = [nd EXCEPT ![m] = Pair(Settled(@, m, r), "closed")]
        /\ HedgeClose(m)
        /\ half' = Half(n, "exec", r)
        /\ UNCHANGED <<price, got, chain, lost>>

-----------------------------------------------------------------------------
(* Cancelling: the task "remove-cond".                                     *)

\* Nothing is left to remove; if the pair went some other way the party only confirms it.
RemoveDone(n) ==
    LET over == nd[n].in.st \in {"closed", "removed"} \/ ~nd[n].active
    IN  /\ "remove" \in nd[n].tasks
        /\ over \/ (Free /\ Peer(n) \notin nd[n].conds)
        /\ nd' = [nd EXCEPT ![n] = [Drop(@, "remove") EXCEPT !.in.st = IF over THEN nd[n].in.st ELSE "wantremove"]]
        /\ UNCHANGED <<price, got, half, hedge, chain, lost>>

CanRemove(n) ==
    /\ "remove" \in nd[n].tasks /\ nd[n].active
    /\ nd[n].in.st \notin {"closed", "removed"}
    /\ Peer(n) \in nd[n].conds
    /\ Removable(Refreshed(n))

\* Both nodes look at the price once more.
AcceptRemove(n) ==
    LET m == Peer(n)
    IN  /\ CanRemove(n) /\ Free
        /\ nd[m].active /\ m \in nd[m].conds
        /\ Removable(Refreshed(m))
        /\ nd' = [nd EXCEPT ![n] = Refreshed(n), ![m] = [Refreshed(m) EXCEPT !.conds = {}]]
        /\ HedgeClose(m)
        /\ half' = Half(n, "rem", NoRes)
        /\ UNCHANGED <<price, got, chain, lost>>

\* The party does not agree: the channel is to be closed on chain if the pair is still there later.
DenyRemove(n) ==
    LET m == Peer(n)
    IN  /\ CanRemove(n) /\ Free
        /\ nd[m].active /\ ~Removable(Refreshed(m))
        /\ nd' = [nd EXCEPT ![n] = [Refreshed(n) EXCEPT !.tasks = @ \cup {"uncoop"}], ![m] = Refreshed(m)]
        /\ UNCHANGED <<price, got, half, hedge, chain, lost>>

-----------------------------------------------------------------------------
(* The answer of the party.                                                *)

Lose ==
    /\ ~Free /\ ~half.lost /\ lost < MaxLost
    /\ half' = [half EXCEPT !.lost = TRUE] /\ lost' = lost + 1
    /\ UNCHANGED <<price, got, nd, hedge, chain>>

\* The task builds the same state again, if its checks still pass.
Resend(n) ==
    /\ half.by = n /\ half.lost
    /\ CASE half.type = "add"  -> nd[n].active
         [] half.type = "exec" -> CanClose(n)
         [] half.type = "rem"  -> CanRemove(n)
         [] OTHER -> FALSE
    /\ half' = [half EXCEPT !.lost = FALSE]
    /\ nd' = [nd EXCEPT ![n] = IF half.type = "rem" THEN Refreshed(n) ELSE @]
    /\ UNCHANGED <<price, got, hedge, chain, lost>>

Confirm(n) ==
    LET d == nd[n]
    IN  /\ half.by = n /\ ~Free /\ ~half.lost
        /\ \/ /\ half.type = "add"
              /\ nd' = [nd EXCEPT ![n] = [Drop(Pair(d, "active"), "create") EXCEPT !.conds = Node]]
              /\ UNCHANGED hedge
           \/ /\ half.type = "exec"
              /\ nd' = [nd EXCEPT ![n] = Pair(Drop(Settled(d, Peer(n), half.res), "close"), "closed")]
              /\ HedgeClose(n)
           \/ /\ half.type = "rem"
              /\ nd' = [nd EXCEPT ![n] = [Drop(d, "remove") EXCEPT !.conds = {}, !.in.st = "wantremove"]]
              /\ HedgeClose(n)
        /\ half' = NoHalf
        /\ UNCHANGED <<price, got, chain, lost>>

-----------------------------------------------------------------------------
(* The end of the channel.                                                 *)

\* Five minutes after: later than every second of the model, when both price workers,
\* which run every second, have seen them all.
Uncoop(n) ==
    /\ "uncoop" \in nd[n].tasks /\ now = MaxTime
    /\ \A m \in Node : now \in got[m] /\ nd[m] = Refreshed(m)
    /\ nd' = [nd EXCEPT ![n] = Drop(@, "uncoop")]
    /\ chain' = (chain \/ (nd[n].active /\ Peer(n) \in nd[n].conds))
    /\ UNCHANGED <<price, got, half, hedge, lost>>

\* finalizeInactiveChannelDerivatives
Final(d) ==
    LET st == IF d.out.res # NoRes \/ d.in.res # NoRes THEN "closed" ELSE "removed"
        e == [d EXCEPT !.active = FALSE]
    IN  IF d.conds = {} \/ d.out.st \in {"closed", "removed"} THEN e ELSE Pair(e, st)

Inactive(n) ==
    /\ chain /\ nd[n].active
    /\ ~(half.by = n /\ ~Free /\ ~half.lost)
    /\ nd' = [nd EXCEPT ![n] = Final(@)]
    /\ IF nd[n].conds # {} THEN HedgeClose(n) ELSE UNCHANGED hedge
    /\ UNCHANGED <<price, got, half, chain, lost>>

-----------------------------------------------------------------------------
NodeStep(n) ==
    \/ Fetch(n) \/ Watch(n) \/ AskClose(n) \/ AskCancel(n)
    \/ CloseDone(n) \/ AcceptClose(n) \/ RemoveDone(n) \/ AcceptRemove(n) \/ DenyRemove(n)
    \/ Resend(n) \/ Confirm(n) \/ Uncoop(n) \/ Inactive(n)

Next ==
    \/ Tick \/ SetHedged \/ Lose
    \/ OpenPosition \/ CreateFails \/ CreateDenied \/ AcceptCreate
    \/ \E n \in Node : NodeStep(n)

Spec == Init /\ [][Next]_vars

\* Tasks are tried until they are done; resolvers poll; users need not ask, channels need not end.
FairSpec ==
    /\ Spec
    /\ \A n \in Node : /\ WF_vars(Fetch(n)) /\ WF_vars(CloseDone(n)) /\ WF_vars(AcceptClose(n))
                       /\ WF_vars(Resend(n)) /\ WF_vars(Confirm(n)) /\ WF_vars(Inactive(n))

-----------------------------------------------------------------------------
(* Properties.                                                             *)

Status == {"none", "pending", "active", "wantclose", "wantremove", "closed", "removed"}
Res == [amt : 0 .. Amount, at : 1 .. MaxTime] \cup {NoRes}
Meta == [st : Status, res : Res]
Mon == [last : -1 .. MaxTime, min : {0} \cup Prices, max : {0} \cup Prices, crossed : BOOLEAN,
        liq : 0 .. MaxTime, old : BOOLEAN]

\* The shape of the state; no resolve of derivatives_resolve.go claims more than the
\* collateral, and no side pays more than its collateral and the fee.
TypeOK ==
    /\ now <= MaxTime /\ \A t \in 1 .. now : price[t] \in Prices
    /\ \A n \in Node :
         /\ got[n] \subseteq 1 .. now
         /\ nd[n].conds \subseteq Node /\ nd[n].paid \in [Node -> 0 .. Amount + Fee]
         /\ nd[n].out \in Meta /\ nd[n].in \in Meta
         /\ nd[n].born \in 0 .. MaxTime /\ nd[n].mon \in Mon
         /\ nd[n].hedged \in BOOLEAN /\ nd[n].active \in BOOLEAN
         /\ nd[n].tasks \subseteq {"create", "close", "remove", "uncoop"}
    /\ half.by \in Node /\ half.type \in {"none", "add", "exec", "rem"}
    /\ half.res \in Res /\ half.lost \in BOOLEAN
    /\ hedge \in [open : BOOLEAN, close : BOOLEAN]
    /\ chain \in BOOLEAN /\ lost \in 0 .. MaxLost

\* The two linked conditionals are in a signed state together or not at all
\* (buildLinkedDerivativeConditional, the linked deletes of process.go and state.go),
\* and unless an answer is on its way both nodes have the same pair and the same debts,
\* although each has computed the linked settlement from prices of its own.
PairWhole ==
    /\ \A n \in Node : nd[n].conds \in {{}, Node}
    /\ Free => /\ nd["O"].conds = nd["A"].conds
               /\ nd["O"].paid = nd["A"].paid

\* What side s lost at price p, to the next whole coin, by the price alone.
Owes(s, p) ==
    LET x == (IF IsLong(s) THEN Entry - p ELSE p - Entry) * Amount * Leverage
    IN  {c \in 0 .. Amount : /\ x > 0
                             /\ \/ x - c * Entry \in 1 - Entry .. Entry - 1
                                \/ c = Amount /\ c * Entry <= x}

\* Whatever the order of closes, liquidations and retries: a position is settled once, only
\* one side pays, and it pays what a price since the opening cost it, capped by the
\* collateral and corrected by the fee (computeLinkedDerivativeSettle, Execute).
PaidAsPriced ==
    \A n \in Node : nd[n].paid # [s \in Node |-> 0] =>
        \E s \in Node, t \in 1 .. now :
            /\ nd[n].paid[Peer(s)] = 0
            /\ t >= nd["O"].born
            /\ \E c \in Owes(s, price[t]) : nd[n].paid[s] = Pays(s, c)

\* While the pair is in the signed state of an active channel, no meta says that it is
\* over: the collateral is never locked by a position nobody looks after
\* (ClosePairMeta, CloseDerivative).
Tracked ==
    \A n \in Node : nd[n].active /\ nd[n].conds # {} =>
        {nd[n].out.st, nd[n].in.st} \subseteq {"active", "wantclose"}

\* A party lets a position be cancelled only if no price it has seen since it accepted
\* reached the entry, however late its monitor ran (ensureDerivativeRemovable); the
\* exceptions are a gap in its price history and a position it is closing itself.
CancelledUnopened ==
    [][\A m \in Node :
          half'.type = "rem" /\ Free /\ half'.by = Peer(m) /\ Monitored(nd[m]) /\ ~nd'[m].mon.old =>
              \A t \in got[m] : t >= nd[m].born => ~Reached(price[t])]_vars

\* The hedge of an accepted position is told to close exactly when the position is over,
\* by settlement, by cancellation or with the channel, and whichever side began it
\* (DERIVATIVES.md, lifecycle).
HedgeFollows ==
    Hedging /\ nd["A"].out.st # "none" =>
        hedge.open /\ (hedge.close <=> nd["A"].conds = {} \/ ~nd["A"].active)

Late(m, r) == Latest(m) - r.at > Window
Missed(m, r) == r.at \notin got[m] /\ Latest(m) > r.at
Crossing(n) == nd[Peer(n)].out.res # NoRes

\* A close that was asked for, or a liquidation, ends with the pair gone on both nodes.
\* What may prevent it: the party has a resolve of its own, the resolve became older than
\* the acceptance window, the party missed the price of that second, or an exchange whose
\* answer was lost is not repeated.
Settles ==
    \A n \in Node :
        ("close" \in nd[n].tasks /\ nd[n].conds # {}) ~>
            \/ nd[n].conds = {} /\ nd[Peer(n)].conds = {}
            \/ ~nd[n].active \/ ~nd[Peer(n)].active
            \/ Crossing(n) \/ half.lost
            \/ \E m \in Node : Late(m, nd[n].in.res) \/ Missed(m, nd[n].in.res)

=============================================================================
