------------------------------ MODULE Balances ------------------------------
(***************************************************************************)
(* The money of one channel: what the two contracts hold, what the sides   *)
(* owe each other in their signed state, and what each node believes of    *)
(* it.  Cooperative commits move what is owed, withdrawals and deposits    *)
(* change what is there, a cooperative close needs that nothing is owed.   *)
(*                                                                         *)
(* One coin; both contracts are active and both action states exist.  The  *)
(* contracts are external: a commit is executed by one contract, which     *)
(* tells the other, and only the difference of the two debts is sent.      *)
(***************************************************************************)
EXTENDS Integers, Sequences, FiniteSetsExt

CONSTANTS
    Start,        \* Start[s]: the balance of contract s at the beginning
    Owed,         \* Owed[s]: what side s owes at the beginning, not committed
    May,          \* May[n]: what node n asks for: pay, commit, fee, withdraw, deposit, close
    Payments,     \* amounts of conditionals
    Withdrawals,  \* amounts of withdrawals
    Fee,          \* FeePerWithdrawPropose
    LessThan, UpTo,  \* balance control: DepositWhenAmountLessThan, DepositUpToAmount
    MaxSeq,       \* bound: seqno of the state
    MaxWithdrawals, MaxDeposits  \* bounds

Sides == {1, 2}   \* 1 is the left side
Other(s) == 3 - s

ASSUME BalancesAssumption ==
    /\ Start \in [Sides -> Nat] /\ Owed \in [Sides -> Nat]
    /\ \A s \in Sides : Start[s] + Owed[Other(s)] >= Owed[s]
    /\ May \in [Sides -> SUBSET {"pay", "commit", "fee", "withdraw", "deposit", "close"}]
    /\ Payments \subseteq Nat \ {0} /\ Withdrawals \subseteq Nat \ {0}
    /\ {Fee, LessThan, UpTo, MaxSeq, MaxWithdrawals, MaxDeposits} \subseteq Nat /\ LessThan <= UpTo
    /\ MaxSeq >= 1

VARIABLES
    chain,    \* chain[s]: the contract of side s
    transit,  \* messages between the contracts
    ev,       \* ev[n][s]: events of contract s that node n has not processed
    db,       \* db[n]: the channel in the database of node n
    half,     \* what the party agreed and the proposer has not saved yet
    jobs,     \* jobs[n][s]: the queue "-chain-balance" of contract s at node n
    task      \* task[n]: the tasks of node n, and its lock on the channel

vars == <<chain, transit, ev, db, half, jobs, task>>

NoHalf == [by |-> 0, fee |-> FALSE]
Empty(x) == [s \in Sides |-> x]

Init ==
    /\ chain = [s \in Sides |-> [bal |-> Start[s], cseq |-> 0, wseq |-> 0, open |-> TRUE]]
    /\ transit = {}
    /\ ev = Empty(Empty(<<>>)) /\ jobs = Empty(Empty(<<>>))
    /\ db = Empty([seq |-> 1, owe |-> [s \in Sides |-> [amt |-> Owed[s], com |-> 0, cs |-> 0]], lock |-> Empty(0),
                   hold |-> Empty({}), pc |-> 0, bal |-> Start, lc |-> Empty(0), lw |-> Empty(0),
                   acc |-> TRUE, status |-> "active"])
    /\ half = NoHalf
    /\ task = Empty([withdraw |-> [st |-> "none", amt |-> 0, wseq |-> 0],
                     commit |-> [st |-> "none", fee |-> FALSE, seq |-> 0],
                     execute |-> [st |-> "none", seq |-> 0, at |-> 1, pay |-> Empty(0)],
                     external |-> [st |-> "none", amt |-> 0, wseq |-> 0],
                     close |-> [st |-> "none", seq |-> 0],
                     deposit |-> [st |-> "none", val |-> 0, count |-> 0]])

-----------------------------------------------------------------------------
(* CalcBalance.                                                            *)

Uncommitted(d, s) == d.owe[s].amt - d.owe[s].com
OnHold(d, s) == MapThenSumSet(LAMBDA h : h.amt, d.hold[s])
Owned(d, s) == d.bal[s] - Uncommitted(d, s) + Uncommitted(d, Other(s))

\* Fault: transfers on their way are not held back.
AvailableNoHold(d, s) == Owned(d, s) - d.lock[s]

Available(d, s) == Owned(d, s) - OnHold(d, s) - d.lock[s]

Clear(d) == d.hold[1] = {} /\ d.hold[2] = {}

\* prepareExecuteSendState: what was committed before leaves the amount.
Committed(o, seq, fee) == [amt |-> o.amt + fee - o.com, com |-> o.amt + fee - o.com, cs |-> seq]

\* checkCanRemove of both action states.
Settled(d) == \A s \in Sides :
    d.owe[s].amt - (IF d.lc[s] >= d.owe[s].cs THEN d.owe[s].com ELSE 0) <= 0

-----------------------------------------------------------------------------
(* The contracts.                                                          *)

\* A transaction of every contract of S: both nodes will see it.
Seen(S) == ev' = [n \in Sides |-> [s \in Sides |->
    IF s \notin S THEN ev[n][s]
    ELSE Append(ev[n][s], [cseq |-> chain'[s].cseq, wseq |-> chain'[s].wseq, open |-> chain'[s].open])]]

\* CooperativeCommit at contract s: it sends the difference, or asks for it.
CommitTx(s, seq, pay) ==
    LET net == pay[s] - pay[Other(s)]
        out == IF net > 0 THEN net ELSE 0
    IN  /\ chain[s].open /\ chain[s].cseq < seq
        /\ chain' = [chain EXCEPT ![s].bal = @ - out, ![s].cseq = seq]
        /\ transit' = transit \cup
              {[to |-> Other(s), seq |-> seq, amt |-> out, back |-> out - net, close |-> FALSE]}
        /\ Seen({s})

\* A message between the contracts arrives.
Deliver ==
    \E m \in transit :
        /\ chain' = [chain EXCEPT ![m.to].bal = @ + m.amt - m.back,
                                  ![m.to].cseq = IF m.seq > @ THEN m.seq ELSE @,
                                  ![m.to].open = @ /\ ~m.close]
        /\ transit' = (transit \ {m}) \cup
              (IF m.back > 0 THEN {[m EXCEPT !.to = Other(m.to), !.amt = m.back, !.back = 0]} ELSE {})
        /\ Seen({m.to})
    /\ UNCHANGED <<db, half, jobs, task>>

-----------------------------------------------------------------------------
(* Payments: a conditional locks, is executed or removed.  The exchange of *)
(* the states is the subject of StateExchange and is one step here.        *)

Locked(n) == task[n].withdraw.st = "asked" \/ task[n].close.st = "signed" \/ half.by = n
Active(n) == db[n].status = "active"

\* proposeAction of n and the first checks of ProcessAction of the party.
MayPropose(n) ==
    /\ half = NoHalf /\ ~Locked(n) /\ ~Locked(Other(n))
    /\ Active(n) /\ Active(Other(n)) /\ db[Other(n)].acc
    /\ db[n].seq < MaxSeq

Agree(f(_)) == db' = [n \in Sides |-> [f(db[n]) EXCEPT !.seq = @ + 1]]

OpenConditional(n, amt) ==
    LET f(d) == [d EXCEPT !.lock[n] = @ + amt]
    IN  /\ MayPropose(n) /\ db[n].lock[n] = 0 /\ "pay" \in May[n]
        /\ Available(f(db[n]), n) >= 0         \* CreateSendConditional
        /\ Available(f(db[Other(n)]), n) >= 0  \* CheckInstruction
        /\ Agree(f)
        /\ UNCHANGED <<chain, transit, ev, half, jobs, task>>

\* Resolved or given up, the conditional of the party is closed by n.
CloseConditional(n, paid) ==
    LET p == Other(n)
        f(d) == [d EXCEPT !.owe[p].amt = @ + (IF paid THEN d.lock[p] ELSE 0), !.lock[p] = 0]
    IN  /\ MayPropose(n) /\ db[n].lock[p] > 0
        /\ Agree(f)
        /\ UNCHANGED <<chain, transit, ev, half, jobs, task>>

-----------------------------------------------------------------------------
(* Cooperative commit.                                                     *)

\* requestCommitAction: the task is created once for a state.
CommitTasked(n, fee, t) ==
    IF t.commit.seq = db[n].seq \/ t.commit.st = "todo" THEN t
    ELSE [t EXCEPT !.commit = [st |-> "todo", fee |-> fee, seq |-> db[n].seq]]

\* When n sends the transaction itself, it must be able to pay for it; when
\* its contract is short of gas, the party does, for a fee.
CommitPossible(n, fee) == IF fee THEN "fee" \in May[n] ELSE Available(db[n], n) >= Fee

RequestCommitAction(n, fee) ==
    /\ Active(n) /\ CommitPossible(n, fee) /\ db[n].seq < MaxSeq /\ "commit" \in May[n]
    /\ task[n].commit.st # "todo" /\ task[n].commit.seq # db[n].seq
    /\ task' = [task EXCEPT ![n] = CommitTasked(n, fee, @)]
    /\ UNCHANGED <<chain, transit, ev, db, half, jobs>>

\* Who pays the fee, as the proposer and as the acceptor compute it.
ProposerSays(n) == IF n = 1 THEN n ELSE Other(n)
AcceptorSays(n) == n
FeeOf(n, fee, s) == IF fee /\ s = n THEN Fee ELSE 0

AfterCommit(d, n, fee) ==
    LET o == [s \in Sides |-> Committed(d.owe[s], d.seq + 1, FeeOf(n, fee, s))]
    IN  [d EXCEPT !.owe = o, !.pc = d.seq + 1, !.seq = @ + 1,
                  !.hold = [s \in Sides |-> {[kind |-> "commit", id |-> d.seq + 1, amt |-> o[s].com]}]]

CommitSkipped(n) ==
    /\ task[n].commit.st = "todo" /\ ~Active(n)
    /\ task' = [task EXCEPT ![n].commit.st = "done"]
    /\ UNCHANGED <<chain, transit, ev, db, half, jobs>>

\* The party agrees: it has saved the commit and will execute it.
CommitAgreed(n) ==
    LET m == Other(n)
        fee == task[n].commit.fee
        d == AfterCommit(db[m], n, fee)
    IN  /\ task[n].commit.st = "todo" /\ MayPropose(n)
        /\ \A k \in Sides : db[k].pc = 0 /\ Clear(db[k])
        /\ fee => /\ ProposerSays(n) = AcceptorSays(n)
                  /\ \A k \in Sides : Available(db[k], n) >= Fee
        /\ db' = [db EXCEPT ![m] = d]
        /\ half' = [by |-> n, fee |-> fee]
        /\ task' = [task EXCEPT ![m].execute =
                      [st |-> "todo", seq |-> d.seq, at |-> IF fee THEN m ELSE n,
                       pay |-> [s \in Sides |-> d.owe[s].com]]]
        /\ UNCHANGED <<chain, transit, ev, jobs>>

\* The answer arrives, at once or when the proposal is repeated.
CommitSaved ==
    LET n == half.by IN
    /\ half # NoHalf /\ Active(n)
    /\ db[Other(n)].acc  \* a repeated proposal is answered only then
    /\ Clear(db[n])      \* and not made while a transfer is on its way
    /\ db' = [db EXCEPT ![n] = AfterCommit(@, n, half.fee)]
    /\ half' = NoHalf
    /\ task' = [task EXCEPT ![n].commit.st = "done"]
    /\ UNCHANGED <<chain, transit, ev, jobs>>

\* commit-execute: repeated until the commit is seen in the record (a task that
\* sees its own transaction ends earlier, which changes nothing else).
CommitExecute(n) ==
    LET t == task[n].execute IN
    /\ t.st = "todo"
    /\ IF ~Active(n) \/ \E s \in Sides : db[n].lc[s] >= t.seq
       THEN /\ task' = [task EXCEPT ![n].execute.st = "done"]
            /\ UNCHANGED <<chain, transit, ev>>
       ELSE /\ CommitTx(t.at, t.seq, t.pay)
            /\ UNCHANGED task
    /\ UNCHANGED <<db, half, jobs>>

-----------------------------------------------------------------------------
(* processSideUpdate, and the queue of a contract's balance.               *)

Pending(d, s, kind, id) == \E h \in d.hold[s] : h.kind = kind /\ h.id = id

CommitDone(d, s, e) == d.lc[s] < e.cseq /\ Pending(d, s, "commit", e.cseq)

\* Fault: looks for the transfer under the seqno that follows it.
WalletDoneNext(d, s, e) == d.lw[s] < e.wseq /\ Pending(d, s, "wallet", e.wseq)

WalletDone(d, s, e) == d.lw[s] < e.wseq /\ Pending(d, s, "wallet", d.lw[s])

\* Fault: an event of a known kind only is followed by a job.
JobsNoRefresh(d, s, e) ==
    (IF CommitDone(d, s, e) THEN <<[kind |-> "commit", id |-> e.cseq]>> ELSE <<>>)
    \o (IF WalletDone(d, s, e) THEN <<[kind |-> "wallet", id |-> d.lw[s]]>> ELSE <<>>)

Jobs(d, s, e) ==
    (IF CommitDone(d, s, e) THEN <<[kind |-> "commit", id |-> e.cseq]>> ELSE <<>>)
    \o (IF WalletDone(d, s, e) THEN <<[kind |-> "wallet", id |-> d.lw[s]]>> ELSE <<>>)
    \o (IF CommitDone(d, s, e) \/ WalletDone(d, s, e) THEN <<>> ELSE <<[kind |-> "refresh", id |-> 0]>>)

Processed(d, n, s, e) ==
    [d EXCEPT !.pc = IF e.open /\ CommitDone(d, s, e) THEN 0 ELSE @,
              !.acc = @ /\ e.open,
              !.status = IF ~e.open /\ s = n THEN "inactive" ELSE @,
              !.lc[s] = e.cseq, !.lw[s] = e.wseq]

ProcessEvent(n, s) ==
    LET e == Head(ev[n][s]) IN
    /\ ev[n][s] # <<>>
    /\ ev' = [ev EXCEPT ![n][s] = Tail(@)]
    /\ jobs' = IF e.open THEN [jobs EXCEPT ![n][s] = @ \o Jobs(db[n], s, e)] ELSE jobs
    /\ db' = [db EXCEPT ![n] = Processed(@, n, s, e)]
    /\ UNCHANGED <<chain, transit, half, task>>

\* resolveTxChain: the messages that the transaction caused have arrived.
ChainResolved(s, j) ==
    j.kind = "commit" => ~\E m \in transit : m.seq = j.id /\ m.to = Other(s)

\* refresh-onchain-balance, wait-pending-tx-completion.
RunJob(n, s) ==
    LET j == Head(jobs[n][s])
        gone == {h \in db[n].hold[s] : h.kind = j.kind /\ h.id = j.id}
        skip == ~Active(n) \/ (j.kind # "refresh" /\ gone = {})
    IN  /\ jobs[n][s] # <<>>
        /\ skip \/ ChainResolved(s, j)
        /\ jobs' = [jobs EXCEPT ![n][s] = Tail(@)]
        /\ db' = IF skip THEN db
                 ELSE [db EXCEPT ![n].bal[s] = chain[s].bal, ![n].hold[s] = @ \ gone]
        /\ UNCHANGED <<chain, transit, ev, half, task>>

-----------------------------------------------------------------------------
(* Withdrawals: both sign, the party sends.                                *)

\* requestSignedMessage: one request for a seqno of the wallet.
RequestWithdraw(n, amt) ==
    LET t == task[n].withdraw IN
    /\ db[n].hold[n] = {} /\ "withdraw" \in May[n]
    /\ t.st = "none" \/ (t.st = "done" /\ t.wseq # db[n].lw[n])
    /\ chain[n].wseq < MaxWithdrawals
    /\ task' = [task EXCEPT ![n].withdraw = [st |-> "todo", amt |-> amt, wseq |-> db[n].lw[n]]]
    /\ UNCHANGED <<chain, transit, ev, db, half, jobs>>

\* validateOutMessages: not more than is available, and than is on chain.
Affordable(d, s, amt) == Available(d, s) >= amt
OnChain(d, s, amt) == d.bal[s] >= amt

\* request-tx-external is past its first checks.
WithdrawReady(n) ==
    LET t == task[n].withdraw IN
    /\ t.st = "todo" /\ Active(n) /\ chain[n].wseq <= t.wseq
    /\ db[n].pc = 0 /\ db[n].hold[Other(n)] = {}
    /\ Affordable(db[n], n, t.amt)

\* Executed already, or there is nothing the party could commit.
WithdrawSkipped(n) ==
    /\ \/ task[n].withdraw.st = "todo" /\ Active(n) /\ chain[n].wseq > task[n].withdraw.wseq
       \/ /\ WithdrawReady(n) /\ ~OnChain(db[n], n, task[n].withdraw.amt)
          /\ Uncommitted(db[n], Other(n)) <= 0
    /\ task' = [task EXCEPT ![n].withdraw.st = "done"]
    /\ UNCHANGED <<chain, transit, ev, db, half, jobs>>

\* The coins are still in the contract of the party: they are committed first.
WithdrawCommits(n) ==
    \E fee \in BOOLEAN :
        /\ WithdrawReady(n) /\ ~OnChain(db[n], n, task[n].withdraw.amt)
        /\ Uncommitted(db[n], Other(n)) > 0
        /\ CommitPossible(n, fee) /\ db[n].seq < MaxSeq
        /\ CommitTasked(n, fee, task[n]) # task[n]
        /\ task' = [task EXCEPT ![n] = CommitTasked(n, fee, @)]
        /\ UNCHANGED <<chain, transit, ev, db, half, jobs>>

\* The party signs and will send: ProcessActionRequest.
WithdrawSigned(n) ==
    LET t == task[n].withdraw
        p == Other(n)
        h == [kind |-> "wallet", id |-> t.wseq, amt |-> t.amt]
    IN  /\ WithdrawReady(n) /\ OnChain(db[n], n, t.amt) /\ ~Locked(n)
        /\ Active(p) /\ db[p].acc /\ db[p].lw[n] = t.wseq
        /\ \/ h \in db[p].hold[n] /\ UNCHANGED db /\ task' = [task EXCEPT ![n].withdraw.st = "asked"]
           \/ /\ db[p].hold[n] = {} /\ Affordable(db[p], n, t.amt) /\ OnChain(db[p], n, t.amt)
              /\ db' = [db EXCEPT ![p].hold[n] = {h}]
              /\ task' = [task EXCEPT ![n].withdraw.st = "asked",
                                      ![p].external = [st |-> "todo", amt |-> t.amt, wseq |-> t.wseq]]
        /\ UNCHANGED <<chain, transit, ev, half, jobs>>

\* The record has not changed meanwhile.
WithdrawSaved(n) ==
    LET t == task[n].withdraw IN
    /\ t.st = "asked" /\ db[n].lw[n] = t.wseq
    /\ db' = [db EXCEPT ![n].hold[n] = @ \cup {[kind |-> "wallet", id |-> t.wseq, amt |-> t.amt]}]
    /\ task' = [task EXCEPT ![n].withdraw.st = "done"]
    /\ UNCHANGED <<chain, transit, ev, half, jobs>>

\* The answer is lost, or the record has changed: the task is repeated.
WithdrawFailed(n) ==
    /\ task[n].withdraw.st = "asked"
    /\ task' = [task EXCEPT ![n].withdraw.st = "todo"]
    /\ UNCHANGED <<chain, transit, ev, db, half, jobs>>

\* exec-tx-external, for the contract of the party; repeated like CommitExecute.
ExecuteExternal(n) ==
    LET t == task[n].external
        p == Other(n)
    IN  /\ t.st = "todo"
        /\ IF ~Active(n) \/ ~Pending(db[n], p, "wallet", t.wseq)
           THEN /\ task' = [task EXCEPT ![n].external.st = "done"]
                /\ UNCHANGED <<chain, ev>>
           ELSE /\ chain[p].wseq = t.wseq /\ chain[p].open
                /\ chain' = [chain EXCEPT ![p].bal = @ - t.amt, ![p].wseq = @ + 1]
                /\ Seen({p})
                /\ UNCHANGED task
        /\ UNCHANGED <<transit, db, half, jobs>>

\* The channel is closed: the owner withdraws alone.
WithdrawByOwner(n) ==
    /\ task[n].withdraw.st = "todo" /\ ~Active(n)
    /\ task[n].withdraw.amt <= chain[n].bal
    /\ chain' = [chain EXCEPT ![n].bal = @ - task[n].withdraw.amt, ![n].wseq = @ + 1]
    /\ Seen({n})
    /\ task' = [task EXCEPT ![n].withdraw.st = "done"]
    /\ UNCHANGED <<transit, db, half, jobs>>

-----------------------------------------------------------------------------
(* Deposits: balanceControlCallback, topup, wait-deposit-completion.       *)

\* The lock is held from the request until the deposit is seen.
Topup(n) ==
    /\ Active(n) /\ task[n].deposit.st = "none" /\ task[n].deposit.count < MaxDeposits /\ "deposit" \in May[n]
    /\ Owned(db[n], n) < LessThan
    /\ task' = [task EXCEPT ![n].deposit =
                   [st |-> "todo", val |-> UpTo - Owned(db[n], n), count |-> @.count + 1]]
    /\ UNCHANGED <<chain, transit, ev, db, half, jobs>>

ExecuteTopup(n) ==
    /\ task[n].deposit.st = "todo"
    /\ IF Active(n)
       THEN /\ chain' = [chain EXCEPT ![n].bal = @ + task[n].deposit.val]
            /\ Seen({n})
            /\ task' = [task EXCEPT ![n].deposit.st = "sent", ![n].deposit.val = 0]
       ELSE /\ task' = [task EXCEPT ![n].deposit.st = "none"]
            /\ UNCHANGED <<chain, ev>>
    /\ UNCHANGED <<transit, db, half, jobs>>

\* wait-deposit-completion: the balance is fetched, and written whatever
\* happened in between.
DepositFetched(n) ==
    /\ task[n].deposit.st = "sent" /\ Active(n)
    /\ task' = [task EXCEPT ![n].deposit.st = "fetched", ![n].deposit.val = chain[n].bal]
    /\ UNCHANGED <<chain, transit, ev, db, half, jobs>>

DepositSaved(n) ==
    /\ task[n].deposit.st = "fetched"
    /\ db' = [db EXCEPT ![n].bal[n] = task[n].deposit.val]
    /\ task' = [task EXCEPT ![n].deposit.st = "none", ![n].deposit.val = 0]
    /\ UNCHANGED <<chain, transit, ev, half, jobs>>

-----------------------------------------------------------------------------
(* Cooperative close.                                                      *)

\* getCooperativeCloseRequest.
CloseAllowed(d) == Clear(d) /\ d.lock = Empty(0) /\ Settled(d)

RequestCooperativeClose(n) ==
    /\ Active(n) /\ CloseAllowed(db[n]) /\ task[n].close.st = "none" /\ "close" \in May[n]
    /\ db' = [db EXCEPT ![n].acc = FALSE]
    /\ task' = [task EXCEPT ![n].close.st = "todo"]
    /\ UNCHANGED <<chain, transit, ev, half, jobs>>

CloseSkipped(n) ==
    /\ task[n].close.st = "todo" /\ ~Active(n)
    /\ task' = [task EXCEPT ![n].close.st = "done"]
    /\ UNCHANGED <<chain, transit, ev, db, half, jobs>>

\* Fault: the party signs the close and goes on accepting actions.
PartyClosesOpen(d) == d

PartyCloses(d) == [d EXCEPT !.acc = FALSE]

\* cooperative-close: the party signs; its answer may be lost.
CloseSigned(n) ==
    LET p == Other(n) IN
    /\ task[n].close.st = "todo" /\ Active(n) /\ ~Locked(n) /\ CloseAllowed(db[n])
    /\ Active(p) /\ db[p].acc /\ CloseAllowed(db[p]) /\ db[n].seq = db[p].seq
    /\ db' = [db EXCEPT ![n].acc = FALSE, ![p] = PartyCloses(@)]
    /\ \E st \in {"signed", "todo"} : task' = [task EXCEPT ![n].close.st = st]
    /\ UNCHANGED <<chain, transit, ev, half, jobs>>

\* The contract closes and tells the other one.
CloseExecuted(n) ==
    /\ task[n].close.st = "signed"
    /\ IF chain[n].open
       THEN /\ chain' = [chain EXCEPT ![n].open = FALSE]
            /\ transit' = transit \cup
                  {[to |-> Other(n), seq |-> 0, amt |-> 0, back |-> 0, close |-> TRUE]}
            /\ Seen({n})
       ELSE UNCHANGED <<chain, transit, ev>>
    /\ task' = [task EXCEPT ![n].close.st = "done"]
    /\ UNCHANGED <<db, half, jobs>>

-----------------------------------------------------------------------------
NodeStep(n) ==
    \/ \E amt \in Payments : OpenConditional(n, amt)
    \/ \E paid \in BOOLEAN : CloseConditional(n, paid)
    \/ \E fee \in BOOLEAN : RequestCommitAction(n, fee)
    \/ CommitSkipped(n) \/ CommitAgreed(n) \/ CommitExecute(n)
    \/ \E s \in Sides : ProcessEvent(n, s) \/ RunJob(n, s)
    \/ \E amt \in Withdrawals : RequestWithdraw(n, amt)
    \/ WithdrawSkipped(n) \/ WithdrawCommits(n) \/ WithdrawSigned(n) \/ WithdrawSaved(n)
    \/ WithdrawFailed(n) \/ ExecuteExternal(n) \/ WithdrawByOwner(n)
    \/ Topup(n) \/ ExecuteTopup(n) \/ DepositFetched(n) \/ DepositSaved(n)
    \/ RequestCooperativeClose(n) \/ CloseSkipped(n) \/ CloseSigned(n) \/ CloseExecuted(n)

Next == Deliver \/ CommitSaved \/ \E n \in Sides : NodeStep(n)

\* Messages arrive, and tasks that were taken run to their end.
Fairness ==
    /\ WF_vars(Deliver) /\ WF_vars(CommitSaved)
    /\ \A n \in Sides :
          /\ WF_vars(CommitExecute(n)) /\ WF_vars(ExecuteExternal(n))
          /\ \A s \in Sides : WF_vars(ProcessEvent(n, s)) /\ WF_vars(RunJob(n, s))

Spec == Init /\ [][Next]_vars
FairSpec == Spec /\ Fairness

-----------------------------------------------------------------------------
(* Properties.                                                             *)

\* The types; and a node never believes that a contract is further than it is
\* (LatestCommitedSeqno and LatestWalletSeqno of processSideUpdate).
TypeOK ==
    /\ \A s \in Sides : chain[s] \in [bal : Int, cseq : Nat, wseq : Nat, open : BOOLEAN]
    /\ \A n \in Sides :
          /\ db[n].seq \in 1..MaxSeq /\ db[n].status \in {"active", "inactive"} /\ db[n].acc \in BOOLEAN
          /\ \A s \in Sides :
                /\ db[n].lock[s] \in Nat /\ db[n].owe[s].amt \in Int
                /\ db[n].lc[s] \in 0..chain[s].cseq /\ db[n].lw[s] \in 0..chain[s].wseq

\* The newest state that both sides have signed.
Newest == LET n == CHOOSE n \in Sides : db[n].seq >= db[Other(n)].seq IN db[n]

\* What s owes in it and no contract has paid: a commit is paid by the first
\* contract that executes it.
Unpaid(s) ==
    LET o == Newest.owe[s]
        paid == \E k \in Sides : chain[k].cseq >= o.cs
    IN  o.amt - (IF paid THEN o.com ELSE 0)

Coming(s) == MapThenSumSet(LAMBDA m : IF m.to = s THEN m.amt - m.back ELSE m.back, transit)

\* Withdrawals of s that both have signed and that can still be executed.
Signed(s) == IF task[Other(s)].external.st = "todo" /\ task[Other(s)].external.wseq = chain[s].wseq
             THEN task[Other(s)].external.amt ELSE 0

Worth(s) == chain[s].bal + Coming(s) + Unpaid(Other(s)) - Unpaid(s) - Newest.lock[s] - Signed(s)

\* No debt that is not covered: however commits, withdrawals, deposits and
\* payments interleave, and however late a node learns of them, the contract
\* of a side covers what it owes and what it has locked, once the party's debt
\* is counted in (CalcBalance, validateOutMessages, CheckInstruction).  Checked with
\* one withdrawal: a second one can meet two checks that are both out of date.
Solvent == \A s \in Sides : chain[s].bal >= 0 /\ (chain[1].open /\ chain[2].open => Worth(s) >= 0)

\* What a node knows of the party's contract, and of its own if it has not
\* topped it up, is true once all events and jobs are through: no transaction
\* changes a balance without the record being brought up to date.
Known ==
    \A n \in Sides, s \in Sides :
        /\ Active(n) /\ chain[s].open /\ ev[n][s] = <<>> /\ jobs[n][s] = <<>>
        /\ s = n => task[n].deposit.count = 0
        => db[n].bal[s] = chain[s].bal

\* A channel is closed cooperatively only when nothing is owed or locked and
\* no signed withdrawal is open (getCooperativeCloseRequest on both sides).
NoDebtAtClose ==
    \A s \in Sides : ~chain[s].open =>
        Unpaid(1) <= 0 /\ Unpaid(2) <= 0 /\ Newest.lock = Empty(0) /\ Signed(1) = 0 /\ Signed(2) = 0

\* A commit whose transaction n has processed before it saved the commit.
SavedLate(n) == \E s \in Sides : \E h \in db[n].hold[s] : h.kind = "commit" /\ h.id <= db[n].lc[s]

\* A commit or a transfer that is pending in a node's record is cleared, until
\* then the channel accepts no other commit and no withdrawal: the event of the
\* transaction finds it under its seqno, unless the answer to a proposed commit
\* was so late that the event came first.
Cleared ==
    \A n \in Sides : db[n].pc # 0 \/ ~Clear(db[n])
                        ~> (db[n].pc = 0 /\ Clear(db[n])) \/ ~Active(n) \/ SavedLate(n)
=============================================================================
