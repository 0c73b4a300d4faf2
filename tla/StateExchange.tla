--------------------------- MODULE StateExchange ---------------------------
(***************************************************************************)
(* The co-signing protocol of one payment channel.                         *)
(*                                                                         *)
(* Two nodes keep, each in its own database, the last state of the channel *)
(* that both have signed.  A worker task of a node changes that state: it  *)
(* takes the channel's lock, builds the next state (proposeAction and      *)
(* updateOurStateWithAction), remembers it as pending, sends it to the     *)
(* party (ProposeAction) and saves it when the party's ProcessAction has   *)
(* signed it too.  Queries are lost or answered too late, nodes crash and  *)
(* restart, and every task that did not finish is run again.               *)
(*                                                                         *)
(* A conditional (a virtual channel) is an opaque name: what the protocol  *)
(* needs of it is which side pays it, whether it is in the state, was      *)
(* executed, or its deadline is near or past.                              *)
(***************************************************************************)
EXTENDS Integers, FiniteSets

CONSTANTS
    Conds,      \* the conditionals that may be opened in this channel
    Payer,      \* Payer[c] is the side whose coins c locks
    Forwarded,  \* conditionals their receiver forwarded over another channel
    Tasks,      \* worker tasks that may be created: [by, type, cond]
    Fees,       \* fees a capacity rent may cost, by the second it is built in
    CrossingLate, \* whether late requests of both sides may be on their way at once
    MaxSeqno,   \* bound: the highest sequence number proposed
    MaxCrash,   \* bound: restarts of the two nodes
    Free        \* an unlocked mutex

Node == {"L", "R"}       \* the left side is the lock master
Peer(n) == IF n = "L" THEN "R" ELSE "L"

NoCond == "none"
TaskType == {"inc", "add", "commit", "exec", "rem", "swap", "rent"}
Act == [by : Node, type : TaskType, cond : Conds \cup {NoCond}, fee : Nat]
Body == [seqno : Nat, conds : SUBSET Conds, prepaid : SUBSET Conds,
         paid : SUBSET Conds, swaps : Nat, fees : [Node -> Nat]]

ASSUME ConstantsAssumption ==
    /\ Payer \in [Conds -> Node]
    /\ NoCond \notin Conds
    /\ Forwarded \subseteq Conds
    /\ Tasks \subseteq [by : Node, type : TaskType, cond : Conds \cup {NoCond}]
    /\ \A t \in Tasks :
         /\ t.type \in {"add", "commit"} => t.cond \in Conds /\ t.by = Payer[t.cond]
         /\ t.type \in {"exec", "rem"} => t.cond \in Conds /\ t.by = Peer(Payer[t.cond])
    /\ Fees \subseteq Nat
    /\ CrossingLate \in BOOLEAN
    /\ MaxSeqno \in Nat /\ MaxCrash \in Nat
    /\ Free \notin Tasks

VARIABLES
    st,      \* st[n]: the last state signed by both sides, in n's database
    pend,    \* pend[n]: the pending states in n's database
    seen,    \* conditionals whose receiver has ever accepted them (their metas)
    status,  \* status[t]: the task's record in its node's database
    ph,      \* ph[t]: how far the running worker is with the task
    prop,    \* prop[t]: what the running worker proposes
    q,       \* q[t]: the outstanding ProposeAction query
    late,    \* requests still on their way although their caller gave up
    mx,      \* mx[n]: the task for which n's channel mutex is held, or Free
    age,     \* age[c]: how close the deadline of c is
    crashes  \* number of restarts so far

vars == <<st, pend, seen, status, ph, prop, q, late, mx, age, crashes>>

Genesis == [seqno |-> 0, conds |-> {}, prepaid |-> {}, paid |-> {},
            swaps |-> 0, fees |-> [n \in Node |-> 0]]
Prop == [act : Act, body : Body, base : Nat]
Late == [task : Tasks, act : Act, body : Body]
NoAct(n) == [by |-> n, type |-> "inc", cond |-> NoCond, fee |-> 0]

Init ==
    /\ st = [n \in Node |-> Genesis]
    /\ pend = [n \in Node |-> {}]
    /\ seen = {}
    /\ status = [t \in Tasks |-> "none"]
    /\ ph = [t \in Tasks |-> "idle"]
    /\ prop = [t \in Tasks |-> [act |-> NoAct(t.by), body |-> Genesis, base |-> 0]]
    /\ q = [t \in Tasks |-> "none"]
    /\ late = {}
    /\ mx = [n \in Node |-> Free]
    /\ age = [c \in Conds |-> "safe"]
    /\ crashes = 0

-----------------------------------------------------------------------------
(* What an action does to a state.                                         *)

Opened(b, c) == [b EXCEPT !.conds = @ \cup {c}]
Prepaid(b, c) == [b EXCEPT !.prepaid = @ \cup {c}]
Removed(b, c) == [b EXCEPT !.conds = @ \ {c}]

\* Fault: the execution leaves the prepayment of the conditional in the state.
ExecutedKeepsPrepaid(b, c) ==
    [b EXCEPT !.conds = @ \ {c}, !.paid = @ \cup ({c} \cap b.conds)]

Executed(b, c) ==
    [b EXCEPT !.conds = @ \ {c}, !.prepaid = @ \ {c}, !.paid = @ \cup ({c} \cap b.conds)]

Rented(b, n, fee) == [b EXCEPT !.fees[n] = @ + fee]
Swapped(b) == [b EXCEPT !.swaps = @ + 1]

Effect(a, b) ==
    CASE a.type = "add"    -> Opened(b, a.cond)
      [] a.type = "commit" -> Prepaid(b, a.cond)
      [] a.type = "rem"    -> Removed(b, a.cond)
      [] a.type = "exec"   -> Executed(b, a.cond)
      [] a.type = "rent"   -> Rented(b, a.by, a.fee)
      [] a.type = "swap"   -> Swapped(b)
      [] OTHER             -> b

\* Fault: the sequence number moves the wrong way.
NextStateDown(a, b) == [Effect(a, b) EXCEPT !.seqno = b.seqno - 1]

\* The state after action a: both sides compute it, each on its own copy.
NextState(a, b) == [Effect(a, b) EXCEPT !.seqno = b.seqno + 1]

\* The proposer finds the action's effect already in its state.
Idempotent(a, b) ==
    \/ a.type = "add" /\ a.cond \in b.conds
    \/ a.type = "commit" /\ a.cond \in b.prepaid
    \/ a.type \in {"exec", "rem"} /\ a.cond \notin b.conds

\* updateOurStateWithAction: the state the proposer signs and sends.
OurState(a, b) == IF Idempotent(a, b) THEN b ELSE NextState(a, b)

\* updateOurStateWithAction fails for sure (ErrNotPossible).
NotPossible(a, b) ==
    \/ a.type = "add" /\ age[a.cond] # "safe"
    \/ a.type = "exec" /\ a.cond \in b.conds /\ age[a.cond] = "expired"
    \/ a.type = "commit" /\ a.cond \notin b.conds

\* Fault: the receiving side does not ask whether the key was used before.
AcceptsAddReused(c, b) == age[c] = "safe"

\* ProcessAction: the checks the receiving side makes of a new action.
AcceptsAdd(c, b) == age[c] = "safe" /\ (c \in b.conds \/ c \notin seen)
AcceptsExecute(c, b) == c \in b.conds => age[c] # "expired"
AcceptsCommit(c, b) == c \in b.conds

Accepts(a, b) ==
    /\ a.type = "add" => AcceptsAdd(a.cond, b)
    /\ a.type = "exec" => AcceptsExecute(a.cond, b)
    /\ a.type = "commit" => AcceptsCommit(a.cond, b)

\* Actions the receiving side may refuse for reasons outside this model:
\* balances, routes and fees of a conditional, the swap hook, rent limits.
Refusable(a) == a.type \in {"add", "swap", "rent"}

-----------------------------------------------------------------------------
(* Locks.  The mutex of the other side is held for task t of node R while  *)
(* L, the lock master, has granted R's external lock.                      *)

LocksOther(t) == t.type = "rem" /\ t.cond \in Forwarded
Unlocked(t) == [mx EXCEPT ![t.by] = IF @ = t THEN Free ELSE @]

\* The worker's run of t ends with an error: the task will be retried.
Retry(t) ==
    /\ ph' = [ph EXCEPT ![t] = "idle"]
    /\ q' = [q EXCEPT ![t] = "none"]
    /\ mx' = Unlocked(t)
    /\ UNCHANGED status

\* The worker's run of t ends without error: the task is complete.
End(t, result) ==
    /\ ph' = [ph EXCEPT ![t] = "idle"]
    /\ q' = [q EXCEPT ![t] = "none"]
    /\ mx' = Unlocked(t)
    /\ status' = [status EXCEPT ![t] = result]

\* An API call, an accepted action or a timer stores a task, once for its ID.
CreateTask(t) ==
    /\ status[t] = "none"
    /\ t.type \in {"exec", "rem"} => t.cond \in st[t.by].conds
    /\ t.type = "commit" => t.cond \in st[t.by].conds
    /\ status' = [status EXCEPT ![t] = "todo"]
    /\ UNCHANGED <<st, pend, seen, ph, prop, q, late, mx, age, crashes>>

\* What the worker finds done before it proposes anything: the conditional to
\* close or to prepay is gone, the one to remove was executed, the capacity is rented.
NothingToClose(t) == t.type = "exec" /\ t.cond \notin st[t.by].conds
NothingToCommit(t) == t.type = "commit" /\ t.cond \notin st[t.by].conds
NothingToRemove(t) == t.type = "rem" /\ t.cond \in st[t.by].paid
NothingToRent(t) == t.type = "rent" /\ st[t.by].fees[t.by] > 0
NothingToDo(t) ==
    NothingToClose(t) \/ NothingToCommit(t) \/ NothingToRemove(t) \/ NothingToRent(t)

\* AcquireTask, the worker's checks, and AcquireChannel up to the local mutex.
Start(t) ==
    /\ status[t] = "todo" /\ ph[t] = "idle"
    /\ ~NothingToDo(t)
    /\ IF LocksOther(t)
       THEN ph' = [ph EXCEPT ![t] = "prop"] /\ UNCHANGED mx
       ELSE /\ mx[t.by] = Free
            /\ mx' = [mx EXCEPT ![t.by] = t]
            /\ ph' = [ph EXCEPT ![t] = IF t.by = "L" THEN "prop" ELSE "lock"]
    /\ UNCHANGED <<st, pend, seen, status, prop, q, late, age, crashes>>

Skip(t) ==
    /\ status[t] = "todo" /\ ph[t] = "idle"
    /\ NothingToDo(t)
    /\ status' = [status EXCEPT ![t] = "done"]
    /\ UNCHANGED <<st, pend, seen, ph, prop, q, late, mx, age, crashes>>

\* RequestChannelLock is granted by the master.
LockGranted(t) ==
    /\ ph[t] = "lock" /\ mx["L"] = Free
    /\ mx' = [mx EXCEPT !["L"] = t]
    /\ ph' = [ph EXCEPT ![t] = "prop"]
    /\ UNCHANGED <<st, pend, seen, status, prop, q, late, age, crashes>>

\* RequestChannelLock is granted, but the answer does not come in time.
LockAnswerLost(t) ==
    /\ ph[t] = "lock" /\ mx["L"] = Free
    /\ mx' = [mx EXCEPT !["L"] = t, !["R"] = Free]
    /\ ph' = [ph EXCEPT ![t] = "idle"]
    /\ UNCHANGED <<st, pend, seen, status, prop, q, late, age, crashes>>

\* RequestChannelLock is refused or never reaches the master.
LockRefused(t) ==
    /\ ph[t] = "lock"
    /\ Retry(t)
    /\ UNCHANGED <<st, pend, seen, prop, late, age, crashes>>

\* The master's mutex is given back: by R's unlock request, or by the watchdog,
\* which takes R's answer for "unlocked" whatever R does with its own lock.
ExternalUnlock ==
    /\ mx["L"] # Free /\ mx["L"].by = "R"
    /\ mx' = [mx EXCEPT !["L"] = Free]
    /\ UNCHANGED <<st, pend, seen, status, ph, prop, q, late, age, crashes>>

-----------------------------------------------------------------------------
(* proposeAction, on the proposing side.                                   *)

\* Fault: the state is sent without being stored as pending.
SendUnsaved(t, a) ==
    LET b == OurState(a, st[t.by]) IN
    /\ b.seqno <= MaxSeqno
    /\ prop' = [prop EXCEPT ![t] = [act |-> a, body |-> b, base |-> st[t.by].seqno]]
    /\ q' = [q EXCEPT ![t] = "sent"]
    /\ ph' = [ph EXCEPT ![t] = "wait"]
    /\ UNCHANGED pend

\* Read the channel, build and sign the next state, store it as pending, send.
Send(t, a) ==
    LET b == OurState(a, st[t.by]) IN
    /\ b.seqno <= MaxSeqno
    /\ prop' = [prop EXCEPT ![t] = [act |-> a, body |-> b, base |-> st[t.by].seqno]]
    /\ pend' = [pend EXCEPT ![t.by] = @ \cup {b}]
    /\ q' = [q EXCEPT ![t] = "sent"]
    /\ ph' = [ph EXCEPT ![t] = "wait"]

TaskAct(t, fee) == [by |-> t.by, type |-> t.type, cond |-> t.cond, fee |-> fee]

Propose(t) ==
    /\ ph[t] = "prop"
    /\ \E fee \in (IF t.type = "rent" THEN Fees ELSE {0}) :
         /\ ~NotPossible(TaskAct(t, fee), st[t.by])
         /\ Send(t, TaskAct(t, fee))
    /\ UNCHANGED <<st, seen, status, late, mx, age, crashes>>

\* ErrNotPossible: opening a conditional and swapping are then given up, the
\* other tasks are retried.  A swap also fails on balances not modelled here.
Impossible(t) ==
    /\ ph[t] = "prop"
    /\ NotPossible(TaskAct(t, 0), st[t.by]) \/ t.type = "swap"
    /\ IF t.type \in {"add", "swap"} THEN End(t, "dropped") ELSE Retry(t)
    /\ UNCHANGED <<st, pend, seen, prop, late, age, crashes>>

\* After ErrDenied of an opening or a swap: a newer state without it.
ProposeRevert(t) ==
    /\ ph[t] = "revert"
    /\ Send(t, NoAct(t.by))
    /\ UNCHANGED <<st, seen, status, late, mx, age, crashes>>

\* CleanupChannelPendingStates
Cleanup(n, b) == {x \in pend[n] : x # b /\ x.seqno >= b.seqno}

\* Agreed: the answer is verified and saved if the channel record is unchanged.
Save(t) ==
    /\ q[t] = "agreed"
    /\ IF st[t.by].seqno = prop[t].base
       THEN /\ st' = [st EXCEPT ![t.by] = prop[t].body]
            /\ pend' = [pend EXCEPT ![t.by] = Cleanup(t.by, prop[t].body)]
            /\ ph' = [ph EXCEPT ![t] = "saved"]
            /\ q' = [q EXCEPT ![t] = "none"]
            /\ UNCHANGED <<mx, status>>
       ELSE Retry(t) /\ UNCHANGED <<st, pend>>
    /\ UNCHANGED <<seen, prop, late, age, crashes>>

Reverting(t) == t.type \in {"add", "swap"} /\ prop[t].act.type = "inc"

\* CompleteTask, after the worker has released its lock.
Finish(t) ==
    /\ ph[t] = "saved"
    /\ End(t, IF Reverting(t) THEN "denied" ELSE "done")
    /\ UNCHANGED <<st, pend, seen, prop, late, age, crashes>>

\* Fault: a denied opening is given up without a newer state.
DeniedNoRevert(t) ==
    /\ q[t] = "denied"
    /\ IF t.type \in {"add", "swap"} THEN End(t, "denied") ELSE Retry(t)
    /\ UNCHANGED <<st, pend, seen, prop, late, age, crashes>>

Denied(t) ==
    /\ q[t] = "denied"
    /\ IF t.type \in {"add", "swap"} /\ ~Reverting(t)
       THEN /\ ph' = [ph EXCEPT ![t] = "revert"]
            /\ q' = [q EXCEPT ![t] = "none"]
            /\ UNCHANGED <<mx, status>>
       ELSE Retry(t)
    /\ UNCHANGED <<st, pend, seen, prop, late, age, crashes>>

Busy(t) ==
    /\ q[t] = "busy"
    /\ Retry(t)
    /\ UNCHANGED <<st, pend, seen, prop, late, age, crashes>>

\* The query fails: no answer in time.  Its request may still be on its way, but
\* for less than the timeout of the side's next query.  That the other side's late
\* request is gone by then as well is an assumption about the network.
Outlived(t) == IF CrossingLate THEN {m \in late : m.task.by # t.by} ELSE {}
Timeout(t) ==
    /\ q[t] # "none"
    /\ late' \in {Outlived(t), IF q[t] = "sent"
                  THEN Outlived(t) \cup
                       {[task |-> t, act |-> prop[t].act, body |-> prop[t].body]}
                  ELSE Outlived(t)}
    /\ Retry(t)
    /\ UNCHANGED <<st, pend, seen, prop, age, crashes>>

-----------------------------------------------------------------------------
(* ProcessAction, on the receiving side p.                                 *)

\* Fault: a repeated proposal is refused.
AgreesOnce(p, a, b) ==
    /\ b.seqno = st[p].seqno + 1
    /\ Accepts(a, st[p])
    /\ b = NextState(a, st[p])

\* The proposal is signed: it repeats p's state or is its next state.
Agrees(p, a, b) ==
    IF b.seqno = st[p].seqno THEN b = st[p]
    ELSE /\ b.seqno = st[p].seqno + 1
         /\ Accepts(a, st[p])
         /\ b = NextState(a, st[p])

Handle(p, a, b) ==
    IF Agrees(p, a, b)
    THEN /\ st' = [st EXCEPT ![p] = b]
         /\ seen' = seen \cup (IF a.type = "add" THEN b.conds \ st[p].conds ELSE {})
    ELSE UNCHANGED <<st, seen>>

\* Fault: proposals are processed whoever holds the channel.
CanLockAlways(p, t) == TRUE

\* AcquireChannel with the proposal's lock: free, or already held for it.
CanLock(p, t) == mx[p] \in {Free, t}

Process(t) ==
    LET p == Peer(t.by)
        a == prop[t].act
        b == prop[t].body IN
    /\ q[t] = "sent" /\ CanLock(p, t)
    /\ Handle(p, a, b)
    /\ q' = [q EXCEPT ![t] = IF Agrees(p, a, b) THEN "agreed" ELSE "denied"]
    /\ UNCHANGED <<pend, status, ph, prop, late, mx, age, crashes>>

\* The mutex is taken: the channel is busy.  Or the action itself is refused.
Reject(t) ==
    /\ q[t] = "sent"
    /\ \/ ~CanLock(Peer(t.by), t) /\ q' = [q EXCEPT ![t] = "busy"]
       \/ /\ CanLock(Peer(t.by), t) /\ Refusable(prop[t].act)
          /\ prop[t].body.seqno = st[Peer(t.by)].seqno + 1
          /\ q' = [q EXCEPT ![t] = "denied"]
    /\ UNCHANGED <<st, pend, seen, status, ph, prop, late, mx, age, crashes>>

ProcessLate(m) ==
    /\ late' = late \ {m}
    /\ CanLock(Peer(m.task.by), m.task)
    /\ Handle(Peer(m.task.by), m.act, m.body)
    /\ UNCHANGED <<pend, status, ph, prop, q, mx, age, crashes>>

-----------------------------------------------------------------------------
(* Environment.                                                            *)

\* A deadline comes closer: too close to open c safely, then passed.
Tick(c) ==
    /\ age[c] # "expired"
    /\ age' = [age EXCEPT ![c] = IF @ = "safe" THEN "unsafe" ELSE "expired"]
    /\ UNCHANGED <<st, pend, seen, status, ph, prop, q, late, mx, crashes>>

\* Node n restarts: its database survives, its locks, workers and queries do not.
Crash(n) ==
    /\ crashes < MaxCrash
    /\ crashes' = crashes + 1
    /\ ph' = [t \in Tasks |-> IF t.by = n THEN "idle" ELSE ph[t]]
    /\ q' = [t \in Tasks |-> IF t.by = n THEN "none" ELSE q[t]]
    /\ mx' = [mx EXCEPT ![n] = Free]
    /\ late' = {}
    /\ UNCHANGED <<st, pend, seen, status, prop, age>>

Next ==
    \/ \E t \in Tasks :
         \/ CreateTask(t) \/ Start(t) \/ Skip(t)
         \/ LockGranted(t) \/ LockAnswerLost(t) \/ LockRefused(t)
         \/ Propose(t) \/ Impossible(t) \/ ProposeRevert(t)
         \/ Save(t) \/ Finish(t) \/ Denied(t) \/ Busy(t) \/ Timeout(t)
         \/ Process(t) \/ Reject(t)
    \/ \E m \in late : ProcessLate(m)
    \/ ExternalUnlock
    \/ \E c \in Conds : Tick(c)
    \/ \E n \in Node : Crash(n)

Spec == Init /\ [][Next]_vars

\* Workers never stop retrying; a query that is sent again and again is answered
\* in the end; and the random wait before each retry lets a proposal meet the
\* party's unlocked channel again and again.
Fairness ==
    /\ \A t \in Tasks :
         /\ SF_vars(Start(t)) /\ WF_vars(Skip(t))
         /\ SF_vars(LockGranted(t))
         /\ WF_vars(Propose(t)) /\ WF_vars(Impossible(t)) /\ WF_vars(ProposeRevert(t))
         /\ SF_vars(Process(t)) /\ SF_vars(Save(t)) /\ WF_vars(Finish(t))
         /\ WF_vars(Denied(t)) /\ WF_vars(Busy(t)) /\ WF_vars(Reject(t))
    /\ WF_vars(ExternalUnlock)
    /\ \A t \in Tasks :
         []<>(status[t] = "todo" => q[t] = "sent" /\ CanLock(Peer(t.by), t))

LiveSpec == Spec /\ Fairness

-----------------------------------------------------------------------------
(* Properties.                                                             *)

Phase == {"idle", "lock", "prop", "wait", "saved", "revert"}
Status == {"none", "todo", "done", "denied", "dropped"}
Query == {"none", "sent", "agreed", "denied", "busy"}

\* The type invariant: every variable holds what the databases, the workers
\* and the transport can hold.
TypeOK ==
    /\ st \in [Node -> Body]
    /\ pend \in [Node -> SUBSET Body]
    /\ seen \in SUBSET Conds
    /\ status \in [Tasks -> Status]
    /\ ph \in [Tasks -> Phase]
    /\ prop \in [Tasks -> Prop]
    /\ q \in [Tasks -> Query]
    /\ late \in SUBSET Late
    /\ mx \in [Node -> Tasks \cup {Free}]
    /\ age \in [Conds -> {"safe", "unsafe", "expired"}]
    /\ crashes \in Nat

\* No state unsync: two fully signed states with one sequence number are the
\* same state, whatever is lost, late, retried or restarted.
Agreement == st["L"].seqno = st["R"].seqno => st["L"] = st["R"]

\* A side that is behind is behind by the one state it proposed itself, and its
\* database still has that state as pending: should the party take it to the
\* blockchain without ever answering, the side can recover its data from it.
Recoverable ==
    \A n \in Node : st[Peer(n)].seqno > st[n].seqno =>
        /\ st[Peer(n)].seqno = st[n].seqno + 1
        /\ st[Peer(n)] \in pend[n]

\* A conditional is settled once: after its execution it is not locked in the
\* state again, although the task that opened it may be run again.
SettledOnce == \A n \in Node : st[n].conds \cap st[n].paid = {}

\* The side that is ahead, or either when they agree.
Latest == IF st["L"].seqno >= st["R"].seqno THEN st["L"] ELSE st["R"]

Atomic == INSTANCE AtomicChannel WITH chan <- Latest, opened <- seen

\* The protocol implements the atomic channel: the latest signed state only
\* ever changes by one whole action, and no conditional is opened twice.
Atomicity == Atomic!Spec

\* A refused opening is rolled back on both sides: once its task has told the
\* previous node that the conditional is "unsuccessful and gracefully removed",
\* neither side has it in its state, and it was not executed.
RolledBack ==
    \A t \in Tasks : t.type = "add" /\ status[t] = "denied" =>
        \A n \in Node : t.cond \notin st[n].conds \cup st[n].paid

-----------------------------------------------------------------------------
(* Why the two sides agree: the parts of an inductive invariant.           *)

\* A worker that runs a task holds its own node's mutex, so each node has at
\* most one proposal under way.
HoldsLock == \A t \in Tasks :
    /\ ph[t] # "idle" => mx[t.by] = t
    /\ ph[t] = "lock" => t.by = "R"
    /\ q[t] # "none" => ph[t] = "wait"

\* While a proposal is under way the proposer's own state stands still: what
\* was proposed is that state again or its successor, and is pending.
ProposalFresh == \A t \in Tasks : ph[t] = "wait" =>
    /\ prop[t].base = st[t.by].seqno
    /\ prop[t].body \in pend[t.by]
    /\ prop[t].body = st[t.by] \/ prop[t].body.seqno = st[t.by].seqno + 1

\* The sides have the same state, or one is a single pending state behind.
Ahead(n) == /\ st[Peer(n)].seqno = st[n].seqno + 1
            /\ st[Peer(n)] \in pend[n]
OneStep == st["L"] = st["R"] \/ Ahead("L") \/ Ahead("R")

\* An agreed proposal is what the party has, and no two are agreed at once.
AgreedSaved ==
    /\ \A t \in Tasks : q[t] = "agreed" =>
         prop[t].body = st[t.by] \/ prop[t].body = st[Peer(t.by)]
    /\ \A t, u \in Tasks : q[t] = "agreed" /\ q[u] = "agreed" => t = u

\* A request that is still on its way cannot be taken for a new one: it is
\* pending, or repeats the sender's state, or the party is past it or about to be.
Superseded(m) ==
    \/ m.body = st[m.task.by]
    \/ m.body.seqno <= st[Peer(m.task.by)].seqno
    \/ \E v \in Tasks : /\ v.by = Peer(m.task.by) /\ q[v] = "agreed"
                        /\ prop[v].body = st[m.task.by]
LateHarmless ==
    /\ \A m, k \in late : m = k
    /\ \A m \in late :
         \/ m.body.seqno = st[m.task.by].seqno + 1 /\ m.body \in pend[m.task.by]
         \/ m.body.seqno <= st[m.task.by].seqno /\ Superseded(m)

\* The inductive invariant of the co-signing protocol: locks, proposals, late
\* requests and the two databases fit together in every reachable state.
IInv ==
    /\ TypeOK
    /\ HoldsLock
    /\ ProposalFresh
    /\ OneStep
    /\ AgreedSaved
    /\ LateHarmless

\* Every conditional a side has ever had in its state has a used key.
KeysUsed == \A n \in Node : st[n].conds \cup st[n].paid \subseteq seen

-----------------------------------------------------------------------------
(* Liveness.                                                               *)

\* Every proposal that got lost on its way is repeated until the two sides have
\* the same state again.
Resync == []<>(st["L"] = st["R"])

\* Every task is completed in the end.
Served == \A t \in Tasks : status[t] = "todo" ~> status[t] # "todo"
=============================================================================
