------------------------------- MODULE Tunnel -------------------------------
(***************************************************************************)
(* One conditional payment on its way over several channels.  Node 0 sends *)
(* it, node N receives it, hop h is the channel of nodes h-1 and h; node h *)
(* is the payee of hop h.  The co-signing of one channel is taken as it is *)
(* shown to behave in StateExchange: a proposal is agreed by the party in  *)
(* one step and saved by the proposer later, and until then the channel    *)
(* accepts nothing else.                                                   *)
(***************************************************************************)
EXTENDS Integers, FiniteSetsExt

CONSTANTS
    N,           \* number of hops
    Deadline,    \* Deadline[h]: the deadline of the conditional on hop h
    SafePeriod,  \* SafeOnchainClosePeriod of every channel
    MinSafe,     \* MinSafeVirtualChannelTimeoutSec of every node
    Transfers,   \* subset of BOOLEAN: may the receiver get the final state at once?
    Closing,     \* hops whose channel may be closed for other reasons
    Reliable,    \* a lost answer is made good before time moves on
    MaxTime      \* bound: the clock stops here

Hops == 1..N
Nodes == 0..N

ASSUME TunnelAssumption ==
    /\ N \in Nat \ {0}
    /\ SafePeriod \in Nat \ {0} /\ MinSafe \in Nat \ {0}
    /\ Deadline \in [Hops -> Nat]
    /\ \A h \in 1 .. N - 1 : Deadline[h + 1] <= Deadline[h] - (SafePeriod + MinSafe)
    /\ Transfers \subseteq BOOLEAN /\ Closing \subseteq Hops /\ Reliable \in BOOLEAN
    /\ MaxTime \in Nat

VARIABLES
    now,
    transfer,  \* the instructions of the receiver contain the final state
    cond,      \* cond[h]: the conditional in the newest state signed by both sides of hop h
    half,      \* half[h]: what the party agreed and the proposer has not saved yet
    chan,      \* chan[h]: the status of the channel
    since,     \* since[h]: when its uncooperative close began
    news,      \* news[h]: the payer of h has not seen the settlement of h yet
    meta,      \* meta[n]: ConditionalMeta of the payment at node n
    task       \* task[n][k]: the task of kind k at node n

vars == <<now, transfer, cond, half, chan, since, news, meta, task>>

Forever == MaxTime + 1
Kinds == {"open", "next", "close", "remove", "timeout", "uncoop"}
Removers == {"remove", "timeout"}
NoTask == [st |-> "none", due |-> 0, till |-> 0]

Init ==
    /\ now = 0
    /\ transfer \in Transfers
    /\ cond = [h \in Hops |-> "none"]
    /\ half = [h \in Hops |-> "none"]
    /\ chan = [h \in Hops |-> "active"]
    /\ since = [h \in Hops |-> 0]
    /\ news = [h \in Hops |-> FALSE]
    /\ meta = [n \in Nodes |-> [st |-> "none", res |-> FALSE]]
    /\ task = [n \in Nodes |-> [k \in Kinds |-> NoTask]]

-----------------------------------------------------------------------------
(* Tasks and metas.                                                        *)

\* CreateTask: a task whose ID was used before is not created again.
Created(ts, n, k, due, till) ==
    IF ts[n][k].st # "none" THEN ts
    ELSE [ts EXCEPT ![n][k] = [st |-> "todo", due |-> due, till |-> till]]

Set(ts, n, k, s) == [ts EXCEPT ![n][k].st = s]
Done(n, k) == task' = Set(task, n, k, "done")
Ready(n, k) == task[n][k].st = "todo" /\ task[n][k].due <= now /\ now <= task[n][k].till

\* AcquireTask drops a task after its ExecuteTill.
Expire(n, k) ==
    /\ task[n][k].st = "todo" /\ now > task[n][k].till
    /\ Done(n, k)
    /\ UNCHANGED <<now, transfer, cond, half, chan, since, news, meta>>

\* The worker that holds the lock of channel h between two steps.
Busy(h) == half[h] # "none" \/ task[h - 1]["open"].st \in {"saved", "revert"}

\* The task starts anew; a proposal of its own may have been agreed before.
Lost(h, act) == half[h] = act => ~Reliable

\* Enough time is left for the conditional of hop h.
Safe(h) == Deadline[h] - (now + SafePeriod) >= MinSafe

\* Fault: no time is reserved for closing the channel on the blockchain.
ClosingTimeLate(n) == IF Deadline[n] > now + 1 THEN Deadline[n] ELSE now + 1

\* closeConditional: when to stop asking the party and go to the blockchain.
ClosingTime(n) == IF Deadline[n] - SafePeriod > now + 1 THEN Deadline[n] - SafePeriod
                  ELSE now + 1

\* closeConditional of node n, on the metas and tasks.
WithClosing(ts, n) ==
    Created(Created(ts, n, "uncoop", ClosingTime(n), Forever), n, "close", now, ClosingTime(n))

-----------------------------------------------------------------------------
(* Opening: CreateSendConditional and the task create-send-conditional of  *)
(* node n, which is the payer of hop n+1.                                  *)

CreateSendConditional ==
    /\ chan[1] = "active" /\ Safe(1)
    /\ task[0]["open"].st = "none"
    /\ task' = Created(task, 0, "open", now, Forever)
    /\ UNCHANGED <<now, transfer, cond, half, chan, since, news, meta>>

\* CreateVirtualChannelMeta, before the proposal.
MetaPending(n) ==
    IF meta[n].st = "none" THEN [meta EXCEPT ![n].st = "pending"] ELSE meta

PrevFound(n) == n > 0 => cond[n] = "open"

OpenSkipped(n) ==
    /\ Ready(n, "open") /\ chan[n + 1] # "active" /\ Lost(n + 1, "add")
    /\ Done(n, "open")
    /\ UNCHANGED <<now, transfer, cond, half, chan, since, news, meta>>

\* ErrNotPossible: the deadline is too close by now.
OpenImpossible(n) ==
    /\ Ready(n, "open") /\ chan[n + 1] = "active" /\ PrevFound(n) /\ ~Safe(n + 1)
    /\ meta' = MetaPending(n)
    /\ Done(n, "open")
    /\ UNCHANGED <<now, transfer, cond, half, chan, since, news>>

\* ProcessAction of AddConditionalAction at node h, on the metas and tasks.
ReceivedMeta(ms, h) ==
    IF h = N THEN [ms EXCEPT ![h] = [st |-> "active", res |-> transfer]] ELSE ms
\* Fault: the receiver does not plan the removal after the deadline.
ReceivedTasksNoTimeout(ts, h) ==
    IF h = N THEN IF transfer THEN Created(ts, h, "next", now, Deadline[h]) ELSE ts
    ELSE Created(Created(ts, h, "timeout", Deadline[h] + 1, Forever),
                 h, "open", now, Deadline[h + 1])
ReceivedTasks(ts, h) ==
    IF h = N /\ transfer THEN Created(ts, h, "next", now, Deadline[h])
    ELSE LET t == Created(ts, h, "timeout", Deadline[h] + 1, Forever)
         IN  IF h = N THEN t ELSE Created(t, h, "open", now, Deadline[h + 1])

OpenAgreed(n) ==
    LET h == n + 1 IN
    /\ Ready(n, "open") /\ chan[h] = "active" /\ PrevFound(n) /\ Safe(h)
    /\ ~Busy(h) /\ cond[h] = "none" /\ meta[h].st = "none"
    /\ h < N => chan[h + 1] = "active"
    /\ cond' = [cond EXCEPT ![h] = "open"]
    /\ half' = [half EXCEPT ![h] = "add"]
    /\ meta' = ReceivedMeta(MetaPending(n), h)
    /\ task' = ReceivedTasks(task, h)
    /\ UNCHANGED <<now, transfer, chan, since, news>>

\* The party refuses at will, and always when it knows the key.
OpenDenied(n) ==
    LET h == n + 1 IN
    /\ Ready(n, "open") /\ chan[h] = "active" /\ PrevFound(n) /\ Safe(h)
    /\ ~Busy(h) /\ cond[h] # "open"
    /\ meta' = MetaPending(n)
    /\ task' = Set(task, n, "open", "revert")
    /\ UNCHANGED <<now, transfer, cond, half, chan, since, news>>

\* The state is saved, or found in the database by a task that runs again.
OpenSaved(n) ==
    LET h == n + 1 IN
    /\ Ready(n, "open") /\ cond[h] = "open"
    /\ \/ half[h] = "add"
       \/ half[h] = "none" /\ chan[h] = "active" /\ PrevFound(n) /\ Safe(h)
    /\ half' = [half EXCEPT ![h] = "none"]
    /\ task' = Set(task, n, "open", "saved")
    /\ UNCHANGED <<now, transfer, cond, chan, since, news, meta>>

OpenFinished(n) ==
    /\ task[n]["open"].st = "saved"
    /\ meta' = [meta EXCEPT ![n].st = "active"]
    /\ Done(n, "open")
    /\ UNCHANGED <<now, transfer, cond, half, chan, since, news>>

\* The party signs the increment that reverts the opening: ready to release.
Reverted(n) ==
    /\ task[n]["open"].st = "revert" /\ chan[n + 1] = "active"
    /\ meta' = [meta EXCEPT ![n].st = "wantremove"]
    /\ LET ts == Set(task, n, "open", "done") IN
       task' = IF n = 0 THEN ts ELSE Created(ts, n, "remove", now, Deadline[n + 1])
    /\ UNCHANGED <<now, transfer, cond, half, chan, since, news>>

RevertFailed(n) ==
    /\ task[n]["open"].st = "revert"
    /\ task' = Set(task, n, "open", "todo")
    /\ UNCHANGED <<now, transfer, cond, half, chan, since, news, meta>>

-----------------------------------------------------------------------------
(* Resolving and closing: node n is the payee of hop n.                    *)

\* The receiver's API: AddConditionalResolve.
AddConditionalResolve ==
    /\ meta[N].st = "active" /\ cond[N] = "open" /\ now <= Deadline[N]
    /\ ~meta[N].res
    /\ meta' = [meta EXCEPT ![N].res = TRUE]
    /\ UNCHANGED <<now, transfer, cond, half, chan, since, news, task>>

CanClose(n) == n > 0 /\ meta[n].res /\ chan[n] = "active"

\* The receiver's API: CloseConditional.
CloseConditional ==
    /\ CanClose(N) /\ cond[N] = "open" /\ task[N]["close"].st = "none"
    /\ meta' = [meta EXCEPT ![N].st = "wantclose"]
    /\ task' = WithClosing(task, N)
    /\ UNCHANGED <<now, transfer, cond, half, chan, since, news>>

\* The task close-next-virtual calls CloseConditional.
CloseNext ==
    /\ Ready(N, "next") /\ CanClose(N)
    /\ LET ts == Set(task, N, "next", "done") IN
       IF cond[N] = "open"
       THEN /\ meta' = [meta EXCEPT ![N].st = "wantclose"]
            /\ task' = WithClosing(ts, N)
       ELSE task' = ts /\ UNCHANGED meta
    /\ UNCHANGED <<now, transfer, cond, half, chan, since, news>>

CloseSkipped(n) ==
    /\ Ready(n, "close") /\ Lost(n, "exec")
    /\ \/ meta[n].st \in {"closed", "wantremove"}
       \/ ~meta[n].res \/ chan[n] # "active" \/ cond[n] # "open"
    /\ Done(n, "close")
    /\ UNCHANGED <<now, transfer, cond, half, chan, since, news, meta>>

\* ProcessAction of ExecuteConditionalAction at the payer n: its own incoming
\* conditional must be in a channel where it can be closed, or gone.
PayerAccepts(n) == n > 0 => chan[n] = "active"

CloseAgreed(n) ==
    LET p == n - 1 IN
    /\ Ready(n, "close")
    /\ meta[n].st \notin {"closed", "wantremove"} /\ meta[n].res
    /\ chan[n] = "active" /\ cond[n] = "open" /\ ~Busy(n)
    /\ now <= Deadline[n] /\ PayerAccepts(p)
    /\ cond' = [cond EXCEPT ![n] = "paid"]
    /\ half' = [half EXCEPT ![n] = "exec"]
    /\ meta' = [meta EXCEPT ![p] =
                    [st |-> IF p = 0 THEN "closed"
                            ELSE IF cond[p] = "open" THEN "wantclose" ELSE @.st,
                     res |-> TRUE]]
    /\ task' = IF p > 0 /\ cond[p] = "open" THEN WithClosing(task, p) ELSE task
    /\ UNCHANGED <<now, transfer, chan, since, news>>

CloseSaved(n) ==
    /\ half[n] = "exec"
    /\ half' = [half EXCEPT ![n] = "none"]
    /\ meta' = [meta EXCEPT ![n].st = "closed"]
    /\ Done(n, "close")
    /\ UNCHANGED <<now, transfer, cond, chan, since, news>>

-----------------------------------------------------------------------------
(* Removing: remove-cond, created by the payee's API, by the removal of    *)
(* the next hop, by a reverted opening, and for the time after the         *)
(* deadline.                                                               *)

\* Fault: the deadline of the outgoing half is not checked.
MayRemoveAlways(n) == TRUE

MayRemove(n) == n < N /\ meta[n].st # "none" => Deadline[n + 1] < now

RemoveConditional(n) ==
    /\ n > 0 /\ meta[n].st \in {"active", "pending"} /\ MayRemove(n)
    /\ task[n]["remove"].st = "none"
    /\ task' = Created(task, n, "remove", now, Forever)
    /\ UNCHANGED <<now, transfer, cond, half, chan, since, news, meta>>

\* The channel whose status the task looks at: the outgoing one, if there is one.
LooksAt(n) == IF n < N THEN n + 1 ELSE n

RemoveSkipped(n, k) ==
    /\ Ready(n, k) /\ Lost(n, "rem")
    /\ meta[n].st \in {"none", "closed"} \/ chan[LooksAt(n)] # "active"
    /\ Done(n, k)
    /\ UNCHANGED <<now, transfer, cond, half, chan, since, news, meta>>

RemoveAgreed(n, k) ==
    /\ Ready(n, k)
    /\ meta[n].st \notin {"none", "closed"} /\ chan[LooksAt(n)] = "active"
    /\ chan[n] = "active" /\ cond[n] = "open" /\ ~Busy(n)
    /\ cond' = [cond EXCEPT ![n] = "removed"]
    /\ half' = [half EXCEPT ![n] = "rem"]
    /\ task' = IF n > 1 THEN Created(task, n - 1, "remove", now, Forever) ELSE task
    /\ UNCHANGED <<now, transfer, chan, since, news, meta>>

\* Saved, or found removed or paid by a task that runs again.
RemoveFinished(n, k) ==
    /\ Ready(n, k) /\ cond[n] # "open"
    /\ \/ half[n] = "rem"
       \/ /\ half[n] = "none" /\ chan[n] = "active" /\ chan[LooksAt(n)] = "active"
          /\ meta[n].st \notin {"none", "closed"}
    /\ half' = [half EXCEPT ![n] = "none"]
    /\ meta' = [meta EXCEPT ![n].st = "wantremove"]
    /\ Done(n, k)
    /\ UNCHANGED <<now, transfer, cond, chan, since, news>>

\* The party does not agree, or does not answer: the blockchain is next.
RemoveFailed(n, k) ==
    /\ Ready(n, k)
    /\ meta[n].st \notin {"none", "closed"} /\ chan[LooksAt(n)] = "active"
    /\ cond[n] = "open" \/ half[n] # "none" \/ chan[n] # "active"
    /\ task[n]["uncoop"].st = "none"
    /\ task' = Created(task, n, "uncoop", now + 1, Forever)
    /\ UNCHANGED <<now, transfer, cond, half, chan, since, news, meta>>

-----------------------------------------------------------------------------
(* The blockchain.                                                         *)

StartClose(h) == /\ chan' = [chan EXCEPT ![h] = "closing"]
                 /\ since' = [since EXCEPT ![h] = now]

\* The task uncooperative-close of the payee n.
UncooperativeClose(n) ==
    /\ Ready(n, "uncoop")
    /\ Done(n, "uncoop")
    /\ IF chan[n] = "active" /\ cond[n] = "open" THEN StartClose(n)
       ELSE UNCHANGED <<chan, since>>
    /\ UNCHANGED <<now, transfer, cond, half, news, meta>>

ClosedByOthers(h) ==
    /\ h \in Closing /\ chan[h] = "active"
    /\ now + SafePeriod <= MaxTime  \* the clock's bound leaves time for the close
    /\ StartClose(h)
    /\ UNCHANGED <<now, transfer, cond, half, news, meta, task>>

\* settle-step, after the quarantine: the payee commits the resolve it knows.
Settle(n) ==
    /\ chan[n] = "closing" /\ now > since[n] /\ meta[n].res /\ cond[n] = "open" /\ now <= Deadline[n]
    /\ cond' = [cond EXCEPT ![n] = "paid"]
    /\ news' = [news EXCEPT ![n] = TRUE]
    /\ UNCHANGED <<now, transfer, half, chan, since, meta, task>>

\* scanSettledConditionals of the payer: AddConditionalResolve, CloseConditional.
ScanSettled(h) ==
    LET n == h - 1
        learns == /\ meta[n].st = "active"
                  /\ n > 0 => cond[n] = "open" /\ now <= Deadline[n]
        res == meta[n].res \/ learns
        closes == n > 0 /\ res /\ chan[n] = "active" /\ cond[n] = "open"
    IN  /\ news[h]
        /\ news' = [news EXCEPT ![h] = FALSE]
        /\ meta' = [meta EXCEPT ![n] = [st |-> IF closes THEN "wantclose" ELSE @.st,
                                        res |-> res]]
        /\ task' = IF closes THEN WithClosing(task, n) ELSE task
        /\ UNCHANGED <<now, transfer, cond, half, chan, since>>

\* The close is over: what was not settled goes back to the payer.
Finalize(h) ==
    /\ chan[h] = "closing" /\ now >= since[h] + SafePeriod
    /\ ~(meta[h].res /\ cond[h] = "open" /\ now <= Deadline[h])
    /\ chan' = [chan EXCEPT ![h] = "closed"]
    /\ cond' = [cond EXCEPT ![h] = IF @ = "open" THEN "removed" ELSE @]
    /\ half' = [half EXCEPT ![h] = "none"]
    /\ UNCHANGED <<now, transfer, since, news, meta, task>>

-----------------------------------------------------------------------------
\* What has to be done before time moves on: the first attempt of a task, what is
\* due on the blockchain, and with Reliable the repetition of a proposal whose answer
\* was lost.
Urgent ==
    \/ \E n \in 0..(N - 1) : Ready(n, "open") /\ meta[n].st = "none" /\ PrevFound(n)
    \/ Ready(N, "next") /\ CanClose(N)
    \/ \E n \in Hops, k \in Removers : Ready(n, k) /\ task[n]["uncoop"].st = "none"
    \/ \E n \in Hops : Ready(n, "uncoop")
    \/ \E h \in Hops : news[h] \/ (chan[h] = "closing" /\ now >= since[h] + SafePeriod)
    \/ Reliable /\ \E h \in Hops : half[h] # "none"
    \/ \E n \in Nodes : task[n]["open"].st \in {"saved", "revert"}

Tick ==
    /\ now < MaxTime /\ ~Urgent
    /\ now' = now + 1
    /\ UNCHANGED <<transfer, cond, half, chan, since, news, meta, task>>

OpenTask(n) ==
    \/ OpenSkipped(n) \/ OpenImpossible(n) \/ OpenAgreed(n) \/ OpenDenied(n)
    \/ OpenSaved(n) \/ OpenFinished(n) \/ Reverted(n) \/ RevertFailed(n)

RemoveTask(n, k) ==
    RemoveSkipped(n, k) \/ RemoveAgreed(n, k) \/ RemoveFinished(n, k) \/ RemoveFailed(n, k)

Next ==
    \/ CreateSendConditional \/ AddConditionalResolve \/ CloseConditional \/ CloseNext
    \/ \E n \in 0..(N - 1) : OpenTask(n)
    \/ \E n \in Hops :
         \/ CloseSkipped(n) \/ CloseAgreed(n) \/ CloseSaved(n)
         \/ RemoveConditional(n) \/ UncooperativeClose(n)
         \/ \E k \in Removers : RemoveTask(n, k)
         \/ ClosedByOthers(n) \/ Settle(n) \/ ScanSettled(n) \/ Finalize(n)
    \/ \E n \in Nodes, k \in Kinds : Expire(n, k)
    \/ Tick

Spec == Init /\ [][Next]_vars

\* The clock runs (between two attempts of a task too), workers run their tasks, and the
\* blockchain works.  Nothing is assumed of the parties: they may refuse, or not answer.
LiveSpec ==
    /\ Spec /\ SF_vars(Tick)
    /\ \A n \in 0..(N - 1) : WF_vars(OpenTask(n))
    /\ \A n \in Hops :
         /\ WF_vars(CloseSaved(n)) /\ WF_vars(UncooperativeClose(n))
         /\ \A k \in Removers : WF_vars(RemoveTask(n, k))
         /\ WF_vars(Settle(n)) /\ WF_vars(ScanSettled(n)) /\ WF_vars(Finalize(n))
    /\ WF_vars(CloseNext)

-----------------------------------------------------------------------------
(* Properties                                                              *)

\* Types, and what was agreed last is what the proposer has still to save.
TypeOK ==
    /\ \A h \in Hops : cond[h] = CASE half[h] = "add"  -> "open"
                                  [] half[h] = "exec" -> "paid"
                                  [] half[h] = "rem"  -> "removed"
                                  [] OTHER            -> cond[h]
    /\ now \in 0..MaxTime /\ transfer \in BOOLEAN
    /\ cond \in [Hops -> {"none", "open", "paid", "removed"}]
    /\ half \in [Hops -> {"none", "add", "exec", "rem"}]
    /\ chan \in [Hops -> {"active", "closing", "closed"}]
    /\ since \in [Hops -> Nat] /\ news \in [Hops -> BOOLEAN]
    /\ meta \in [Nodes -> [st : {"none", "pending", "active", "wantclose", "wantremove", "closed"},
                           res : BOOLEAN]]
    /\ task \in [Nodes -> [Kinds -> [st : {"none", "todo", "saved", "revert", "done"},
                                    due : Nat, till : Nat]]]

\* The tunnel is a payment that is locked forward and paid or voided backward: an
\* expired conditional is void.  In particular no middle node pays its outgoing half
\* and loses, by removal or by expiry, the incoming one.
Hop(h) == CASE cond[h] = "open"    -> IF now > Deadline[h] THEN "void" ELSE "open"
            [] cond[h] = "removed" -> "void"
            [] OTHER               -> cond[h]
P == INSTANCE Payment WITH hop <- [h \in Hops |-> Hop(h)]
LockedForwardPaidBackward == P!Spec

\* What a middle node needs to be paid is in its database as soon as it has paid: the
\* resolve, and a task or a running close that will use it in time.
CanClaim ==
    \A h \in Hops : h < N /\ cond[h + 1] = "paid" /\ cond[h] = "open" =>
        \/ news[h + 1]
        \/ /\ meta[h].res
           /\ \/ chan[h] = "closing"
              \/ /\ task[h]["uncoop"].st = "todo"
                 /\ task[h]["uncoop"].due + SafePeriod <= Deadline[h]

\* No conditional stays locked for ever, whatever the parties answer, as long as the
\* next channel of the tunnel stays open.
Released ==
    \A h \in Hops : (cond[h] = "open") ~>
        (cond[h] # "open" \/ (h < N /\ chan[h + 1] # "active"))
=============================================================================
