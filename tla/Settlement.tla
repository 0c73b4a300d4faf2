----------------------------- MODULE Settlement -----------------------------
(***************************************************************************)
(* The uncooperative close of one channel, seen from one node: the tasks   *)
(* uncooperative-close, challenge, settle, settle-step, settle-fin,        *)
(* settle-act, settle-act-step and finalize, the processing of the events  *)
(* of the two contracts, and a party that commits any state it has a       *)
(* signature for, settles what it likes, or does nothing.                  *)
(*                                                                         *)
(* The contracts are external: the two of them are one record here, with   *)
(* the phases that calcState computes from the clock.                      *)
(***************************************************************************)
EXTENDS Integers, Sequences, FiniteSets

CONSTANTS
    Conditionals,  \* conditionals of the party in our favour, in the order of the dictionary
    Known,         \* those whose resolve we know
    Derivatives,   \* those that settle through a resolver contract
    PerMessage,    \* conditionsPerMessage
    Actions,       \* number of action states to execute
    Newest,        \* seqno of the newest state signed by both sides
    Pending,       \* is the next state signed by us and not yet answered?
    Quarantine, CondTime, ActTime,  \* the ClosingConfig
    MaxSettles,    \* bound: settlements of the party
    MaxTime        \* bound: the clock stops here

ASSUME SettlementAssumption ==
    /\ Conditionals \in Nat /\ Newest \in Nat \ {0} /\ Actions \in Nat \ {0}
    /\ Known \subseteq 1..(Conditionals + 1) /\ Derivatives \subseteq Known
    /\ PerMessage \in Nat \ {0} /\ Pending \in BOOLEAN
    /\ {Quarantine, CondTime, ActTime} \subseteq Nat \ {0}
    /\ MaxSettles \in Nat /\ MaxTime \in Nat

VARIABLES
    now,
    chain,    \* the two contracts
    ours,     \* events of our contract that are not processed yet
    theirs,   \* events of the contract of the party that are not processed yet
    db,       \* the channel in our database
    task,     \* task[k]: the task of kind k
    settles,  \* the queue "-settle" after the task settle: settle-step, settle-fin
    acts,     \* the queue "-act-settle": settle-act-step
    resolver  \* the resolver contracts of our derivatives

vars == <<now, chain, ours, theirs, db, task, settles, acts, resolver>>

Kinds == {"uncoop", "deploy", "challenge", "settle", "act", "finalize"}
Forever == MaxTime + 1
NoTask == [st |-> "none", due |-> 0, till |-> 0]

Init ==
    /\ now = 0
    /\ chain = [status |-> "open", seqno |-> 0, owner |-> FALSE, start |-> 0, lt |-> 0,
                done |-> {}, fin |-> FALSE, their |-> 0, acts |-> 0]
    /\ ours = <<>> /\ theirs = <<>>
    /\ db = [status |-> "active", accepting |-> TRUE, started |-> FALSE, seqno |-> Newest,
             fin |-> FALSE, lt |-> 0, partyLt |-> 0, done |-> {}, their |-> 0]
    /\ task = [k \in Kinds |-> NoTask]
    /\ settles = <<>> /\ acts = <<>>
    /\ resolver = "none"

-----------------------------------------------------------------------------
(* The contracts.                                                          *)

\* The conditionals of the state with seqno s: the pending state adds one.
CondsOf(s) == 1..(Conditionals + s - Newest)

SettleAt(start) == start + Quarantine
ActAt(start) == SettleAt(start) + CondTime
FinalizeAt(start) == ActAt(start) + ActTime

\* calcState of a contract whose close began at start.
PhaseAt(start, t) == IF t < SettleAt(start) THEN "closure"
                     ELSE IF t < ActAt(start) THEN "settling"
                     ELSE IF t < FinalizeAt(start) THEN "executing" ELSE "awaiting"

Phase == IF chain.status = "closing" THEN PhaseAt(chain.start, now) ELSE chain.status

\* A transaction of both contracts; external on the contract of the sender.
Emit(c, kind, byUs, set) ==
    LET e == [kind |-> kind, lt |-> c.lt, ext |-> byUs, seqno |-> c.seqno, owner |-> c.owner,
              start |-> c.start, gone |-> c.status = "gone", fin |-> c.fin, set |-> set,
              done |-> c.done, their |-> c.their]
    IN  /\ chain' = c
        /\ ours' = IF kind \in {"close", "settle", "fin", "gone"} THEN Append(ours, e) ELSE ours
        /\ theirs' = IF kind \in {"close", "theirs", "gone"} THEN Append(theirs, e) ELSE theirs

\* UncoopClose: opens the quarantine, or replaces an older state in it.
CloseAccepted(s) ==
    \/ chain.status = "open" /\ FinalizeAt(now) <= MaxTime  \* the clock's bound
    \/ Phase = "closure" /\ s > chain.seqno
CloseTx(s, byUs) ==
    Emit([chain EXCEPT !.status = "closing", !.seqno = s, !.owner = byUs, !.lt = @ + 1,
                       !.start = IF chain.status = "open" THEN now ELSE @],
         "close", byUs, {})

-----------------------------------------------------------------------------
(* Tasks.                                                                  *)

Created(ts, k, due, till) ==
    IF ts[k].st # "none" THEN ts ELSE [ts EXCEPT ![k] = [st |-> "todo", due |-> due, till |-> till]]
Done(k) == task' = [task EXCEPT ![k].st = "done"]
Ready(k) == task[k].st = "todo" /\ task[k].due <= now /\ now <= task[k].till

RequestUncooperativeClose ==
    /\ db.status # "inactive" /\ task["uncoop"].st = "none"
    /\ task' = Created(task, "uncoop", now, Forever)
    /\ UNCHANGED <<now, chain, ours, theirs, db, settles, acts, resolver>>

\* uncooperative-close: startUncooperativeClose.
UncooperativeClose ==
    /\ Ready("uncoop")
    /\ IF db.status # "active"
       THEN Done("uncoop") /\ UNCHANGED <<chain, ours, theirs, db>>
       ELSE /\ task' = Created([task EXCEPT !["uncoop"].st = "done"], "deploy", now, Forever)
            /\ db' = [db EXCEPT !.accepting = FALSE]
            /\ IF chain.status = "open" /\ CloseAccepted(db.seqno) THEN CloseTx(db.seqno, TRUE)
               ELSE UNCHANGED <<chain, ours, theirs>>
    /\ UNCHANGED <<now, settles, acts, resolver>>

\* deploy-derivative-resolvers: retried while the channel is open.
DeployResolvers ==
    /\ Ready("deploy") /\ (db.status = "inactive" \/ chain.status # "open")
    /\ resolver' = IF db.status = "inactive" \/ chain.status = "gone" \/ Derivatives = {}
                      \/ resolver # "none" THEN resolver ELSE "deployed"
    /\ Done("deploy")
    /\ UNCHANGED <<now, chain, ours, theirs, db, settles, acts>>

\* challengeChannelState: the message is not accepted when it is not newer.
Challenge ==
    /\ Ready("challenge")
    /\ task' = Created([task EXCEPT !["challenge"].st = "done"], "deploy", now, Forever)
    /\ IF db.status # "inactive" /\ CloseAccepted(db.seqno) THEN CloseTx(db.seqno, TRUE)
       ELSE UNCHANGED <<chain, ours, theirs>>
    /\ UNCHANGED <<now, db, settles, acts, resolver>>

-----------------------------------------------------------------------------
(* Settling conditionals: settleChannelConditionals cuts the resolves into *)
(* messages, each with a proof against the state the one before it leaves. *)

\* The resolves at hand.
ToSettle == {c \in CondsOf(db.seqno) : c \in Known /\ (c \in Derivatives => resolver # "none")}

\* In the order of the dictionary a message begins with c: c is a derivative, which stands
\* alone in its own, or since the last derivative all messages before c are full.
Begins(c) ==
    LET run == {x \in ToSettle : x <= c /\ (x..c) \cap ToSettle \cap Derivatives = {}}
    IN  c \in Derivatives \/ (Cardinality(run) - 1) % PerMessage = 0

\* conditionsPerMessage and flushMessage: message i has the resolves of the i-th beginning.
Messages ==
    LET first == {c \in ToSettle : Begins(c)}
    IN  [i \in 1..Cardinality(first) |-> {c \in ToSettle : Cardinality({x \in first : x <= c}) = i}]

Upto(ms, i) == UNION {ms[j] : j \in 1..i}

\* Fault: every proof is built against the state before the first message.
StepsSameProof(ms) ==
    [i \in 1..Len(ms) |-> [kind |-> "step", set |-> ms[i], pre |-> {}]]

Steps(ms) ==
    [i \in 1..Len(ms) |-> [kind |-> "step", set |-> ms[i], pre |-> Upto(ms, i - 1)]]

\* The step of a derivative waits for the quarantine of its resolver, the others and
\* settle-fin do not: the queue is in the order of the times, not of the steps.
InQueue(items) ==
    LET waits(t) == t.set \cap Derivatives # {}
    IN  IF \A i \in 1..Len(items) : ~waits(items[i]) THEN items
        ELSE SelectSeq(items, LAMBDA t : ~waits(t)) \o SelectSeq(items, waits)

SettleConditionals ==
    /\ Ready("settle")
    /\ IF db.status = "inactive" \/ Phase \in {"executing", "awaiting", "gone"}
       THEN UNCHANGED <<settles, resolver>>
       ELSE /\ settles' = LET ms == Messages IN
                  InQueue(Append(Steps(ms), [kind |-> "fin", set |-> {}, pre |-> Upto(ms, Len(ms))]))
            /\ resolver' = IF Derivatives \cap ToSettle # {} THEN "exited" ELSE resolver
    /\ Done("settle")
    /\ UNCHANGED <<now, chain, ours, theirs, db, acts>>

\* executeSettleStep: accepted if its proof is against what the contract holds.
StepAccepted(t) == Phase = "settling" /\ chain.seqno = db.seqno /\ t.pre = chain.done

CanStep == settles # <<>> /\ Head(settles).kind = "step"
           /\ (db.status = "inactive" \/ StepAccepted(Head(settles)))

SettleStep ==
    /\ CanStep
    /\ settles' = Tail(settles)
    /\ LET t == Head(settles) IN
       IF db.status = "inactive" THEN UNCHANGED <<chain, ours, theirs>>
       ELSE Emit([chain EXCEPT !.done = @ \cup t.set, !.lt = @ + 1], "settle",
                 t.set \cap Derivatives = {}, t.set)
    /\ UNCHANGED <<now, db, task, acts, resolver>>

\* executeSettleFinalize: still pending until the contract holds the expected hash.
CanFin == settles # <<>> /\ Head(settles).kind = "fin"
          /\ \/ db.status = "inactive" \/ chain.fin
             \/ Phase = "settling" /\ chain.seqno = db.seqno /\ Head(settles).pre = chain.done

SettleFinalize ==
    /\ CanFin
    /\ settles' = Tail(settles)
    /\ IF db.status = "inactive" \/ chain.fin THEN UNCHANGED <<chain, ours, theirs>>
       ELSE Emit([chain EXCEPT !.fin = TRUE, !.lt = @ + 1], "fin", TRUE, {})
    /\ UNCHANGED <<now, db, task, acts, resolver>>

-----------------------------------------------------------------------------
(* Executing actions and finishing.                                        *)

CanAct == Ready("act") /\ (Phase \in {"awaiting", "gone"} \/ (Phase = "executing" /\ db.fin))

\* settleChannelActions: the proofs are against what the events told.
SettleActions ==
    /\ CanAct
    /\ Done("act")
    /\ acts' = IF Phase \in {"awaiting", "gone"} THEN acts
               ELSE [i \in 1..Actions |-> [pre |-> i - 1, done |-> db.done, their |-> db.their]]
    /\ UNCHANGED <<now, chain, ours, theirs, db, settles, resolver>>

\* executeSettleActionStep compares the hashes of its proofs with the contract.
CanActStep == acts # <<>> /\ \/ db.status = "inactive"
                             \/ /\ Phase = "executing" /\ chain.acts = Head(acts).pre
                                /\ Head(acts).done = chain.done
                                /\ Head(acts).their = chain.their

SettleActionStep ==
    /\ CanActStep
    /\ acts' = Tail(acts)
    /\ IF db.status = "inactive" THEN UNCHANGED <<chain, ours, theirs>>
       ELSE Emit([chain EXCEPT !.acts = @ + 1, !.lt = @ + 1], "act", TRUE, {})
    /\ UNCHANGED <<now, db, task, settles, resolver>>

GoneTx(byUs) == Emit([chain EXCEPT !.status = "gone", !.lt = @ + 1], "gone", byUs, {})

\* finishUncooperativeChannelClose.
FinishClose ==
    /\ Ready("finalize") /\ Phase \in {"awaiting", "gone"}
    /\ Done("finalize")
    /\ IF Phase = "gone" THEN UNCHANGED <<chain, ours, theirs>> ELSE GoneTx(TRUE)
    /\ UNCHANGED <<now, db, settles, acts, resolver>>

-----------------------------------------------------------------------------
(* Events: an event may be delivered again.                                *)

\* Fault: only a state that is far behind is challenged.
OutdatedByTwo(seqno, known) == seqno < known - 1

Outdated(seqno, known) == seqno < known

\* The party committed a state that we signed and it did not: taken from the pending ones.
Recover(e) ==
    IF /\ e.kind = "close" /\ ~e.ext /\ PhaseAt(e.start, now) = "closure"
       /\ e.seqno = Newest + 1 /\ Pending /\ e.seqno > db.seqno
    THEN e.seqno ELSE db.seqno

\* Fault: the case of the actions does not fall through to the finalization.
ScheduledNoFinalize(e, known) ==
    IF db.started \/ e.gone THEN task
    ELSE Created(Created(task, "settle", SettleAt(e.start), ActAt(e.start)),
                 "act", ActAt(e.start), FinalizeAt(e.start))

\* processSideUpdate of our side: what an event of a close schedules, once.
Scheduled(e, known) ==
    LET p == PhaseAt(e.start, now)
        c == IF p = "closure" /\ ~e.owner /\ Outdated(e.seqno, known)
             THEN Created(task, "challenge", now, SettleAt(e.start)) ELSE task
        s == IF p \in {"closure", "settling"}
             THEN Created(c, "settle", SettleAt(e.start), ActAt(e.start)) ELSE c
        a == IF p \in {"closure", "settling", "executing"}
             THEN Created(s, "act", ActAt(e.start), FinalizeAt(e.start)) ELSE s
    IN  IF db.started \/ e.gone THEN task ELSE Created(a, "finalize", FinalizeAt(e.start), Forever)

OurEvent(again) ==
    /\ ours # <<>>
    /\ ours' = IF again THEN ours ELSE Tail(ours)
    /\ LET e == Head(ours)
           known == Recover(e)
           settled == IF e.kind = "settle" /\ e.ext /\ db.done \cup e.set = e.done
                      THEN e.done ELSE db.done
       IN  IF (e.gone /\ db.status = "inactive") \/ e.lt <= db.lt THEN UNCHANGED <<db, task>>
           ELSE /\ task' = Scheduled(e, known)
                /\ db' = [db EXCEPT !.accepting = FALSE, !.started = @ \/ ~e.gone, !.seqno = known,
                                    !.status = IF e.gone THEN "inactive"
                                               ELSE IF @ = "active" THEN "closing" ELSE @,
                                    !.fin = e.fin, !.lt = e.lt, !.done = settled]
    /\ UNCHANGED <<now, chain, theirs, settles, acts, resolver>>

\* scanSettledConditionals and processSideUpdate of the side of the party.
TheirEvent(again) ==
    /\ theirs # <<>>
    /\ theirs' = IF again THEN theirs ELSE Tail(theirs)
    /\ LET e == Head(theirs) IN
       IF e.lt <= db.partyLt THEN UNCHANGED db
       ELSE db' = [db EXCEPT !.accepting = FALSE, !.partyLt = e.lt,
                             !.status = IF @ = "active" /\ ~e.gone THEN "closing" ELSE @,
                             !.their = IF e.kind = "theirs" /\ @ + 1 = e.their THEN e.their ELSE @]
    /\ UNCHANGED <<now, chain, ours, task, settles, acts, resolver>>

-----------------------------------------------------------------------------
(* The party.                                                              *)

PartyCloses ==
    \E s \in 1..(IF Pending THEN Newest + 1 ELSE Newest) :
        /\ CloseAccepted(s) /\ CloseTx(s, FALSE)
        /\ UNCHANGED <<now, db, task, settles, acts, resolver>>

PartySettles ==
    /\ Phase = "settling" /\ chain.their < MaxSettles
    /\ Emit([chain EXCEPT !.their = @ + 1, !.lt = @ + 1], "theirs", FALSE, {})
    /\ UNCHANGED <<now, db, task, settles, acts, resolver>>

PartyFinishes ==
    /\ Phase = "awaiting" /\ GoneTx(FALSE)
    /\ UNCHANGED <<now, db, task, settles, acts, resolver>>

-----------------------------------------------------------------------------
\* No phase of the contract ends while the node has something to do in it: events
\* arrive and tasks run within a phase.
Pressing ==
    \/ ours # <<>> \/ theirs # <<>> \/ Ready("challenge") \/ Ready("settle")
    \/ CanStep \/ CanFin \/ CanAct \/ CanActStep

Tick ==
    /\ now < MaxTime
    /\ chain.status = "closing" /\ PhaseAt(chain.start, now + 1) # Phase => ~Pressing
    /\ now' = now + 1
    /\ UNCHANGED <<chain, ours, theirs, db, task, settles, acts, resolver>>

Worker == UncooperativeClose \/ DeployResolvers \/ Challenge \/ SettleConditionals
          \/ SettleStep \/ SettleFinalize \/ SettleActions \/ SettleActionStep \/ FinishClose

Next ==
    \/ RequestUncooperativeClose \/ Worker
    \/ \E again \in BOOLEAN : OurEvent(again) \/ TheirEvent(again)
    \/ PartyCloses \/ PartySettles \/ PartyFinishes
    \/ Tick

Spec == Init /\ [][Next]_vars

\* The clock runs, the worker runs the tasks, and the scanner delivers every event.
LiveSpec ==
    /\ Spec /\ WF_vars(Tick)
    /\ WF_vars(Worker) /\ WF_vars(OurEvent(FALSE)) /\ WF_vars(TheirEvent(FALSE))

-----------------------------------------------------------------------------
(* Properties                                                              *)

TypeOK ==
    /\ now \in 0..MaxTime
    /\ chain.status \in {"open", "closing", "gone"} /\ chain.seqno \in 0..(Newest + 1)
    /\ chain.done \subseteq CondsOf(Newest + 1) /\ chain.acts \in 0..Actions
    /\ db.status \in {"active", "closing", "inactive"} /\ db.seqno \in {Newest, Newest + 1}
    /\ db.status = "active" \/ ~db.accepting
    /\ db.done \subseteq chain.done /\ db.their <= chain.their
    /\ \A k \in Kinds : task[k].st \in {"none", "todo", "done"} /\ task[k].till \in Nat
    /\ resolver \in {"none", "deployed", "exited"}

Over == Phase \in {"awaiting", "gone"}

\* Whatever state the party commits, in whatever order, when the quarantine is over the
\* contract holds a state that is not older than the newest one, and our database holds
\* the data of that very state, without which nothing can be settled.
NewestCounts ==
    Phase \in {"settling", "executing", "awaiting", "gone"} =>
        chain.seqno >= Newest /\ db.seqno = chain.seqno

\* When the time for settling is over every resolve we know is settled, in however many
\* messages, and every action is executed.
AllPaid ==
    Over => /\ CondsOf(chain.seqno) \cap Known \subseteq chain.done
            /\ chain.fin /\ chain.acts = Actions

\* A close that began ends with the channel inactive in our database.
Closes == (chain.status = "closing") ~> (db.status = "inactive")
=============================================================================
