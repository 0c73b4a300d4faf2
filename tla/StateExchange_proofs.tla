----------------------- MODULE StateExchange_proofs -----------------------
(***************************************************************************)
(* Theorems about the co-signing protocol, for every set of conditionals,  *)
(* tasks and fees and whatever the bounds: the type invariant, and that    *)
(* the two sides never sign different states with one sequence number,     *)
(* provided every task locks the channel it proposes on (Forwarded = {})   *)
(* and late requests of the two sides do not cross (~CrossingLate).        *)
(***************************************************************************)
EXTENDS StateExchange, TLAPS

(* The other side of a side of the channel is the other one. *)
LEMMA PeerFacts ==
    \A n \in Node : Peer(n) \in Node /\ Peer(n) # n /\ Peer(Peer(n)) = n
  BY DEF Node, Peer

(* What the proofs use of a state: its sequence number is a natural number. *)
LEMMA SeqnoNat == \A b \in Body : b.seqno \in Nat
  BY DEF Body

(* The tasks' assumptions in the form the proofs use. *)
LEMMA TaskFacts ==
    \A t \in Tasks : /\ t.by \in Node
                     /\ t # Free
                     /\ t.cond \in Conds \cup {NoCond}
                     /\ t.type \in TaskType
                     /\ t.type \in {"add", "commit"} => t.cond \in Conds
  BY ConstantsAssumption

(* The action of a task, or of a revert, is an action. *)
LEMMA ActType ==
    /\ \A t \in Tasks : \A fee \in Nat : TaskAct(t, fee) \in Act
    /\ \A n \in Node : NoAct(n) \in Act
  BY TaskFacts DEF TaskAct, NoAct, Act, TaskType, NoCond

(* What an action does to the sets of conditionals, and that it is a state. *)
LEMMA EffectType ==
    ASSUME NEW a \in Act, NEW b \in Body,
           a.type \in {"add", "commit"} => a.cond \in Conds
    PROVE  Effect(a, b) \in Body
<1>1. /\ b.seqno \in Nat
      /\ b.conds \in SUBSET Conds /\ b.prepaid \in SUBSET Conds
      /\ b.paid \in SUBSET Conds /\ b.swaps \in Nat
      /\ b.fees \in [Node -> Nat]
  BY DEF Body
<1>2. a.by \in Node /\ a.fee \in Nat
  BY DEF Act
<1>3. a.type = "add" => Opened(b, a.cond) \in Body
  BY <1>1 DEF Opened, Body
<1>4. a.type = "commit" => Prepaid(b, a.cond) \in Body
  BY <1>1 DEF Prepaid, Body
<1>5. Removed(b, a.cond) \in Body /\ Executed(b, a.cond) \in Body
  BY <1>1 DEF Removed, Executed, Body
<1>6. Rented(b, a.by, a.fee) \in Body
  BY <1>1, <1>2 DEF Rented, Body
<1>7. Swapped(b) \in Body
  BY <1>1 DEF Swapped, Body
<1>8. QED
  BY <1>3, <1>4, <1>5, <1>6, <1>7 DEF Effect

(* The state built for an action that opens or prepays only known
   conditionals is a state, and its sequence number is the next one. *)
LEMMA NextStateType ==
    ASSUME NEW a \in Act, NEW b \in Body,
           a.type \in {"add", "commit"} => a.cond \in Conds
    PROVE  NextState(a, b) \in Body /\ NextState(a, b).seqno = b.seqno + 1
  BY EffectType, SeqnoNat DEF NextState, Body

(* What an action does to the locked and to the paid conditionals. *)
LEMMA NextStateSets ==
    ASSUME NEW a, NEW b \in Body
    PROVE  /\ NextState(a, b).conds =
                 IF a.type = "add" THEN b.conds \cup {a.cond}
                 ELSE IF a.type \in {"exec", "rem"} THEN b.conds \ {a.cond} ELSE b.conds
           /\ NextState(a, b).paid =
                 IF a.type = "exec" THEN b.paid \cup ({a.cond} \cap b.conds) ELSE b.paid
<1>1. Effect(a, b).conds =
         IF a.type = "add" THEN b.conds \cup {a.cond}
         ELSE IF a.type \in {"exec", "rem"} THEN b.conds \ {a.cond} ELSE b.conds
  BY DEF Effect, Opened, Prepaid, Removed, Executed, Rented, Swapped, Body
<1>2. Effect(a, b).paid =
         IF a.type = "exec" THEN b.paid \cup ({a.cond} \cap b.conds) ELSE b.paid
  BY DEF Effect, Opened, Prepaid, Removed, Executed, Rented, Swapped, Body
<1>3. QED
  BY <1>1, <1>2 DEF NextState

(* What updateOurStateWithAction builds is the old state or its successor. *)
LEMMA OurStateType ==
    ASSUME NEW a \in Act, NEW b \in Body,
           a.type \in {"add", "commit"} => a.cond \in Conds
    PROVE  /\ OurState(a, b) \in Body
           /\ OurState(a, b) = b \/ OurState(a, b).seqno = b.seqno + 1
  BY NextStateType DEF OurState

(* Storing and sending a proposal keeps the types. *)
LEMMA SendType ==
    ASSUME TypeOK, NEW t \in Tasks, NEW a \in Act, Send(t, a),
           a.type \in {"add", "commit"} => a.cond \in Conds
    PROVE  /\ pend' \in [Node -> SUBSET Body]
           /\ ph' \in [Tasks -> Phase]
           /\ prop' \in [Tasks -> Prop]
           /\ q' \in [Tasks -> Query]
<1> DEFINE b == OurState(a, st[t.by])
<1>1. t.by \in Node /\ st[t.by] \in Body
  BY TaskFacts DEF TypeOK
<1>2. b \in Body
  BY <1>1, OurStateType
<1>3. [act |-> a, body |-> b, base |-> st[t.by].seqno] \in Prop
  BY <1>1, <1>2, SeqnoNat DEF Prop
<1>4. /\ prop' = [prop EXCEPT ![t] = [act |-> a, body |-> b, base |-> st[t.by].seqno]]
      /\ pend' = [pend EXCEPT ![t.by] = @ \cup {b}]
      /\ q' = [q EXCEPT ![t] = "sent"]
      /\ ph' = [ph EXCEPT ![t] = "wait"]
  BY DEF Send
<1> HIDE DEF b
<1>5. QED
  BY <1>1, <1>2, <1>3, <1>4 DEF TypeOK, Phase, Query

(* Ending a worker's run of a task, with or without an error, keeps the types. *)
LEMMA EndType ==
    ASSUME TypeOK, NEW t \in Tasks,
           Retry(t) \/ \E r \in Status : End(t, r)
    PROVE  /\ status' \in [Tasks -> Status]
           /\ ph' \in [Tasks -> Phase]
           /\ q' \in [Tasks -> Query]
           /\ mx' \in [Node -> Tasks \cup {Free}]
  BY TaskFacts, SMTT(30) DEF TypeOK, Retry, End, Unlocked, Phase, Query

(* Handling a proposal keeps the types. *)
LEMMA HandleType ==
    ASSUME TypeOK, NEW p \in Node, NEW a, NEW b \in Body, Handle(p, a, b)
    PROVE  st' \in [Node -> Body] /\ seen' \in SUBSET Conds
<1>1. b.conds \in SUBSET Conds
  BY DEF Body
<1>2. CASE Agrees(p, a, b)
  BY <1>1, <1>2 DEF Handle, TypeOK
<1>3. CASE ~Agrees(p, a, b)
  BY <1>3 DEF Handle, TypeOK
<1>4. QED
  BY <1>2, <1>3

(* Every step of the protocol keeps the types. *)
LEMMA TypeStep ==
    ASSUME TypeOK, [Next]_vars
    PROVE  TypeOK'
<1> USE DEF Status
<1>1. CASE \E t \in Tasks : CreateTask(t) \/ Skip(t)
  BY <1>1 DEF TypeOK, CreateTask, Skip
<1>2. CASE \E t \in Tasks : Start(t) \/ LockGranted(t) \/ LockAnswerLost(t)
  BY <1>2, TaskFacts DEF TypeOK, Start, LockGranted, LockAnswerLost, Phase, Node
<1>3. CASE \E t \in Tasks : Propose(t)
  <2>1. PICK t \in Tasks : Propose(t)
    BY <1>3
  <2>2. PICK fee \in (IF t.type = "rent" THEN Fees ELSE {0}) : Send(t, TaskAct(t, fee))
    BY <2>1 DEF Propose
  <2>3. /\ TaskAct(t, fee) \in Act
        /\ TaskAct(t, fee).type \in {"add", "commit"} => TaskAct(t, fee).cond \in Conds
    <3>1. fee \in Nat
      BY <2>2, ConstantsAssumption
    <3>2. QED
      BY <3>1, ActType, TaskFacts DEF TaskAct
  <2>4. QED
    BY <2>1, <2>2, <2>3, SendType DEF TypeOK, Propose
<1>4. CASE \E t \in Tasks : ProposeRevert(t)
  <2>1. PICK t \in Tasks : ProposeRevert(t)
    BY <1>4
  <2>2. NoAct(t.by) \in Act /\ NoAct(t.by).type = "inc"
    BY ActType, TaskFacts DEF NoAct
  <2>3. Send(t, NoAct(t.by))
    BY <2>1 DEF ProposeRevert
  <2>4. QED
    BY <2>1, <2>2, <2>3, SendType DEF TypeOK, ProposeRevert
<1>5. CASE \E t \in Tasks : LockRefused(t) \/ Impossible(t) \/ Finish(t) \/ Busy(t)
  <2>1. PICK t \in Tasks : LockRefused(t) \/ Impossible(t) \/ Finish(t) \/ Busy(t)
    BY <1>5
  <2>2. Retry(t) \/ \E r \in Status : End(t, r)
    BY <2>1 DEF LockRefused, Impossible, Finish, Busy
  <2>3. UNCHANGED <<st, pend, seen, prop, late, age, crashes>>
    BY <2>1 DEF LockRefused, Impossible, Finish, Busy
  <2>4. QED
    BY <2>2, <2>3, EndType DEF TypeOK
<1>6. CASE \E t \in Tasks : Denied(t)
  <2>1. PICK t \in Tasks : Denied(t)
    BY <1>6
  <2>2. CASE Retry(t)
    BY <2>1, <2>2, EndType DEF TypeOK, Denied
  <2>3. CASE ~Retry(t)
    BY <2>1, <2>3 DEF TypeOK, Denied, Phase, Query
  <2>4. QED
    BY <2>2, <2>3
<1>7. CASE \E t \in Tasks : Save(t)
  <2>1. PICK t \in Tasks : Save(t)
    BY <1>7
  <2>2. t.by \in Node /\ prop[t].body \in Body
    BY TaskFacts DEF TypeOK, Prop
  <2>3. CASE st[t.by].seqno = prop[t].base
    <3>1. Cleanup(t.by, prop[t].body) \in SUBSET Body
      BY <2>2 DEF Cleanup, TypeOK
    <3>2. QED
      BY <2>1, <2>2, <2>3, <3>1 DEF TypeOK, Save, Phase, Query
  <2>4. CASE ~(st[t.by].seqno = prop[t].base)
    BY <2>1, <2>4, EndType DEF TypeOK, Save
  <2>5. QED
    BY <2>3, <2>4
<1>8. CASE \E t \in Tasks : Timeout(t)
  <2>1. PICK t \in Tasks : Timeout(t)
    BY <1>8
  <2>2. [task |-> t, act |-> prop[t].act, body |-> prop[t].body] \in Late
    BY DEF TypeOK, Prop, Late
  <2>3. late' \in SUBSET Late
    BY <2>1, <2>2 DEF Timeout, Outlived, TypeOK
  <2>4. QED
    BY <2>1, <2>3, EndType DEF TypeOK, Timeout
<1>9. CASE \E t \in Tasks : Process(t)
  <2>1. PICK t \in Tasks : Process(t)
    BY <1>9
  <2>2. /\ Peer(t.by) \in Node /\ prop[t].body \in Body
        /\ Handle(Peer(t.by), prop[t].act, prop[t].body)
    BY <2>1, TaskFacts, PeerFacts DEF TypeOK, Prop, Process
  <2>3. st' \in [Node -> Body] /\ seen' \in SUBSET Conds
    BY <2>2, HandleType
  <2>4. QED
    BY <2>1, <2>3 DEF TypeOK, Process, Query
<1>10. CASE \E t \in Tasks : Reject(t)
  BY <1>10 DEF TypeOK, Reject, Query
<1>11. CASE \E m \in late : ProcessLate(m)
  <2>1. PICK m \in late : ProcessLate(m)
    BY <1>11
  <2>2. m.task \in Tasks /\ m.body \in Body
    BY DEF TypeOK, Late
  <2>3. Peer(m.task.by) \in Node /\ Handle(Peer(m.task.by), m.act, m.body)
    BY <2>1, <2>2, TaskFacts, PeerFacts DEF ProcessLate
  <2>4. st' \in [Node -> Body] /\ seen' \in SUBSET Conds
    BY <2>2, <2>3, HandleType
  <2>5. QED
    BY <2>1, <2>4 DEF TypeOK, ProcessLate
<1>12. CASE ExternalUnlock
  BY <1>12 DEF TypeOK, ExternalUnlock
<1>13. CASE \E c \in Conds : Tick(c)
  BY <1>13 DEF TypeOK, Tick
<1>14. CASE \E n \in Node : Crash(n)
  BY <1>14 DEF TypeOK, Crash, Phase, Query
<1>15. CASE UNCHANGED vars
  BY <1>15 DEF TypeOK, vars
<1>16. QED
  BY <1>1, <1>2, <1>3, <1>4, <1>5, <1>6, <1>7, <1>8, <1>9, <1>10, <1>11, <1>12,
     <1>13, <1>14, <1>15 DEF Next

(* The initial state has the types. *)
LEMMA TypeInit == Init => TypeOK
<1> SUFFICES ASSUME Init PROVE TypeOK
  OBVIOUS
<1>1. Genesis \in Body
  BY DEF Genesis, Body
<1>2. \A t \in Tasks : [act |-> NoAct(t.by), body |-> Genesis, base |-> 0] \in Prop
  BY <1>1, ActType, TaskFacts DEF Prop
<1>3. QED
  BY <1>1, <1>2 DEF Init, TypeOK, Status, Phase, Query

(* The type invariant holds in every state the protocol can reach. *)
THEOREM TypeCorrect == Spec => []TypeOK
  BY TypeInit, TypeStep, PTL DEF Spec

-----------------------------------------------------------------------------
(* Agreement.  A mutex per side leaves at most one proposal of each side   *)
(* under way, and a side whose own proposal is under way accepts none.     *)

(* What the proofs use of the types of a task and of a late request. *)
LEMMA Facts ==
    ASSUME TypeOK
    PROVE  /\ \A n \in Node : st[n] \in Body /\ st[n].seqno \in Nat
           /\ \A t \in Tasks : /\ t.by \in Node /\ Peer(t.by) \in Node
                               /\ Peer(t.by) # t.by /\ Peer(Peer(t.by)) = t.by
                               /\ prop[t].body \in Body /\ prop[t].body.seqno \in Nat
                               /\ prop[t].base \in Nat
           /\ \A m \in late : m.task \in Tasks /\ m.body \in Body /\ m.body.seqno \in Nat
  BY TaskFacts, PeerFacts, SeqnoNat DEF TypeOK, Prop, Late

(* Two tasks of one side are not run at the same time. *)
LEMMA OneRunner ==
    ASSUME HoldsLock, NEW t \in Tasks, NEW u \in Tasks, t.by = u.by,
           ph[t] # "idle", ph[u] # "idle"
    PROVE  t = u
  BY DEF HoldsLock

(* A side that processes a proposal of the other runs no task of its own. *)
LEMMA ReceiverIdle ==
    ASSUME HoldsLock, NEW t \in Tasks, NEW u \in Tasks, u.by = Peer(t.by),
           CanLock(Peer(t.by), t)
    PROVE  ph[u] = "idle" /\ q[u] = "none"
<1>1. u # t
  BY TaskFacts, PeerFacts
<1>2. u # Free
  BY TaskFacts
<1>3. mx[u.by] # u
  BY <1>1, <1>2 DEF CanLock
<1>4. QED
  BY <1>3 DEF HoldsLock

(* A step that leaves the databases, the proposals and the late requests
   alone, and starts or ends no agreement, keeps the rest of the invariant. *)
LEMMA QuietStep ==
    ASSUME IInv, UNCHANGED <<st, pend, prop, late>>,
           \A u \in Tasks : ph'[u] = "wait" => ph[u] = "wait",
           \A u \in Tasks : q'[u] = "agreed" <=> q[u] = "agreed"
    PROVE  ProposalFresh' /\ OneStep' /\ AgreedSaved' /\ LateHarmless'
<1>1. ProposalFresh'
  BY DEF IInv, ProposalFresh
<1>2. OneStep'
  BY DEF IInv, OneStep, Ahead
<1>3. AgreedSaved'
  BY DEF IInv, AgreedSaved
<1>4. LateHarmless'
  BY DEF IInv, LateHarmless, Superseded
<1>5. QED
  BY <1>1, <1>2, <1>3, <1>4

(* A worker that ends its run, or that just unlocks, leaves the other
   workers with their locks. *)
LEMMA EndHoldsLock ==
    ASSUME TypeOK, HoldsLock, NEW t \in Tasks,
           Retry(t) \/ \E r \in Status : End(t, r)
    PROVE  HoldsLock'
<1>1. /\ ph' = [ph EXCEPT ![t] = "idle"]
      /\ q' = [q EXCEPT ![t] = "none"]
      /\ mx' = [mx EXCEPT ![t.by] = IF @ = t THEN Free ELSE @]
  BY DEF Retry, End, Unlocked
<1>2. SUFFICES ASSUME NEW u \in Tasks
               PROVE  /\ ph'[u] # "idle" => mx'[u.by] = u
                      /\ ph'[u] = "lock" => u.by = "R"
                      /\ q'[u] # "none" => ph'[u] = "wait"
  BY DEF HoldsLock
<1>3. CASE u = t
  BY <1>1, <1>3 DEF TypeOK
<1>4. CASE u # t
  BY <1>1, <1>4, TaskFacts DEF TypeOK, HoldsLock
<1>5. QED
  BY <1>3, <1>4

(* Sending a proposal keeps the invariant. *)
LEMMA SendStep ==
    ASSUME IInv, NEW t \in Tasks, NEW a \in Act, ph[t] \in {"prop", "revert"},
           Send(t, a), UNCHANGED <<st, late, mx>>,
           a.type \in {"add", "commit"} => a.cond \in Conds
    PROVE  HoldsLock' /\ ProposalFresh' /\ OneStep' /\ AgreedSaved' /\ LateHarmless'
<1> DEFINE b == OurState(a, st[t.by])
<1>1. b \in Body /\ (b = st[t.by] \/ b.seqno = st[t.by].seqno + 1)
  BY Facts, OurStateType DEF IInv
<1>2. /\ prop' = [prop EXCEPT ![t] = [act |-> a, body |-> b, base |-> st[t.by].seqno]]
      /\ pend' = [pend EXCEPT ![t.by] = @ \cup {b}]
      /\ q' = [q EXCEPT ![t] = "sent"]
      /\ ph' = [ph EXCEPT ![t] = "wait"]
  BY DEF Send
<1> HIDE DEF b
<1>3. q[t] # "agreed"
  BY DEF IInv, HoldsLock
<1>4. HoldsLock'
  BY <1>2 DEF IInv, HoldsLock, TypeOK
<1>5. \A n \in Node : pend[n] \subseteq pend'[n]
  BY <1>2, Facts DEF IInv, TypeOK
<1>6. ProposalFresh'
  <2>1. SUFFICES ASSUME NEW u \in Tasks, ph'[u] = "wait"
                 PROVE  /\ prop'[u].base = st[u.by].seqno
                        /\ prop'[u].body \in pend'[u.by]
                        /\ \/ prop'[u].body = st[u.by]
                           \/ prop'[u].body.seqno = st[u.by].seqno + 1
    BY DEF ProposalFresh
  <2>2. CASE u = t
    BY <1>1, <1>2, <2>2, Facts DEF IInv, TypeOK
  <2>3. CASE u # t
    BY <1>2, <1>5, <2>1, <2>3, Facts DEF IInv, TypeOK, ProposalFresh
  <2>4. QED
    BY <2>2, <2>3
<1>7. OneStep'
  BY <1>5, PeerFacts DEF IInv, OneStep, Ahead, Node
<1>8. AgreedSaved'
  BY <1>2, <1>3 DEF IInv, AgreedSaved, TypeOK
<1>9. LateHarmless'
  BY <1>2, <1>3, <1>5, Facts DEF IInv, LateHarmless, Superseded, TypeOK
<1>10. QED
  BY <1>4, <1>6, <1>7, <1>8, <1>9

(* The receiving side of a proposal that is the sender's state, its pending
   successor, or old, ends at most one pending state ahead of the sender. *)
LEMMA HandleStep ==
    ASSUME IInv, NEW n \in Node, NEW a, NEW b \in Body,
           Handle(Peer(n), a, b), UNCHANGED pend,
           \/ b = st[n]
           \/ b.seqno = st[n].seqno + 1 /\ b \in pend[n]
           \/ b.seqno <= st[Peer(n)].seqno
    PROVE  /\ st'[n] = st[n]
           /\ \/ st'[Peer(n)] = st[Peer(n)]
              \/ st'[Peer(n)] = b /\ b.seqno = st[Peer(n)].seqno + 1
           /\ Agrees(Peer(n), a, b) => st'[Peer(n)] = b
           /\ OneStep'
<1> DEFINE p == Peer(n)
<1>1. p \in Node /\ p # n /\ Peer(p) = n
  BY PeerFacts
<1>2. st[n].seqno \in Nat /\ st[p].seqno \in Nat /\ b.seqno \in Nat
  BY <1>1, Facts, SeqnoNat DEF IInv
<1>3. st'[n] = st[n]
  BY <1>1 DEF Handle, IInv, TypeOK
<1>4. st[n] = st[p] \/ Ahead(n) \/ Ahead(p)
  BY <1>1 DEF IInv, OneStep, Node
<1>5. CASE ~Agrees(p, a, b)
  BY <1>3, <1>5 DEF Handle, IInv, OneStep, Ahead
<1>6. CASE Agrees(p, a, b) /\ b.seqno = st[p].seqno
  <2>1. b = st[p] /\ st' = [st EXCEPT ![p] = b]
    BY <1>6 DEF Agrees, Handle
  <2>2. st' = st
    BY <1>1, <2>1 DEF IInv, TypeOK
  <2>3. QED
    BY <2>1, <2>2 DEF IInv, OneStep, Ahead
<1>7. CASE Agrees(p, a, b) /\ b.seqno # st[p].seqno
  <2>1. b.seqno = st[p].seqno + 1 /\ st' = [st EXCEPT ![p] = b]
    BY <1>7 DEF Agrees, Handle
  <2>2. st'[p] = b
    BY <1>1, <2>1 DEF IInv, TypeOK
  <2>3. st'[n] = st'[p] \/ Ahead(n)'
    BY <1>1, <1>2, <1>3, <1>4, <2>1, <2>2 DEF Ahead
  <2>4. OneStep'
    BY <1>1, <2>3 DEF OneStep, Node
  <2>5. QED
    BY <1>3, <2>1, <2>2, <2>4
<1>8. QED
  BY <1>5, <1>6, <1>7

(* The party processes a proposal. *)
LEMMA ProcessStep ==
    ASSUME IInv, NEW t \in Tasks, Process(t)
    PROVE  HoldsLock' /\ ProposalFresh' /\ OneStep' /\ AgreedSaved' /\ LateHarmless'
<1> DEFINE n == t.by
           p == Peer(t.by)
           b == prop[t].body
           a == prop[t].act
<1>1. /\ q[t] = "sent" /\ CanLock(p, t) /\ Handle(p, a, b)
      /\ q' = [q EXCEPT ![t] = IF Agrees(p, a, b) THEN "agreed" ELSE "denied"]
      /\ UNCHANGED <<pend, ph, prop, late, mx>>
  BY DEF Process
<1>2. ph[t] = "wait"
  BY <1>1 DEF IInv, HoldsLock
<1>3. /\ n \in Node /\ p \in Node /\ p # n /\ Peer(p) = n
      /\ b \in Body /\ b.seqno \in Nat
      /\ st[n].seqno \in Nat /\ st[p].seqno \in Nat
  BY Facts DEF IInv
<1>4. b = st[n] \/ (b.seqno = st[n].seqno + 1 /\ b \in pend[n])
  BY <1>2 DEF IInv, ProposalFresh
<1>5. /\ st'[n] = st[n]
      /\ st'[p] = st[p] \/ (st'[p] = b /\ b.seqno = st[p].seqno + 1)
      /\ Agrees(p, a, b) => st'[p] = b
      /\ OneStep'
  BY <1>1, <1>3, <1>4, HandleStep
<1>6. ~Agrees(p, a, b) => st'[p] = st[p]
  BY <1>1 DEF Handle
<1>7. \A u \in Tasks : u.by = p => ph[u] = "idle" /\ q[u] = "none"
  BY <1>1, ReceiverIdle DEF IInv
<1>8. \A u \in Tasks : u.by = n \/ u.by = p
  BY <1>3, TaskFacts DEF Node
<1> HIDE DEF n, p, b, a
<1>9. HoldsLock'
  BY <1>1, <1>2 DEF IInv, HoldsLock, TypeOK
<1>10. ProposalFresh'
  BY <1>1, <1>5, <1>7, <1>8 DEF IInv, ProposalFresh
<1>11. \A u \in Tasks : u # t => q[u] # "agreed"
  <2>1. SUFFICES ASSUME NEW u \in Tasks, q[u] = "agreed"
                 PROVE  u = t
    OBVIOUS
  <2>2. u.by = n /\ ph[u] = "wait"
    BY <1>7, <1>8, <2>1 DEF IInv, HoldsLock
  <2>3. QED
    BY <1>2, <2>2, OneRunner DEF IInv, n
<1>12. AgreedSaved'
  <2>1. \A u \in Tasks : q'[u] = "agreed" => u = t /\ Agrees(p, a, b)
    BY <1>1, <1>11 DEF IInv, TypeOK
  <2>2. QED
    BY <1>1, <1>5, <2>1 DEF AgreedSaved, b, p
<1>13. LateHarmless'
  <2>1. SUFFICES ASSUME NEW m \in late
                 PROVE  \/ /\ m.body.seqno = st'[m.task.by].seqno + 1
                           /\ m.body \in pend[m.task.by]
                        \/ /\ m.body.seqno <= st'[m.task.by].seqno
                           /\ Superseded(m)'
    BY <1>1 DEF IInv, LateHarmless
  <2>2. m.task \in Tasks /\ m.body.seqno \in Nat
    BY Facts DEF IInv
  <2>3. \/ m.body.seqno = st[m.task.by].seqno + 1 /\ m.body \in pend[m.task.by]
        \/ m.body.seqno <= st[m.task.by].seqno /\ Superseded(m)
    BY DEF IInv, LateHarmless
  <2>4. Superseded(m) => \/ m.body = st[m.task.by]
                         \/ m.body.seqno <= st[Peer(m.task.by)].seqno
    BY <1>11, <1>1 DEF Superseded
  <2>5. CASE m.task.by = n
    <3>1. Peer(m.task.by) = p /\ st'[p].seqno \in Nat /\ st[p].seqno <= st'[p].seqno
      BY <1>3, <1>5, <2>5 DEF n, p
    <3>2. QED
      BY <1>3, <1>5, <2>2, <2>3, <2>4, <2>5, <3>1 DEF Superseded
  <2>6. CASE m.task.by = p /\ st'[p] = st[p]
    BY <1>3, <1>5, <2>3, <2>4, <2>6 DEF Superseded
  <2>7. CASE m.task.by = p /\ st'[p] # st[p]
    <3>1. q'[t] = "agreed" /\ prop'[t].body = st'[p]
      BY <1>1, <1>5, <1>6, <2>7 DEF IInv, TypeOK, b
    <3>2. Superseded(m)'
      BY <1>1, <1>3, <2>7, <3>1 DEF Superseded, n
    <3>3. m.body.seqno <= st'[p].seqno
      BY <1>3, <1>5, <2>2, <2>3, <2>7
    <3>4. QED
      BY <2>7, <3>2, <3>3
  <2>8. QED
    BY <1>8, <2>2, <2>5, <2>6, <2>7
<1>14. QED
  BY <1>5, <1>9, <1>10, <1>12, <1>13

(* The party processes a request whose sender no longer waits for it. *)
LEMMA ProcessLateStep ==
    ASSUME IInv, NEW m \in late, ProcessLate(m)
    PROVE  HoldsLock' /\ ProposalFresh' /\ OneStep' /\ AgreedSaved' /\ LateHarmless'
<1> DEFINE n == m.task.by
           p == Peer(m.task.by)
<1>1. /\ CanLock(p, m.task) /\ Handle(p, m.act, m.body) /\ late' = late \ {m}
      /\ UNCHANGED <<pend, ph, prop, q, mx>>
  BY DEF ProcessLate
<1>2. /\ m.task \in Tasks /\ m.body \in Body /\ m.body.seqno \in Nat
      /\ n \in Node /\ p \in Node /\ p # n
      /\ st[n].seqno \in Nat /\ st[p].seqno \in Nat
  BY Facts DEF IInv
<1>3. \A u \in Tasks : u.by = p => ph[u] = "idle" /\ q[u] = "none"
  BY <1>1, <1>2, ReceiverIdle DEF IInv
<1>4. \/ m.body = st[n]
      \/ m.body.seqno = st[n].seqno + 1 /\ m.body \in pend[n]
      \/ m.body.seqno <= st[p].seqno
  BY <1>3 DEF IInv, LateHarmless, Superseded
<1>5. /\ st'[n] = st[n]
      /\ st'[p] = st[p] \/ (st'[p] = m.body /\ m.body.seqno = st[p].seqno + 1)
      /\ OneStep'
  BY <1>1, <1>2, <1>4, HandleStep
<1>6. \A u \in Tasks : u.by = n \/ u.by = p
  BY <1>2, TaskFacts DEF Node
<1> HIDE DEF n, p
<1>7. HoldsLock'
  BY <1>1 DEF IInv, HoldsLock
<1>8. ProposalFresh'
  BY <1>1, <1>3, <1>5, <1>6 DEF IInv, ProposalFresh
<1>9. AgreedSaved'
  <2>1. SUFFICES ASSUME NEW u \in Tasks, q[u] = "agreed"
                 PROVE  prop[u].body = st'[u.by] \/ prop[u].body = st'[Peer(u.by)]
    BY <1>1 DEF IInv, AgreedSaved
  <2>2. u.by = n /\ ph[u] = "wait" /\ Peer(u.by) = p
    BY <1>3, <1>6, <2>1 DEF IInv, HoldsLock, n, p
  <2>3. /\ prop[u].body = st[n] \/ prop[u].body = st[p]
        /\ prop[u].body = st[n] \/ prop[u].body.seqno = st[n].seqno + 1
    BY <2>1, <2>2 DEF IInv, AgreedSaved, ProposalFresh
  <2>4. CASE st'[p] = st[p]
    BY <1>5, <2>2, <2>3, <2>4
  <2>5. CASE m.body.seqno = st[p].seqno + 1
    BY <1>2, <1>4, <1>5, <2>2, <2>3, <2>5
  <2>6. QED
    BY <1>5, <2>4, <2>5
<1>10. LateHarmless'
  <2>1. late' = {}
    BY <1>1 DEF IInv, LateHarmless
  <2>2. QED
    BY <2>1 DEF LateHarmless
<1>11. QED
  BY <1>5, <1>7, <1>8, <1>9, <1>10

(* The proposer saves the agreed state.  Its channel record is never found
   changed: the version check of the database has nothing to catch here. *)
LEMMA SaveStep ==
    ASSUME IInv, NEW t \in Tasks, Save(t)
    PROVE  HoldsLock' /\ ProposalFresh' /\ OneStep' /\ AgreedSaved' /\ LateHarmless'
<1> DEFINE n == t.by
           p == Peer(t.by)
           b == prop[t].body
<1>1. q[t] = "agreed" /\ ph[t] = "wait"
  BY DEF Save, IInv, HoldsLock
<1>2. /\ n \in Node /\ p \in Node /\ p # n /\ Peer(p) = n /\ Peer(n) = p
      /\ b \in Body /\ b.seqno \in Nat
      /\ st[n].seqno \in Nat /\ st[p].seqno \in Nat
  BY Facts DEF IInv
<1>3. /\ prop[t].base = st[n].seqno
      /\ b = st[n] \/ b.seqno = st[n].seqno + 1
      /\ b = st[n] \/ b = st[p]
  BY <1>1 DEF IInv, ProposalFresh, AgreedSaved
<1>4. /\ st' = [st EXCEPT ![n] = b]
      /\ pend' = [pend EXCEPT ![n] = Cleanup(n, b)]
      /\ ph' = [ph EXCEPT ![t] = "saved"]
      /\ q' = [q EXCEPT ![t] = "none"]
      /\ UNCHANGED <<mx, prop, late>>
  BY <1>3 DEF Save
<1>5. /\ st'[n] = b /\ st'[p] = st[p] /\ pend'[p] = pend[p]
      /\ \A x \in pend[n] : x.seqno = b.seqno + 1 => x \in pend'[n]
  <2>1. \A x \in pend[n] : x.seqno = b.seqno + 1 => x \in Cleanup(n, b)
    BY <1>2 DEF Cleanup
  <2>2. QED
    BY <1>2, <1>4, <2>1 DEF IInv, TypeOK
<1>6. \A u \in Tasks : u.by = n \/ u.by = p
  BY <1>2, TaskFacts DEF Node
<1>7. \A u \in Tasks : q[u] = "agreed" => u = t
  BY <1>1 DEF IInv, AgreedSaved
<1> HIDE DEF n, p, b
<1>8. HoldsLock'
  BY <1>1, <1>4 DEF IInv, HoldsLock, TypeOK
<1>9. ProposalFresh'
  <2>1. SUFFICES ASSUME NEW u \in Tasks, ph'[u] = "wait"
                 PROVE  /\ prop[u].base = st'[u.by].seqno
                        /\ prop[u].body \in pend'[u.by]
                        /\ \/ prop[u].body = st'[u.by]
                           \/ prop[u].body.seqno = st'[u.by].seqno + 1
    BY <1>4 DEF ProposalFresh
  <2>2. u # t /\ ph[u] = "wait"
    BY <1>4, <2>1 DEF IInv, TypeOK
  <2>3. u.by = p
    BY <1>1, <1>6, <2>2, OneRunner DEF IInv, n
  <2>4. QED
    BY <1>5, <2>2, <2>3 DEF IInv, ProposalFresh
<1>10. OneStep'
  <2>1. st[n] = st[p] \/ Ahead(n) \/ Ahead(p)
    BY <1>2 DEF IInv, OneStep, Node
  <2>2. st'[n] = st'[p] \/ Ahead(n)' \/ Ahead(p)'
    BY <1>2, <1>3, <1>5, <2>1 DEF Ahead
  <2>3. QED
    BY <1>2, <2>2 DEF OneStep, Node
<1>11. AgreedSaved'
  BY <1>4, <1>7 DEF AgreedSaved, IInv, TypeOK
<1>12. LateHarmless'
  <2>1. SUFFICES ASSUME NEW m \in late
                 PROVE  \/ /\ m.body.seqno = st'[m.task.by].seqno + 1
                           /\ m.body \in pend'[m.task.by]
                        \/ /\ m.body.seqno <= st'[m.task.by].seqno
                           /\ Superseded(m)'
    BY <1>4 DEF IInv, LateHarmless
  <2>2. m.task \in Tasks /\ m.body.seqno \in Nat
    BY Facts DEF IInv
  <2>3. \/ m.body.seqno = st[m.task.by].seqno + 1 /\ m.body \in pend[m.task.by]
        \/ m.body.seqno <= st[m.task.by].seqno /\ Superseded(m)
    BY DEF IInv, LateHarmless
  <2>4. CASE m.task.by = n
    <3>1. Superseded(m) => m.body = st[n] \/ m.body.seqno <= st[p].seqno
      BY <1>2, <1>7, <2>4 DEF Superseded, n
    <3>2. CASE b = st[n]
      BY <1>2, <1>5, <2>2, <2>3, <2>4, <3>1, <3>2 DEF Superseded
    <3>3. CASE b = st[p] /\ b.seqno = st[n].seqno + 1
      BY <1>2, <1>5, <2>2, <2>3, <2>4, <3>3 DEF Superseded
    <3>4. QED
      BY <1>3, <3>2, <3>3
  <2>5. CASE m.task.by = p
    <3>1. Superseded(m) => \/ m.body = st[p]
                           \/ m.body.seqno <= st[n].seqno
                           \/ b = st[p]
      BY <1>2, <1>7, <2>5 DEF Superseded, b
    <3>2. QED
      BY <1>2, <1>3, <1>5, <2>2, <2>3, <2>5, <3>1 DEF Superseded
  <2>6. QED
    BY <1>6, <2>2, <2>4, <2>5
<1>13. QED
  BY <1>8, <1>9, <1>10, <1>11, <1>12

(* A query times out; its request may still arrive. *)
LEMMA TimeoutStep ==
    ASSUME ~CrossingLate, IInv, NEW t \in Tasks, Timeout(t)
    PROVE  HoldsLock' /\ ProposalFresh' /\ OneStep' /\ AgreedSaved' /\ LateHarmless'
<1> DEFINE r == [task |-> t, act |-> prop[t].act, body |-> prop[t].body]
<1>1. /\ q[t] # "none" /\ Retry(t)
      /\ late' = {} \/ late' = {r}
      /\ UNCHANGED <<st, pend, prop>>
  BY DEF Timeout, Outlived
<1>2. /\ ph' = [ph EXCEPT ![t] = "idle"]
      /\ q' = [q EXCEPT ![t] = "none"]
  BY <1>1 DEF Retry
<1>3. HoldsLock'
  BY <1>1, EndHoldsLock DEF IInv
<1>4. ProposalFresh'
  BY <1>1, <1>2 DEF IInv, ProposalFresh, TypeOK
<1>5. OneStep'
  BY <1>1 DEF IInv, OneStep, Ahead
<1>6. AgreedSaved'
  BY <1>1, <1>2 DEF IInv, AgreedSaved, TypeOK
<1>7. r.task = t /\ r.body = prop[t].body
  OBVIOUS
<1>8. \/ r.body.seqno = st[t.by].seqno + 1 /\ r.body \in pend[t.by]
      \/ r.body.seqno <= st[t.by].seqno /\ r.body = st[t.by]
  BY <1>1, <1>7, Facts DEF IInv, HoldsLock, ProposalFresh
<1> HIDE DEF r
<1>9. LateHarmless'
  BY <1>1, <1>7, <1>8 DEF LateHarmless, Superseded
<1>10. QED
  BY <1>3, <1>4, <1>5, <1>6, <1>9

(* A node restarts. *)
LEMMA CrashStep ==
    ASSUME IInv, NEW n \in Node, Crash(n)
    PROVE  HoldsLock' /\ ProposalFresh' /\ OneStep' /\ AgreedSaved' /\ LateHarmless'
<1>1. /\ ph' = [t \in Tasks |-> IF t.by = n THEN "idle" ELSE ph[t]]
      /\ q' = [t \in Tasks |-> IF t.by = n THEN "none" ELSE q[t]]
      /\ mx' = [mx EXCEPT ![n] = Free]
      /\ late' = {}
      /\ UNCHANGED <<st, pend, prop>>
  BY DEF Crash
<1>2. HoldsLock'
  BY <1>1, TaskFacts DEF IInv, HoldsLock, TypeOK
<1>3. ProposalFresh'
  BY <1>1 DEF IInv, ProposalFresh
<1>4. OneStep'
  BY <1>1 DEF IInv, OneStep, Ahead
<1>5. AgreedSaved'
  BY <1>1 DEF IInv, AgreedSaved
<1>6. LateHarmless'
  BY <1>1 DEF LateHarmless
<1>7. QED
  BY <1>2, <1>3, <1>4, <1>5, <1>6

(* Every step keeps the inductive invariant, if no task locks another channel
   than the one it proposes on and no late requests cross. *)
LEMMA InductiveStep ==
    ASSUME Forwarded = {}, ~CrossingLate, IInv, [Next]_vars
    PROVE  IInv'
<1>1. TypeOK /\ HoldsLock
  BY DEF IInv
<1>2. TypeOK'
  BY <1>1, TypeStep
<1>3. SUFFICES HoldsLock' /\ ProposalFresh' /\ OneStep' /\ AgreedSaved' /\ LateHarmless'
  BY <1>2 DEF IInv
<1>4. CASE \E t \in Tasks : CreateTask(t) \/ Skip(t)
  <2>1. UNCHANGED <<st, pend, prop, late, ph, q, mx>>
    BY <1>4 DEF CreateTask, Skip
  <2>2. HoldsLock'
    BY <1>1, <2>1 DEF HoldsLock
  <2>3. QED
    BY <2>1, <2>2, QuietStep
<1>5. CASE \E t \in Tasks : Start(t)
  <2>1. PICK t \in Tasks : Start(t)
    BY <1>5
  <2>2. /\ mx[t.by] = Free /\ ph[t] = "idle"
        /\ mx' = [mx EXCEPT ![t.by] = t]
        /\ ph' = [ph EXCEPT ![t] = IF t.by = "L" THEN "prop" ELSE "lock"]
        /\ UNCHANGED <<st, pend, prop, late, q>>
    BY <2>1 DEF Start, LocksOther
  <2>3. HoldsLock'
    BY <1>1, <2>2, TaskFacts DEF HoldsLock, TypeOK, Node
  <2>4. \A u \in Tasks : ph'[u] = "wait" => ph[u] = "wait"
    BY <1>1, <2>2 DEF TypeOK
  <2>5. QED
    BY <2>2, <2>3, <2>4, QuietStep
<1>6. CASE \E t \in Tasks : LockGranted(t) \/ LockAnswerLost(t)
  <2>1. PICK t \in Tasks : LockGranted(t) \/ LockAnswerLost(t)
    BY <1>6
  <2>2. /\ ph[t] = "lock" /\ mx["L"] = Free
        /\ \/ mx' = [mx EXCEPT !["L"] = t] /\ ph' = [ph EXCEPT ![t] = "prop"]
           \/ /\ mx' = [mx EXCEPT !["L"] = t, !["R"] = Free]
              /\ ph' = [ph EXCEPT ![t] = "idle"]
        /\ UNCHANGED <<st, pend, prop, late, q>>
    BY <2>1 DEF LockGranted, LockAnswerLost
  <2>3. t.by = "R" /\ mx["R"] = t /\ q[t] = "none"
    BY <1>1, <2>2 DEF HoldsLock
  <2>4. HoldsLock'
    BY <1>1, <2>2, <2>3, TaskFacts DEF HoldsLock, TypeOK, Node
  <2>5. \A u \in Tasks : ph'[u] = "wait" => ph[u] = "wait"
    BY <1>1, <2>2 DEF TypeOK
  <2>6. QED
    BY <2>2, <2>4, <2>5, QuietStep
<1>7. CASE \E t \in Tasks : LockRefused(t) \/ Impossible(t) \/ Finish(t) \/ Busy(t)
  <2>1. PICK t \in Tasks : LockRefused(t) \/ Impossible(t) \/ Finish(t) \/ Busy(t)
    BY <1>7
  <2>2. /\ Retry(t) \/ \E r \in Status : End(t, r)
        /\ UNCHANGED <<st, pend, prop, late>>
        /\ ph[t] \in {"lock", "prop", "saved"} \/ q[t] = "busy"
    BY <2>1 DEF LockRefused, Impossible, Finish, Busy, Status
  <2>3. HoldsLock'
    BY <1>1, <2>2, EndHoldsLock
  <2>4. q[t] # "agreed"
    BY <1>1, <2>2 DEF HoldsLock
  <2>5. ph' = [ph EXCEPT ![t] = "idle"] /\ q' = [q EXCEPT ![t] = "none"]
    BY <2>2 DEF Retry, End
  <2>6. \A u \in Tasks : /\ ph'[u] = "wait" => ph[u] = "wait"
                         /\ q'[u] = "agreed" <=> q[u] = "agreed"
    BY <1>1, <2>4, <2>5 DEF TypeOK
  <2>7. QED
    BY <2>2, <2>3, <2>6, QuietStep
<1>8. CASE \E t \in Tasks : Denied(t)
  <2>1. PICK t \in Tasks : Denied(t)
    BY <1>8
  <2>2. q[t] = "denied" /\ UNCHANGED <<st, pend, prop, late>>
    BY <2>1 DEF Denied
  <2>3. CASE Retry(t)
    <3>1. ph' = [ph EXCEPT ![t] = "idle"] /\ q' = [q EXCEPT ![t] = "none"]
      BY <2>3 DEF Retry
    <3>2. \A u \in Tasks : /\ ph'[u] = "wait" => ph[u] = "wait"
                           /\ q'[u] = "agreed" <=> q[u] = "agreed"
      BY <1>1, <2>2, <3>1 DEF TypeOK
    <3>3. QED
      BY <1>1, <2>2, <2>3, <3>2, EndHoldsLock, QuietStep
  <2>4. CASE ~Retry(t)
    <3>1. /\ ph' = [ph EXCEPT ![t] = "revert"] /\ q' = [q EXCEPT ![t] = "none"]
          /\ UNCHANGED mx
      BY <2>1, <2>4 DEF Denied
    <3>2. \A u \in Tasks : /\ ph'[u] = "wait" => ph[u] = "wait"
                           /\ q'[u] = "agreed" <=> q[u] = "agreed"
      BY <1>1, <2>2, <3>1 DEF TypeOK
    <3>3. HoldsLock'
      BY <1>1, <2>2, <3>1 DEF HoldsLock, TypeOK
    <3>4. QED
      BY <2>2, <3>2, <3>3, QuietStep
  <2>5. QED
    BY <2>3, <2>4
<1>9. CASE \E t \in Tasks : Reject(t)
  <2>1. PICK t \in Tasks : Reject(t)
    BY <1>9
  <2>2. /\ q[t] = "sent"
        /\ q' = [q EXCEPT ![t] = "busy"] \/ q' = [q EXCEPT ![t] = "denied"]
        /\ UNCHANGED <<st, pend, prop, late, ph, mx>>
    BY <2>1 DEF Reject
  <2>3. \A u \in Tasks : q'[u] = "agreed" <=> q[u] = "agreed"
    BY <1>1, <2>2 DEF TypeOK
  <2>4. HoldsLock'
    BY <1>1, <2>2 DEF HoldsLock, TypeOK
  <2>5. QED
    BY <2>2, <2>3, <2>4, QuietStep
<1>10. CASE ExternalUnlock
  <2>1. HoldsLock'
    BY <1>1, <1>10 DEF ExternalUnlock, HoldsLock, TypeOK
  <2>2. QED
    BY <1>10, <2>1, QuietStep DEF ExternalUnlock
<1>11. CASE (\E c \in Conds : Tick(c)) \/ UNCHANGED vars
  <2>1. UNCHANGED <<st, pend, prop, late, ph, q, mx>>
    BY <1>11 DEF Tick, vars
  <2>2. HoldsLock'
    BY <1>1, <2>1 DEF HoldsLock
  <2>3. QED
    BY <2>1, <2>2, QuietStep
<1>12. CASE \E t \in Tasks : Propose(t)
  <2>1. PICK t \in Tasks : Propose(t)
    BY <1>12
  <2>2. PICK fee \in (IF t.type = "rent" THEN Fees ELSE {0}) : Send(t, TaskAct(t, fee))
    BY <2>1 DEF Propose
  <2>3. fee \in Nat
    BY <2>2, ConstantsAssumption
  <2>4. /\ TaskAct(t, fee) \in Act
        /\ TaskAct(t, fee).type \in {"add", "commit"} => TaskAct(t, fee).cond \in Conds
    BY <2>3, ActType, TaskFacts DEF TaskAct
  <2>5. QED
    BY <2>1, <2>2, <2>4, SendStep DEF Propose
<1>13. CASE \E t \in Tasks : ProposeRevert(t)
  <2>1. PICK t \in Tasks : ProposeRevert(t)
    BY <1>13
  <2>2. NoAct(t.by) \in Act /\ NoAct(t.by).type = "inc"
    BY ActType, TaskFacts DEF NoAct
  <2>3. QED
    BY <2>1, <2>2, SendStep DEF ProposeRevert
<1>14. CASE \E t \in Tasks : Save(t) \/ Timeout(t) \/ Process(t)
  BY <1>14, SaveStep, TimeoutStep, ProcessStep
<1>15. CASE (\E m \in late : ProcessLate(m)) \/ (\E n \in Node : Crash(n))
  BY <1>15, ProcessLateStep, CrashStep
<1>16. QED
  BY <1>4, <1>5, <1>6, <1>7, <1>8, <1>9, <1>10, <1>11, <1>12, <1>13, <1>14, <1>15
  DEF Next

(* The initial state satisfies the inductive invariant. *)
LEMMA InductiveInit == Init => IInv
<1> SUFFICES ASSUME Init PROVE IInv
  OBVIOUS
<1>1. TypeOK
  BY TypeInit
<1>2. HoldsLock /\ ProposalFresh /\ AgreedSaved /\ LateHarmless
  BY DEF Init, HoldsLock, ProposalFresh, AgreedSaved, LateHarmless
<1>3. OneStep
  BY DEF Init, OneStep, Node
<1>4. QED
  BY <1>1, <1>2, <1>3 DEF IInv

(* The inductive invariant gives the two properties of the databases. *)
LEMMA InvariantImplies == IInv => Agreement /\ Recoverable
<1> SUFFICES ASSUME IInv PROVE Agreement /\ Recoverable
  OBVIOUS
<1>1. st["L"].seqno \in Nat /\ st["R"].seqno \in Nat
  BY Facts DEF IInv, Node
<1>2. QED
  BY <1>1 DEF IInv, OneStep, Ahead, Agreement, Recoverable, Node, Peer

(* The protocol keeps its inductive invariant. *)
THEOREM Inductive ==
    ASSUME Forwarded = {}, ~CrossingLate
    PROVE  Spec => []IInv
<1>1. IInv /\ [Next]_vars => IInv'
  BY InductiveStep
<1>2. QED
  BY InductiveInit, <1>1, PTL DEF Spec

(* The two sides never hold different fully signed states with one sequence
   number: no interleaving of proposals, lost answers, late requests, lock
   expiries and restarts makes proposeAction and ProcessAction diverge. *)
THEOREM AgreementHolds ==
    ASSUME Forwarded = {}, ~CrossingLate
    PROVE  Spec => []Agreement
  BY Inductive, InvariantImplies, PTL

(* A side that is behind has the other's state among its pending states: what
   SaveChannelPendingState keeps is enough to recover from the blockchain. *)
THEOREM RecoverableHolds ==
    ASSUME Forwarded = {}, ~CrossingLate
    PROVE  Spec => []Recoverable
  BY Inductive, InvariantImplies, PTL

-----------------------------------------------------------------------------
(* Settlement.  A key is used once, so a conditional never comes back.     *)

(* How a side's state may change: it takes over the other side's state, or
   accepts an action that it finds acceptable. *)
LEMMA StateChange ==
    ASSUME IInv, [Next]_vars, NEW n \in Node
    PROVE  /\ seen \subseteq seen'
           /\ \/ st'[n] = st[n]
              \/ st'[n] = st[Peer(n)]
              \/ \E a : /\ Accepts(a, st[n]) /\ st'[n] = NextState(a, st[n])
                        /\ seen' = seen \cup (IF a.type = "add"
                                              THEN st'[n].conds \ st[n].conds ELSE {})
<1>1. TypeOK
  BY DEF IInv
<1>2. ASSUME NEW p \in Node, NEW a, NEW b \in Body, Handle(p, a, b)
      PROVE  /\ seen \subseteq seen'
             /\ \/ st'[n] = st[n]
                \/ \E e : /\ Accepts(e, st[n]) /\ st'[n] = NextState(e, st[n])
                          /\ seen' = seen \cup (IF e.type = "add"
                                                THEN st'[n].conds \ st[n].conds ELSE {})
  <2>1. CASE ~Agrees(p, a, b) \/ n # p
    BY <1>1, <1>2, <2>1 DEF Handle, TypeOK
  <2>2. CASE Agrees(p, a, b) /\ n = p
    <3>1. st'[n] = b /\ seen' = seen \cup (IF a.type = "add" THEN b.conds \ st[n].conds ELSE {})
      BY <1>1, <1>2, <2>2 DEF Handle, TypeOK
    <3>2. b = st[n] \/ (Accepts(a, st[n]) /\ b = NextState(a, st[n]))
      BY <2>2 DEF Agrees
    <3>3. QED
      BY <3>1, <3>2
  <2>3. QED
    BY <2>1, <2>2
<1>3. CASE \E t \in Tasks : Process(t)
  <2>1. PICK t \in Tasks : Handle(Peer(t.by), prop[t].act, prop[t].body)
    BY <1>3 DEF Process
  <2>2. Peer(t.by) \in Node /\ prop[t].body \in Body
    BY <1>1, Facts
  <2>3. QED
    BY <1>2, <2>1, <2>2
<1>4. CASE \E m \in late : ProcessLate(m)
  <2>1. PICK m \in late : Handle(Peer(m.task.by), m.act, m.body)
    BY <1>4 DEF ProcessLate
  <2>2. Peer(m.task.by) \in Node /\ m.body \in Body
    BY <1>1, Facts
  <2>3. QED
    BY <1>2, <2>1, <2>2
<1>5. CASE \E t \in Tasks : Save(t)
  <2>1. PICK t \in Tasks : Save(t)
    BY <1>5
  <2>2. t.by \in Node /\ Peer(t.by) \in Node
    BY <1>1, Facts
  <2>3. prop[t].body = st[t.by] \/ prop[t].body = st[Peer(t.by)]
    BY <2>1 DEF Save, IInv, AgreedSaved
  <2>4. seen' = seen /\ (st' = st \/ st' = [st EXCEPT ![t.by] = prop[t].body])
    BY <2>1 DEF Save, Retry
  <2>5. QED
    BY <1>1, <2>2, <2>3, <2>4 DEF TypeOK
<1>6. CASE UNCHANGED <<st, seen>>
  BY <1>6
<1>7. ASSUME NEW t \in Tasks,
             CreateTask(t) \/ Start(t) \/ Skip(t) \/ LockGranted(t) \/ LockAnswerLost(t)
               \/ LockRefused(t) \/ Propose(t) \/ Impossible(t) \/ ProposeRevert(t)
               \/ Finish(t) \/ Denied(t) \/ Busy(t) \/ Timeout(t) \/ Reject(t)
      PROVE  UNCHANGED <<st, seen>>
  BY <1>7 DEF CreateTask, Start, Skip, LockGranted, LockAnswerLost, LockRefused, Propose,
     Impossible, ProposeRevert, Finish, Denied, Busy, Timeout, Reject
<1>8. CASE ExternalUnlock \/ (\E c \in Conds : Tick(c)) \/ (\E k \in Node : Crash(k))
             \/ UNCHANGED vars
  BY <1>6, <1>8 DEF ExternalUnlock, Tick, Crash, vars
<1>9. QED
  BY <1>3, <1>4, <1>5, <1>6, <1>7, <1>8 DEF Next

(* An acceptable action opens no conditional that was ever paid. *)
LEMMA SettledStep ==
    ASSUME IInv, KeysUsed, SettledOnce, [Next]_vars
    PROVE  KeysUsed' /\ SettledOnce'
<1> SUFFICES ASSUME NEW n \in Node
             PROVE  /\ st'[n].conds \cup st'[n].paid \subseteq seen'
                    /\ st'[n].conds \cap st'[n].paid = {}
  BY DEF KeysUsed, SettledOnce
<1>1. /\ st[n].conds \cup st[n].paid \subseteq seen
      /\ st[n].conds \cap st[n].paid = {}
      /\ st[Peer(n)].conds \cup st[Peer(n)].paid \subseteq seen
      /\ st[Peer(n)].conds \cap st[Peer(n)].paid = {}
      /\ seen \subseteq seen'
  BY PeerFacts, StateChange DEF KeysUsed, SettledOnce
<1>2. CASE st'[n] = st[n] \/ st'[n] = st[Peer(n)]
  BY <1>1, <1>2
<1>3. ASSUME NEW a, Accepts(a, st[n]), st'[n] = NextState(a, st[n]),
             seen' = seen \cup (IF a.type = "add"
                                THEN st'[n].conds \ st[n].conds ELSE {})
      PROVE  /\ st'[n].conds \cup st'[n].paid \subseteq seen'
             /\ st'[n].conds \cap st'[n].paid = {}
  <2>0. st[n] \in Body
    BY DEF IInv, TypeOK
  <2>1. /\ st'[n].conds = IF a.type = "add" THEN st[n].conds \cup {a.cond}
                          ELSE IF a.type \in {"exec", "rem"} THEN st[n].conds \ {a.cond}
                          ELSE st[n].conds
        /\ st'[n].paid = IF a.type = "exec" THEN st[n].paid \cup ({a.cond} \cap st[n].conds)
                         ELSE st[n].paid
    BY <1>3, <2>0, NextStateSets, ZenonT(60)
  <2>2. a.type = "add" => a.cond \in st[n].conds \/ a.cond \notin seen
    BY <1>3 DEF Accepts, AcceptsAdd
  <2>3. CASE a.type = "add"
    BY <1>1, <1>3, <2>1, <2>2, <2>3
  <2>4. CASE a.type = "exec"
    BY <1>1, <1>3, <2>1, <2>4
  <2>5. CASE a.type \notin {"add", "exec"}
    BY <1>1, <1>3, <2>1, <2>5
  <2>6. QED
    BY <2>3, <2>4, <2>5
<1>4. QED
  BY <1>2, <1>3, StateChange

(* A conditional that was executed is never locked in the state again, however
   often the task that opened it is run: the key check of ProcessAction and the
   agreement of the two databases together make settlement final. *)
THEOREM SettledOnceHolds ==
    ASSUME Forwarded = {}, ~CrossingLate
    PROVE  Spec => []SettledOnce
<1>1. Init => KeysUsed /\ SettledOnce
  BY DEF Init, KeysUsed, SettledOnce, Genesis
<1>2. IInv /\ KeysUsed /\ SettledOnce /\ [Next]_vars => (KeysUsed /\ SettledOnce)'
  BY SettledStep
<1>3. QED
  BY Inductive, <1>1, <1>2, PTL DEF Spec

-----------------------------------------------------------------------------
(* Atomicity.  The latest of the two states moves by one action of the     *)
(* abstract channel, when the party accepts it; saving it is a stutter.    *)

(* What was proposed is the successor of the proposer's state by the action
   sent along, and is not the execution of a conditional that is not there. *)
Built(a, b, s) ==
    b.seqno = s.seqno + 1 =>
        b = NextState(a, s) /\ (a.type = "exec" => a.cond \in s.conds)

BuiltOn ==
    /\ \A t \in Tasks : ph[t] = "wait" => Built(prop[t].act, prop[t].body, st[t.by])
    /\ \A m \in late : Built(m.act, m.body, st[m.task.by])

(* A side's state changes only to one with the next sequence number. *)
LEMMA SeqnoGrows ==
    ASSUME IInv, [Next]_vars, NEW n \in Node
    PROVE  st'[n] = st[n] \/ st'[n].seqno = st[n].seqno + 1
<1>1. TypeOK
  BY DEF IInv
<1>2. ASSUME NEW p \in Node, NEW a, NEW b \in Body, Handle(p, a, b)
      PROVE  st'[n] = st[n] \/ st'[n].seqno = st[n].seqno + 1
  BY <1>1, <1>2 DEF Handle, Agrees, TypeOK
<1>3. CASE \E t \in Tasks : Process(t)
  BY <1>1, <1>2, <1>3, Facts DEF Process
<1>4. CASE \E m \in late : ProcessLate(m)
  BY <1>1, <1>2, <1>4, Facts DEF ProcessLate
<1>5. CASE \E t \in Tasks : Save(t)
  <2>1. PICK t \in Tasks : Save(t)
    BY <1>5
  <2>2. prop[t].body = st[t.by] \/ prop[t].body.seqno = st[t.by].seqno + 1
    BY <2>1 DEF Save, IInv, HoldsLock, ProposalFresh
  <2>3. st' = st \/ st' = [st EXCEPT ![t.by] = prop[t].body]
    BY <2>1 DEF Save, Retry
  <2>4. QED
    BY <1>1, <2>2, <2>3 DEF TypeOK
<1>6. CASE UNCHANGED st
  BY <1>6
<1>7. ASSUME NEW t \in Tasks,
             CreateTask(t) \/ Start(t) \/ Skip(t) \/ LockGranted(t) \/ LockAnswerLost(t)
               \/ LockRefused(t) \/ Propose(t) \/ Impossible(t) \/ ProposeRevert(t)
               \/ Finish(t) \/ Denied(t) \/ Busy(t) \/ Timeout(t) \/ Reject(t)
      PROVE  UNCHANGED st
  BY <1>7 DEF CreateTask, Start, Skip, LockGranted, LockAnswerLost, LockRefused, Propose,
     Impossible, ProposeRevert, Finish, Denied, Busy, Timeout, Reject
<1>8. CASE ExternalUnlock \/ (\E c \in Conds : Tick(c)) \/ (\E k \in Node : Crash(k))
             \/ UNCHANGED vars
  BY <1>6, <1>8 DEF ExternalUnlock, Tick, Crash, vars
<1>9. QED
  BY <1>3, <1>4, <1>5, <1>6, <1>7, <1>8 DEF Next

(* A proposal stays built on the proposer's state, or is passed by it. *)
LEMMA BuiltStays ==
    ASSUME IInv, [Next]_vars, NEW n \in Node, NEW a, NEW b \in Body,
           Built(a, b, st[n]), b.seqno <= st[n].seqno + 1
    PROVE  Built(a, b, st'[n])
<1>1. st[n].seqno \in Nat /\ b.seqno \in Nat
  BY Facts, SeqnoNat DEF IInv
<1>2. st'[n] = st[n] \/ st'[n].seqno = st[n].seqno + 1
  BY SeqnoGrows
<1>3. QED
  BY <1>1, <1>2 DEF Built

(* Workers and requests under way keep their proposals; a new proposal is
   built on the state the worker has just read. *)
LEMMA BuiltStep ==
    ASSUME IInv, BuiltOn, [Next]_vars
    PROVE  BuiltOn'
<1>1. TypeOK
  BY DEF IInv
<1>2. ASSUME NEW t \in Tasks, ph[t] = "wait"
      PROVE  Built(prop[t].act, prop[t].body, st'[t.by])
  <2>1. /\ prop[t].body \in Body /\ t.by \in Node /\ st[t.by].seqno \in Nat
        /\ Built(prop[t].act, prop[t].body, st[t.by])
    BY <1>1, <1>2, Facts DEF BuiltOn
  <2>2. prop[t].body.seqno <= st[t.by].seqno + 1
    BY <1>2, <2>1 DEF IInv, ProposalFresh
  <2>3. QED
    BY <2>1, <2>2, BuiltStays
<1>3. ASSUME NEW m \in late
      PROVE  Built(m.act, m.body, st'[m.task.by])
  <2>1. /\ m.body \in Body /\ m.task \in Tasks /\ m.task.by \in Node
        /\ st[m.task.by].seqno \in Nat /\ m.body.seqno \in Nat
        /\ Built(m.act, m.body, st[m.task.by])
    BY <1>1, <1>3, Facts DEF BuiltOn
  <2>2. m.body.seqno <= st[m.task.by].seqno + 1
    BY <2>1 DEF IInv, LateHarmless
  <2>3. QED
    BY <2>1, <2>2, BuiltStays
<1>4. ASSUME \A t \in Tasks : ph'[t] = "wait" => ph[t] = "wait" /\ prop'[t] = prop[t],
             late' \subseteq late
      PROVE  BuiltOn'
  BY <1>2, <1>3, <1>4 DEF BuiltOn
<1>5. ASSUME NEW t \in Tasks, NEW a \in Act, Send(t, a), UNCHANGED <<st, late>>,
             a.type \in {"add", "commit"} => a.cond \in Conds
      PROVE  BuiltOn'
  <2>1. /\ prop' = [prop EXCEPT ![t] = [act |-> a, body |-> OurState(a, st[t.by]),
                                        base |-> st[t.by].seqno]]
        /\ ph' = [ph EXCEPT ![t] = "wait"]
    BY <1>5 DEF Send
  <2>2. prop'[t].act = a /\ prop'[t].body = OurState(a, st[t.by])
    BY <1>1, <2>1 DEF TypeOK
  <2>3. Built(a, OurState(a, st[t.by]), st[t.by])
    <3>1. st[t.by].seqno \in Nat
      BY <1>1, Facts
    <3>2. QED
      BY <3>1 DEF Built, OurState, Idempotent
  <2>4. \A u \in Tasks : u # t => prop'[u] = prop[u] /\ ph'[u] = ph[u]
    BY <1>1, <2>1 DEF TypeOK
  <2>5. ASSUME NEW u \in Tasks, ph'[u] = "wait"
        PROVE  Built(prop'[u].act, prop'[u].body, st'[u.by])
    <3>1. CASE u = t
      BY <1>5, <2>2, <2>3, <3>1
    <3>2. CASE u # t
      BY <1>2, <2>4, <2>5, <3>2
    <3>3. QED
      BY <3>1, <3>2
  <2>6. \A m \in late' : Built(m.act, m.body, st'[m.task.by])
    BY <1>3, <1>5
  <2>7. QED
    BY <2>5, <2>6 DEF BuiltOn
<1>6. CASE \E t \in Tasks : Propose(t)
  <2>1. PICK t \in Tasks : Propose(t)
    BY <1>6
  <2>2. PICK fee \in (IF t.type = "rent" THEN Fees ELSE {0}) : Send(t, TaskAct(t, fee))
    BY <2>1 DEF Propose
  <2>3. fee \in Nat
    BY <2>2, ConstantsAssumption
  <2>4. /\ TaskAct(t, fee) \in Act
        /\ TaskAct(t, fee).type \in {"add", "commit"} => TaskAct(t, fee).cond \in Conds
    BY <2>3, ActType, TaskFacts DEF TaskAct
  <2>5. QED
    BY <1>5, <2>1, <2>2, <2>4 DEF Propose
<1>7. CASE \E t \in Tasks : ProposeRevert(t)
  <2>1. PICK t \in Tasks : ProposeRevert(t)
    BY <1>7
  <2>2. NoAct(t.by) \in Act /\ NoAct(t.by).type = "inc"
    BY ActType, TaskFacts DEF NoAct
  <2>3. QED
    BY <1>5, <2>1, <2>2 DEF ProposeRevert
<1>8. CASE \E t \in Tasks : Timeout(t)
  <2>1. PICK t \in Tasks : Timeout(t)
    BY <1>8
  <2>2. /\ ph' = [ph EXCEPT ![t] = "idle"] /\ UNCHANGED <<st, prop>> /\ ph[t] = "wait"
        /\ late' \subseteq late \cup {[task |-> t, act |-> prop[t].act, body |-> prop[t].body]}
    BY <2>1 DEF Timeout, Retry, Outlived, IInv, HoldsLock
  <2>3. \A u \in Tasks : ph'[u] = "wait" => ph[u] = "wait"
    BY <1>1, <2>2 DEF TypeOK
  <2>4. QED
    BY <1>2, <1>3, <2>2, <2>3 DEF BuiltOn
<1>9. ASSUME NEW t \in Tasks,
             Start(t) \/ LockGranted(t) \/ LockAnswerLost(t)
               \/ LockRefused(t) \/ Impossible(t) \/ Finish(t) \/ Denied(t) \/ Busy(t) \/ Save(t)
      PROVE  /\ UNCHANGED <<prop, late>>
             /\ \E x \in {"idle", "lock", "prop", "saved", "revert"} : ph' = [ph EXCEPT ![t] = x]
  BY <1>9 DEF Start, LockGranted, LockAnswerLost, LockRefused,
     Impossible, Finish, Denied, Busy, Save, Retry, End
<1>10. CASE \E t \in Tasks :
             Start(t) \/ LockGranted(t) \/ LockAnswerLost(t)
               \/ LockRefused(t) \/ Impossible(t) \/ Finish(t) \/ Denied(t) \/ Busy(t) \/ Save(t)
  BY <1>1, <1>4, <1>9, <1>10 DEF TypeOK
<1>11. CASE \/ \E t \in Tasks : CreateTask(t) \/ Skip(t) \/ Process(t) \/ Reject(t)
            \/ (\E m \in late : ProcessLate(m)) \/ ExternalUnlock \/ (\E c \in Conds : Tick(c))
            \/ UNCHANGED vars
  BY <1>4, <1>11 DEF CreateTask, Skip, Process, Reject, ProcessLate, ExternalUnlock, Tick, vars
<1>12. CASE \E n \in Node : Crash(n)
  BY <1>4, <1>12 DEF Crash
<1>13. QED
  BY <1>6, <1>7, <1>8, <1>10, <1>11, <1>12 DEF Next

(* What an action does to the prepaid conditionals. *)
LEMMA NextStatePrepaid ==
    ASSUME NEW a, NEW b \in Body
    PROVE  /\ NextState(a, b).prepaid =
                 IF a.type = "commit" THEN b.prepaid \cup {a.cond}
                 ELSE IF a.type = "exec" THEN b.prepaid \ {a.cond} ELSE b.prepaid
           /\ NextState(a, b).seqno = b.seqno + 1
<1>1. Effect(a, b).prepaid =
         IF a.type = "commit" THEN b.prepaid \cup {a.cond}
         ELSE IF a.type = "exec" THEN b.prepaid \ {a.cond} ELSE b.prepaid
  BY DEF Effect, Opened, Prepaid, Removed, Executed, Rented, Swapped, Body
<1>2. "seqno" \in DOMAIN Effect(a, b)
  BY DEF Effect, Opened, Prepaid, Removed, Executed, Rented, Swapped, Body
<1>3. QED
  BY <1>1, <1>2 DEF NextState

(* An accepted action on the latest state is a step of the atomic channel. *)
LEMMA AcceptedIsAtomic ==
    ASSUME NEW a, Latest \in Body, Latest' \in Body, Accepts(a, Latest),
           Latest' = NextState(a, Latest), a.type = "exec" => a.cond \in Latest.conds,
           seen' = seen \cup (IF a.type = "add" THEN Latest'.conds \ Latest.conds ELSE {})
    PROVE  Atomic!Next
<1> DEFINE c == a.cond
<1>1. /\ Latest'.conds = IF a.type = "add" THEN Latest.conds \cup {c}
                         ELSE IF a.type \in {"exec", "rem"} THEN Latest.conds \ {c}
                         ELSE Latest.conds
      /\ Latest'.paid = IF a.type = "exec" THEN Latest.paid \cup ({c} \cap Latest.conds)
                        ELSE Latest.paid
  BY NextStateSets, Zenon
<1>2. /\ Latest'.prepaid = IF a.type = "commit" THEN Latest.prepaid \cup {c}
                           ELSE IF a.type = "exec" THEN Latest.prepaid \ {c}
                           ELSE Latest.prepaid
      /\ Latest'.seqno = Latest.seqno + 1
  BY NextStatePrepaid, Zenon
<1>3. Latest.conds \subseteq Conds /\ Latest'.conds \subseteq Conds
  BY DEF Body
<1>4. CASE a.type = "add" /\ c \notin Latest.conds
  <2>1. c \in Conds /\ c \notin seen /\ seen' = seen \cup {c}
    BY <1>1, <1>3, <1>4 DEF Accepts, AcceptsAdd
  <2>2. Atomic!Open(c)
    BY <1>1, <1>2, <1>4, <2>1 DEF Atomic!Open, Atomic!Step
  <2>3. QED
    BY <2>1, <2>2 DEF Atomic!Next
<1>5. CASE a.type = "commit"
  <2>1. c \in Latest.conds /\ seen' = seen
    BY <1>5 DEF Accepts, AcceptsCommit
  <2>2. Atomic!Prepay(c)
    BY <1>1, <1>2, <1>5, <2>1 DEF Atomic!Prepay, Atomic!Step
  <2>3. QED
    BY <1>3, <2>1, <2>2 DEF Atomic!Next
<1>6. CASE a.type = "exec"
  <2>1. c \in Latest.conds /\ seen' = seen /\ {c} \cap Latest.conds = {c}
    BY <1>6
  <2>2. Atomic!Execute(c)
    BY <1>1, <1>2, <1>6, <2>1 DEF Atomic!Execute, Atomic!Step
  <2>3. QED
    BY <1>3, <2>1, <2>2 DEF Atomic!Next
<1>7. CASE a.type = "rem" /\ c \in Latest.conds
  <2>1. Atomic!Remove(c)
    BY <1>1, <1>2, <1>7 DEF Atomic!Remove, Atomic!Step
  <2>2. QED
    BY <1>3, <1>7, <2>1 DEF Atomic!Next
<1>8. CASE \/ a.type = "add" /\ c \in Latest.conds
           \/ a.type = "rem" /\ c \notin Latest.conds
           \/ a.type \notin {"add", "commit", "exec", "rem"}
  <2>1. /\ Latest'.conds = Latest.conds /\ Latest'.paid = Latest.paid
        /\ Latest'.prepaid = Latest.prepaid /\ seen' = seen
    BY <1>1, <1>2, <1>8
  <2>2. QED
    BY <1>2, <2>1 DEF Atomic!Next, Atomic!Other, Atomic!Step
<1>9. QED
  BY <1>4, <1>5, <1>6, <1>7, <1>8

(* When a side is at least as far as the other, the latest state is its own. *)
LEMMA LatestIs ==
    ASSUME IInv, NEW n \in Node, st[n].seqno >= st[Peer(n)].seqno
    PROVE  Latest = st[n]
<1>1. st["L"].seqno \in Nat /\ st["R"].seqno \in Nat
  BY Facts DEF IInv, Node
<1>2. Agreement
  BY InvariantImplies
<1>3. QED
  BY <1>1, <1>2 DEF Latest, Agreement, Node, Peer

(* Handling a proposal of the other side, in time or late. *)
LEMMA HandleAtomic ==
    ASSUME IInv, Agreement', KeysUsed, NEW p \in Node, NEW a, NEW b \in Body, Handle(p, a, b),
           Built(a, b, st[Peer(p)]), b.seqno <= st[Peer(p)].seqno + 1
    PROVE  [Atomic!Next]_<<Latest, seen>>
<1> DEFINE s == Peer(p)
<1>1. /\ s \in Node /\ s # p /\ Peer(s) = p /\ b.seqno \in Nat
      /\ st[p] \in Body /\ st[p].seqno \in Nat /\ st[s] \in Body /\ st[s].seqno \in Nat
  BY PeerFacts, SeqnoNat, Facts DEF IInv
<1>2. CASE ~Agrees(p, a, b) \/ b = st[p]
  <2>1. st' = st /\ seen' = seen
    <3>1. TypeOK
      BY DEF IInv
    <3>2. QED
      BY <1>2, <3>1 DEF Handle, TypeOK
  <2>2. QED
    BY <2>1 DEF Latest
<1>3. CASE Agrees(p, a, b) /\ b # st[p]
  <2>1. /\ b.seqno = st[p].seqno + 1 /\ Accepts(a, st[p]) /\ b = NextState(a, st[p])
    BY <1>3 DEF Agrees
  <2>2. /\ st'[p] = b /\ st'[s] = st[s]
        /\ seen' = seen \cup (IF a.type = "add" THEN b.conds \ st[p].conds ELSE {})
    BY <1>1, <1>3 DEF Handle, IInv, TypeOK
  <2>3. CASE st[s].seqno > st[p].seqno
    <3>1. st'[p].seqno = st'[s].seqno
      <4>1. st[s].seqno = st[p].seqno + 1
        BY <1>1, <2>3, InvariantImplies DEF Recoverable
      <4>2. QED
        BY <2>1, <2>2, <4>1
    <3>2. b = st[s]
      BY <1>1, <2>2, <3>1 DEF Agreement, Node
    <3>3. Latest = st[s] /\ Latest' = st[s]
      <4>1. Latest = st[s]
        BY <1>1, <2>3, LatestIs
      <4>2. Latest' = st[s]
        BY <1>1, <2>2, <3>2 DEF Latest, Node
      <4>3. QED
        BY <4>1, <4>2
    <3>4. seen' = seen
      BY <1>1, <2>2, <3>2 DEF KeysUsed
    <3>5. QED
      BY <3>3, <3>4
  <2>4. CASE st[s].seqno <= st[p].seqno
    <3>1. st[s].seqno = st[p].seqno
      BY <1>1, <2>1, <2>4
    <3>2. st[s] = st[p]
      <4>1. Agreement
        BY InvariantImplies
      <4>2. QED
        BY <1>1, <3>1, <4>1 DEF Agreement, Node
    <3>3. a.type = "exec" => a.cond \in st[p].conds
      BY <2>1, <3>2 DEF Built
    <3>4. Latest = st[p]
      BY <3>2, <1>1, <3>1, LatestIs
    <3>5. Latest' = b
      <4>1. st'[p].seqno \in Nat /\ st'[s].seqno \in Nat /\ st'[p].seqno > st'[s].seqno
        BY <1>1, <2>1, <2>2, <3>1
      <4>2. QED
        BY <1>1, <2>2, <4>1 DEF Latest, Node
    <3>6. QED
      BY <1>1, <2>1, <2>2, <3>3, <3>4, <3>5, AcceptedIsAtomic
  <2>5. QED
    BY <1>1, <2>3, <2>4
<1>4. QED
  BY <1>2, <1>3

(* Every step of the protocol is a step of the atomic channel or a stutter. *)
LEMMA AtomicStep ==
    ASSUME IInv, Agreement', KeysUsed, BuiltOn, [Next]_vars
    PROVE  [Atomic!Next]_<<Latest, seen>>
<1>1. TypeOK
  BY DEF IInv
<1>2. CASE \E t \in Tasks : Process(t)
  <2>1. PICK t \in Tasks : Process(t)
    BY <1>2
  <2>2. /\ Handle(Peer(t.by), prop[t].act, prop[t].body) /\ Peer(t.by) \in Node
        /\ prop[t].body \in Body /\ Peer(Peer(t.by)) = t.by /\ st[t.by].seqno \in Nat
    BY <1>1, <2>1, Facts DEF Process
  <2>3. ph[t] = "wait"
    BY <2>1 DEF Process, IInv, HoldsLock
  <2>4. Built(prop[t].act, prop[t].body, st[t.by]) /\ prop[t].body.seqno <= st[t.by].seqno + 1
    BY <2>2, <2>3 DEF BuiltOn, IInv, ProposalFresh
  <2>5. QED
    BY <2>2, <2>4, HandleAtomic
<1>3. CASE \E m \in late : ProcessLate(m)
  <2>1. PICK m \in late : ProcessLate(m)
    BY <1>3
  <2>2. /\ Handle(Peer(m.task.by), m.act, m.body) /\ Peer(m.task.by) \in Node
        /\ m.body \in Body /\ Peer(Peer(m.task.by)) = m.task.by /\ st[m.task.by].seqno \in Nat
        /\ m.body.seqno \in Nat
    BY <1>1, <2>1, Facts DEF ProcessLate
  <2>3. Built(m.act, m.body, st[m.task.by]) /\ m.body.seqno <= st[m.task.by].seqno + 1
    BY <2>2 DEF BuiltOn, IInv, LateHarmless
  <2>4. QED
    BY <2>2, <2>3, HandleAtomic
<1>4. CASE \E t \in Tasks : Save(t)
  <2>1. PICK t \in Tasks : Save(t)
    BY <1>4
  <2>2. /\ t.by \in Node /\ Peer(t.by) \in Node /\ Peer(t.by) # t.by /\ Peer(Peer(t.by)) = t.by
        /\ st[t.by].seqno \in Nat /\ st[Peer(t.by)].seqno \in Nat
    BY <1>1, Facts
  <2>3. /\ prop[t].body = st[t.by] \/ prop[t].body.seqno = st[t.by].seqno + 1
        /\ prop[t].body = st[t.by] \/ prop[t].body = st[Peer(t.by)]
    BY <2>1 DEF Save, IInv, HoldsLock, ProposalFresh, AgreedSaved
  <2>4. seen' = seen /\ (st' = st \/ st' = [st EXCEPT ![t.by] = prop[t].body])
    BY <2>1 DEF Save, Retry
  <2>5. CASE st' = st \/ prop[t].body = st[t.by]
    BY <1>1, <2>4, <2>5 DEF Latest, TypeOK
  <2>6. CASE st' # st /\ prop[t].body # st[t.by]
    <3>1. /\ st'[t.by] = st[Peer(t.by)] /\ st'[Peer(t.by)] = st[Peer(t.by)]
          /\ st[Peer(t.by)].seqno >= st[t.by].seqno
      BY <1>1, <2>2, <2>3, <2>4, <2>6 DEF TypeOK
    <3>2. Latest = st[Peer(t.by)]
      BY <2>2, <3>1, LatestIs
    <3>3. Latest' = st[Peer(t.by)]
      BY <2>2, <3>1 DEF Latest, Node
    <3>4. QED
      BY <2>4, <3>2, <3>3
  <2>7. QED
    BY <2>5, <2>6
<1>5. CASE UNCHANGED <<st, seen>>
  BY <1>5 DEF Latest
<1>6. ASSUME NEW t \in Tasks,
             CreateTask(t) \/ Start(t) \/ Skip(t) \/ LockGranted(t) \/ LockAnswerLost(t)
               \/ LockRefused(t) \/ Propose(t) \/ Impossible(t) \/ ProposeRevert(t)
               \/ Finish(t) \/ Denied(t) \/ Busy(t) \/ Timeout(t) \/ Reject(t)
      PROVE  UNCHANGED <<st, seen>>
  BY <1>6 DEF CreateTask, Start, Skip, LockGranted, LockAnswerLost, LockRefused, Propose,
     Impossible, ProposeRevert, Finish, Denied, Busy, Timeout, Reject
<1>7. CASE ExternalUnlock \/ (\E c \in Conds : Tick(c)) \/ (\E k \in Node : Crash(k))
             \/ UNCHANGED vars
  BY <1>5, <1>7 DEF ExternalUnlock, Tick, Crash, vars
<1>8. QED
  BY <1>2, <1>3, <1>4, <1>5, <1>6, <1>7 DEF Next

(* The two databases, the pending states, the late requests and the restarts
   together behave like one agreed state that changes by one whole action: the
   co-signing protocol implements AtomicChannel. *)
THEOREM AtomicityHolds ==
    ASSUME Forwarded = {}, ~CrossingLate
    PROVE  Spec => Atomicity
<1>1. Init => KeysUsed /\ SettledOnce /\ BuiltOn
  BY DEF Init, KeysUsed, SettledOnce, Genesis, BuiltOn
<1>2. Init => Atomic!Init
  BY DEF Init, Atomic!Init, Latest, Genesis, Node
<1>3. IInv /\ KeysUsed /\ SettledOnce /\ BuiltOn /\ [Next]_vars =>
        (KeysUsed /\ SettledOnce /\ BuiltOn)'
  BY SettledStep, BuiltStep
<1>4. IInv /\ Agreement' /\ KeysUsed /\ BuiltOn /\ [Next]_vars => [Atomic!Next]_<<Latest, seen>>
  BY AtomicStep
<1>5. QED
  BY Inductive, AgreementHolds, <1>1, <1>2, <1>3, <1>4, PTL DEF Spec, Atomicity, Atomic!Spec

-----------------------------------------------------------------------------
(* Roll-back.  A worker reports an opening as refused only after it has    *)
(* saved a state without the conditional, which the party has as well; and *)
(* no request that opens it can be taken for a new one any more.           *)

(* A conditional is or was in a state. *)
Has(c, b) == c \in b.conds \cup b.paid

(* What a task proposes is its own action, or the empty one, which makes a
   new state. *)
OfTask(a, t) == a.type = "inc" \/ (a.type = t.type /\ a.cond = t.cond)
Proposed(r, t) == OfTask(r.act, t) /\ (r.act.type = "inc" => r.body.seqno = r.base + 1)

OwnActs ==
    /\ \A t \in Tasks : ph[t] \in {"wait", "saved"} => Proposed(prop[t], t)
    /\ \A m \in late : OfTask(m.act, m.task)

(* Only tasks that are to be done are run. *)
RunsTodo == \A t \in Tasks : ph[t] # "idle" => status[t] = "todo"

(* The worker of an opening has saved the conditional, or a state without it. *)
Kept(t) == status[t] = "done" \/ (ph[t] = "saved" /\ ~Reverting(t))
Undone(t) == status[t] = "denied" \/ (ph[t] = "saved" /\ Reverting(t))

(* The payer of a conditional has it only once its own task has saved it. *)
PayerLast == \A t \in Tasks : t.type = "add" /\ ~Kept(t) => ~Has(t.cond, st[t.by])

(* After the roll-back the party has no such conditional either, and is past
   every request that would open it. *)
PartyClean == \A t \in Tasks : t.type = "add" /\ Undone(t) =>
    /\ ~Has(t.cond, st[Peer(t.by)])
    /\ \A m \in late : m.task = t => m.body.seqno <= st[Peer(t.by)].seqno

RollInv == OwnActs /\ RunsTodo /\ PayerLast /\ PartyClean

(* An action brings a conditional into a state only by opening it. *)
LEMMA HasNext ==
    ASSUME NEW a, NEW b \in Body, NEW c, Has(c, NextState(a, b))
    PROVE  Has(c, b) \/ (a.type = "add" /\ a.cond = c)
<1>1. /\ NextState(a, b).conds =
            IF a.type = "add" THEN b.conds \cup {a.cond}
            ELSE IF a.type \in {"exec", "rem"} THEN b.conds \ {a.cond} ELSE b.conds
      /\ NextState(a, b).paid =
            IF a.type = "exec" THEN b.paid \cup ({a.cond} \cap b.conds) ELSE b.paid
  BY NextStateSets, ZenonT(60)
<1>2. CASE a.type = "add"
  BY <1>1, <1>2 DEF Has
<1>3. CASE a.type # "add"
  BY <1>1, <1>3 DEF Has
<1>4. QED
  BY <1>2, <1>3

(* A conditional is opened by one task, of the side that pays it. *)
LEMMA OneOpening ==
    ASSUME NEW t \in Tasks, NEW u \in Tasks, t.type = "add", u.type = "add", t.cond = u.cond
    PROVE  t = u
<1>1. t.by = Payer[t.cond] /\ u.by = Payer[u.cond]
  BY ConstantsAssumption
<1>2. t \in [by : Node, type : TaskType, cond : Conds \cup {NoCond}]
      /\ u \in [by : Node, type : TaskType, cond : Conds \cup {NoCond}]
  BY ConstantsAssumption
<1>3. QED
  BY <1>1, <1>2

(* What the party takes over from a request opens a conditional only if the
   request does, and is new. *)
LEMMA HandleOpens ==
    ASSUME TypeOK, NEW p \in Node, NEW a, NEW b \in Body, Handle(p, a, b),
           NEW n \in Node, NEW c, Has(c, st'[n]), ~Has(c, st[n])
    PROVE  n = p /\ a.type = "add" /\ a.cond = c /\ b.seqno = st[n].seqno + 1
<1>1. Agrees(p, a, b) /\ st' = [st EXCEPT ![p] = b]
  BY DEF Handle
<1>2. n = p /\ st'[n] = b
  BY <1>1 DEF TypeOK
<1>3. b # st[n]
  BY <1>2
<1>4. b.seqno = st[n].seqno + 1 /\ b = NextState(a, st[n])
  BY <1>1, <1>2, <1>3 DEF Agrees
<1>5. st[n] \in Body
  BY DEF TypeOK
<1>6. QED
  BY <1>2, <1>4, <1>5, HasNext

(* The three ways in which a conditional comes into the state of a side. *)
LEMMA OpenedBy ==
    ASSUME IInv, BuiltOn, OwnActs, [Next]_vars, NEW n \in Node, NEW c,
           Has(c, st'[n]), ~Has(c, st[n])
    PROVE  \/ \E t \in Tasks : /\ t.type = "add" /\ t.cond = c /\ t.by = n
                               /\ Save(t) /\ st' # st /\ prop[t].act.type = "add"
           \/ \E t \in Tasks : t.type = "add" /\ t.cond = c /\ t.by = Peer(n) /\ Process(t)
           \/ \E m \in late : /\ m.task.type = "add" /\ m.task.cond = c
                              /\ m.task.by = Peer(n) /\ m.body.seqno = st[n].seqno + 1
<1>1. TypeOK
  BY DEF IInv
<1>2. CASE \E t \in Tasks : Process(t)
  <2>1. PICK t \in Tasks : Process(t)
    BY <1>2
  <2>2. /\ Peer(t.by) \in Node /\ Peer(Peer(t.by)) = t.by /\ prop[t].body \in Body
        /\ Handle(Peer(t.by), prop[t].act, prop[t].body)
    BY <1>1, <2>1, Facts DEF Process
  <2>3. n = Peer(t.by) /\ prop[t].act.type = "add" /\ prop[t].act.cond = c
    BY <1>1, <2>2, HandleOpens
  <2>4. OfTask(prop[t].act, t)
    BY <2>1 DEF Process, IInv, HoldsLock, OwnActs, Proposed
  <2>5. QED
    BY <2>1, <2>2, <2>3, <2>4 DEF OfTask
<1>3. CASE \E m \in late : ProcessLate(m)
  <2>1. PICK m \in late : ProcessLate(m)
    BY <1>3
  <2>2. m.task \in Tasks
    BY <1>1, Facts
  <2>3. /\ Peer(m.task.by) \in Node /\ Peer(Peer(m.task.by)) = m.task.by /\ m.body \in Body
        /\ Handle(Peer(m.task.by), m.act, m.body)
    BY <1>1, <2>1, <2>2, Facts DEF ProcessLate
  <2>4. /\ n = Peer(m.task.by) /\ m.act.type = "add" /\ m.act.cond = c
        /\ m.body.seqno = st[n].seqno + 1
    BY <1>1, <2>3, HandleOpens
  <2>5. OfTask(m.act, m.task)
    BY <2>1 DEF OwnActs
  <2>6. QED
    BY <2>1, <2>3, <2>4, <2>5 DEF OfTask
<1>4. CASE \E t \in Tasks : Save(t)
  <2>1. PICK t \in Tasks : Save(t)
    BY <1>4
  <2>2. st' = st \/ st' = [st EXCEPT ![t.by] = prop[t].body]
    BY <2>1 DEF Save, Retry
  <2>3. t.by = n /\ st' # st /\ st'[n] = prop[t].body
    BY <1>1, <2>2 DEF TypeOK
  <2>4. ph[t] = "wait"
    BY <2>1 DEF Save, IInv, HoldsLock
  <2>5. prop[t].body = NextState(prop[t].act, st[n])
    <3>1. prop[t].body # st[n]
      BY <2>3
    <3>2. prop[t].body.seqno = st[n].seqno + 1
      BY <2>3, <2>4, <3>1 DEF IInv, ProposalFresh
    <3>3. QED
      BY <2>3, <2>4, <3>2 DEF BuiltOn, Built
  <2>6. prop[t].act.type = "add" /\ prop[t].act.cond = c
    <3>1. st[n] \in Body
      BY <1>1 DEF TypeOK
    <3>2. QED
      BY <2>3, <2>5, <3>1, HasNext
  <2>7. OfTask(prop[t].act, t)
    BY <2>4 DEF OwnActs, Proposed
  <2>8. QED
    BY <2>1, <2>3, <2>6, <2>7 DEF OfTask
<1>5. CASE UNCHANGED st
  BY <1>5
<1>6. ASSUME NEW t \in Tasks,
             CreateTask(t) \/ Start(t) \/ Skip(t) \/ LockGranted(t) \/ LockAnswerLost(t)
               \/ LockRefused(t) \/ Propose(t) \/ Impossible(t) \/ ProposeRevert(t)
               \/ Finish(t) \/ Denied(t) \/ Busy(t) \/ Timeout(t) \/ Reject(t)
      PROVE  UNCHANGED st
  BY <1>6 DEF CreateTask, Start, Skip, LockGranted, LockAnswerLost, LockRefused, Propose,
     Impossible, ProposeRevert, Finish, Denied, Busy, Timeout, Reject
<1>7. CASE ExternalUnlock \/ (\E d \in Conds : Tick(d)) \/ (\E k \in Node : Crash(k))
             \/ UNCHANGED vars
  BY <1>5, <1>7 DEF ExternalUnlock, Tick, Crash, vars
<1>8. QED
  BY <1>2, <1>3, <1>4, <1>5, <1>6, <1>7 DEF Next

(* What a step may do to one task: nothing, end its exchange, or something
   that neither saves a state nor comes after it. *)
LEMMA TaskStep ==
    ASSUME MaxCrash = 0, IInv, RunsTodo, [Next]_vars, NEW t \in Tasks
    PROVE  \/ status'[t] = status[t] /\ ph'[t] = ph[t] /\ prop'[t] = prop[t]
           \/ Save(t) /\ prop'[t] = prop[t] /\ ph'[t] = "saved" /\ status'[t] = status[t]
           \/ /\ ph[t] = "saved" /\ ph'[t] = "idle"
              /\ status'[t] = IF Reverting(t) THEN "denied" ELSE "done"
           \/ /\ ph[t] # "saved" /\ ph'[t] # "saved"
              /\ status[t] \in {"none", "todo"} /\ status'[t] \in {"todo", "done", "dropped"}
              /\ ph'[t] # "idle" => status'[t] = "todo"
              /\ ph'[t] = "wait" => Proposed(prop'[t], t)
<1>1. TypeOK /\ HoldsLock
  BY DEF IInv
<1>2. ph[t] # "idle" => status[t] = "todo"
  BY DEF RunsTodo
<1>3. ASSUME NEW u \in Tasks, CreateTask(u)
      PROVE  \/ status'[t] = status[t] /\ ph'[t] = ph[t] /\ prop'[t] = prop[t]
             \/ u = t /\ status[t] = "none" /\ status'[t] = "todo" /\ ph'[t] = ph[t]
                  /\ prop'[t] = prop[t]
  BY <1>1, <1>3 DEF CreateTask, TypeOK
<1>4. ASSUME NEW u \in Tasks, Start(u) \/ LockGranted(u) \/ LockAnswerLost(u)
      PROVE  \/ status'[t] = status[t] /\ ph'[t] = ph[t] /\ prop'[t] = prop[t]
             \/ /\ u = t /\ ph[t] \in {"idle", "lock"} /\ ph'[t] \in {"idle", "lock", "prop"}
                /\ status[t] = "todo" /\ status'[t] = "todo" /\ prop'[t] = prop[t]
  BY <1>1, <1>2, <1>4 DEF Start, LockGranted, LockAnswerLost, TypeOK
<1>5. ASSUME NEW u \in Tasks, Skip(u)
      PROVE  \/ status'[t] = status[t] /\ ph'[t] = ph[t] /\ prop'[t] = prop[t]
             \/ u = t /\ status[t] = "todo" /\ status'[t] = "done" /\ ph[t] = "idle"
                  /\ ph'[t] = "idle"
  BY <1>1, <1>5 DEF Skip, TypeOK
<1>6. ASSUME NEW u \in Tasks, Retry(u), UNCHANGED prop, ph[u] \notin {"idle", "saved"}
      PROVE  \/ status'[t] = status[t] /\ ph'[t] = ph[t] /\ prop'[t] = prop[t]
             \/ u = t /\ ph[t] # "saved" /\ ph'[t] = "idle" /\ status[t] = "todo"
                  /\ status'[t] = "todo"
  BY <1>1, <1>2, <1>6 DEF Retry, TypeOK
<1>7. ASSUME NEW u \in Tasks, NEW a, Send(u, a), UNCHANGED status, ph[u] \in {"prop", "revert"}
      PROVE  \/ status'[t] = status[t] /\ ph'[t] = ph[t] /\ prop'[t] = prop[t]
             \/ u = t /\ ph[t] # "saved" /\ ph'[t] = "wait" /\ status[t] = "todo"
                  /\ status'[t] = "todo"
                  /\ prop'[t] = [act |-> a, body |-> OurState(a, st[t.by]), base |-> st[t.by].seqno]
  BY <1>1, <1>2, <1>7 DEF Send, TypeOK
<1>8. ASSUME NEW u \in Tasks, Impossible(u), ~Retry(u)
      PROVE  \/ status'[t] = status[t] /\ ph'[t] = ph[t] /\ prop'[t] = prop[t]
             \/ u = t /\ ph[t] = "prop" /\ ph'[t] = "idle" /\ status[t] = "todo"
                  /\ status'[t] = "dropped"
  BY <1>1, <1>2, <1>8 DEF Impossible, End, TypeOK
<1>9. ASSUME NEW u \in Tasks, Denied(u), ~Retry(u)
      PROVE  \/ status'[t] = status[t] /\ ph'[t] = ph[t] /\ prop'[t] = prop[t]
             \/ u = t /\ ph[t] = "wait" /\ ph'[t] = "revert" /\ status[t] = "todo"
                  /\ status'[t] = "todo"
  BY <1>1, <1>2, <1>9 DEF Denied, HoldsLock, TypeOK
<1>10. ASSUME NEW u \in Tasks, Save(u), ~Retry(u)
       PROVE  \/ status'[t] = status[t] /\ ph'[t] = ph[t] /\ prop'[t] = prop[t]
              \/ Save(t) /\ prop'[t] = prop[t] /\ ph'[t] = "saved" /\ status'[t] = status[t]
  BY <1>1, <1>10 DEF Save, TypeOK
<1>11. ASSUME NEW u \in Tasks, Finish(u)
       PROVE  \/ status'[t] = status[t] /\ ph'[t] = ph[t] /\ prop'[t] = prop[t]
              \/ u = t /\ ph[t] = "saved" /\ ph'[t] = "idle"
                   /\ status'[t] = IF Reverting(t) THEN "denied" ELSE "done"
  BY <1>1, <1>11 DEF Finish, End, TypeOK
<1>12. ASSUME NEW u \in Tasks,
              LockRefused(u) \/ Impossible(u) \/ Denied(u) \/ Busy(u) \/ Timeout(u) \/ Save(u)
       PROVE  UNCHANGED prop /\ ph[u] \notin {"idle", "saved"}
  BY <1>1, <1>12 DEF LockRefused, Impossible, Denied, Busy, Timeout, Save, HoldsLock
<1>13. ASSUME NEW u \in Tasks, LockRefused(u) \/ Busy(u) \/ Timeout(u)
       PROVE  Retry(u)
  BY <1>13 DEF LockRefused, Busy, Timeout
<1>14. ASSUME NEW u \in Tasks, Propose(u) \/ ProposeRevert(u)
       PROVE  \E a : /\ Send(u, a) /\ UNCHANGED status /\ ph[u] \in {"prop", "revert"}
                     /\ OfTask(a, u) /\ a \in Act
                     /\ a.type \in {"add", "commit"} => a.cond \in Conds
  <2>1. CASE Propose(u)
    <3>1. PICK fee \in (IF u.type = "rent" THEN Fees ELSE {0}) : Send(u, TaskAct(u, fee))
      BY <2>1 DEF Propose
    <3>2. fee \in Nat
      BY <3>1, ConstantsAssumption
    <3>3. /\ OfTask(TaskAct(u, fee), u) /\ TaskAct(u, fee) \in Act
          /\ TaskAct(u, fee).type \in {"add", "commit"} => TaskAct(u, fee).cond \in Conds
      BY <3>2, ActType, TaskFacts DEF OfTask, TaskAct
    <3> QED
      BY <2>1, <3>1, <3>3 DEF Propose
  <2>2. CASE ProposeRevert(u)
    <3>1. NoAct(u.by) \in Act /\ NoAct(u.by).type = "inc"
      BY ActType, TaskFacts DEF NoAct
    <3> QED
      BY <2>2, <3>1 DEF ProposeRevert, OfTask
  <2> QED
    BY <1>14, <2>1, <2>2
<1>15. CASE \/ \E u \in Tasks : Process(u) \/ Reject(u)
            \/ (\E m \in late : ProcessLate(m)) \/ ExternalUnlock \/ (\E c \in Conds : Tick(c))
            \/ UNCHANGED vars
  BY <1>15 DEF Process, Reject, ProcessLate, ExternalUnlock, Tick, vars
<1>16. ~\E n \in Node : Crash(n)
  BY <1>1 DEF Crash, TypeOK
<1>17. CASE \E u \in Tasks : Propose(u) \/ ProposeRevert(u)
  <2>1. PICK u \in Tasks : Propose(u) \/ ProposeRevert(u)
    BY <1>17
  <2>2. PICK a : /\ Send(u, a) /\ UNCHANGED status /\ ph[u] \in {"prop", "revert"}
                 /\ OfTask(a, u) /\ a \in Act
                 /\ a.type \in {"add", "commit"} => a.cond \in Conds
    BY <1>14, <2>1
  <2>3. a.type = "inc" => OurState(a, st[u.by]).seqno = st[u.by].seqno + 1
    <3>1. st[u.by] \in Body
      BY <1>1, Facts
    <3> QED
      BY <2>2, <3>1, NextStateType DEF OurState, Idempotent
  <2>4. Proposed([act |-> a, body |-> OurState(a, st[u.by]), base |-> st[u.by].seqno], u)
    BY <2>2, <2>3 DEF Proposed
  <2> QED
    BY <1>7, <2>2, <2>4
<1>18. CASE \E u \in Tasks : CreateTask(u) \/ Start(u) \/ LockGranted(u) \/ LockAnswerLost(u)
                               \/ Skip(u)
  BY <1>2, <1>3, <1>4, <1>5, <1>18
<1>19. CASE \E u \in Tasks : LockRefused(u) \/ Impossible(u) \/ Denied(u) \/ Busy(u)
                               \/ Timeout(u) \/ Save(u)
  <2>1. PICK u \in Tasks : LockRefused(u) \/ Impossible(u) \/ Denied(u) \/ Busy(u)
                             \/ Timeout(u) \/ Save(u)
    BY <1>19
  <2>2. CASE Retry(u)
    <3>1. UNCHANGED prop /\ ph[u] \notin {"idle", "saved"}
      BY <1>12, <2>1
    <3> QED
      BY <1>6, <2>2, <3>1
  <2>3. CASE ~Retry(u)
    BY <1>8, <1>9, <1>10, <1>13, <2>1, <2>3
  <2> QED
    BY <2>2, <2>3
<1>20. CASE \E u \in Tasks : Finish(u)
  BY <1>11, <1>20
<1>21. QED
  BY <1>15, <1>16, <1>17, <1>18, <1>19, <1>20 DEF Next

(* A request that is left behind is one that a worker was waiting for. *)
LEMMA LateStep ==
    ASSUME IInv, [Next]_vars, NEW m \in late'
    PROVE  \/ m \in late
           \/ \E t \in Tasks : /\ ph[t] = "wait" /\ m.task = t
                               /\ m.act = prop[t].act /\ m.body = prop[t].body
<1>1. CASE \E t \in Tasks : Timeout(t)
  <2>1. PICK t \in Tasks : Timeout(t)
    BY <1>1
  <2>2. /\ ph[t] = "wait"
        /\ late' \subseteq late \cup {[task |-> t, act |-> prop[t].act, body |-> prop[t].body]}
    BY <2>1 DEF Timeout, Outlived, IInv, HoldsLock
  <2> QED
    BY <2>2
<1>2. ASSUME NEW t \in Tasks,
             CreateTask(t) \/ Start(t) \/ Skip(t) \/ LockGranted(t) \/ LockAnswerLost(t)
               \/ LockRefused(t) \/ Propose(t) \/ Impossible(t) \/ ProposeRevert(t)
               \/ Save(t) \/ Finish(t) \/ Denied(t) \/ Busy(t) \/ Process(t) \/ Reject(t)
      PROVE  late' = late
  BY <1>2 DEF CreateTask, Start, Skip, LockGranted, LockAnswerLost, LockRefused, Propose,
     Impossible, ProposeRevert, Save, Finish, Denied, Busy, Process, Reject
<1>3. CASE (\E k \in late : ProcessLate(k)) \/ ExternalUnlock \/ (\E c \in Conds : Tick(c))
             \/ (\E n \in Node : Crash(n)) \/ UNCHANGED vars
  BY <1>3 DEF ProcessLate, ExternalUnlock, Tick, Crash, vars
<1> QED
  BY <1>1, <1>2, <1>3 DEF Next

(* What a running worker has saved is not lost, without a restart. *)
LEMMA KeptStays ==
    ASSUME MaxCrash = 0, IInv, RunsTodo, [Next]_vars, NEW t \in Tasks, Kept(t)
    PROVE  Kept(t)'
<1>1. ph[t] # "idle" => status[t] = "todo"
  BY DEF RunsTodo
<1>2. ~Save(t)
  BY <1>1 DEF Kept, Save, IInv, HoldsLock
<1> QED
  BY <1>1, <1>2, TaskStep DEF Kept, Reverting

(* A task and its proposals keep to its own action. *)
LEMMA OwnActsStep ==
    ASSUME MaxCrash = 0, IInv, OwnActs, RunsTodo, [Next]_vars
    PROVE  OwnActs' /\ RunsTodo'
<1>1. ASSUME NEW t \in Tasks
      PROVE  /\ ph'[t] \in {"wait", "saved"} => Proposed(prop'[t], t)
             /\ ph'[t] # "idle" => status'[t] = "todo"
  <2>1. /\ ph[t] \in {"wait", "saved"} => Proposed(prop[t], t)
        /\ ph[t] # "idle" => status[t] = "todo"
        /\ Save(t) => ph[t] = "wait"
    BY DEF OwnActs, RunsTodo, Save, IInv, HoldsLock
  <2> QED
    BY <2>1, TaskStep
<1>2. ASSUME NEW m \in late' PROVE OfTask(m.act, m.task)
  BY <1>2, LateStep DEF OwnActs, Proposed
<1> QED
  BY <1>1, <1>2 DEF OwnActs, RunsTodo

(* The payer gets its own conditional from nobody but its own task. *)
LEMMA PayerLastStep ==
    ASSUME MaxCrash = 0, IInv, BuiltOn, RollInv, [Next]_vars
    PROVE  PayerLast'
<1> SUFFICES ASSUME NEW t \in Tasks, t.type = "add", ~Kept(t)', Has(t.cond, st'[t.by])
             PROVE  FALSE
  BY DEF PayerLast, Has
<1>1. t.by \in Node /\ Peer(t.by) # t.by /\ ~Has(t.cond, st[t.by])
  BY KeptStays, TaskFacts, PeerFacts DEF RollInv, PayerLast
<1>2. \A u \in Tasks : u.type = "add" /\ u.cond = t.cond => u = t
  BY OneOpening
<1>3. \A m \in late : m.task \in Tasks
  BY Facts DEF IInv
<1>4. Save(t) /\ st' # st /\ prop[t].act.type = "add"
  BY <1>1, <1>2, <1>3, OpenedBy DEF RollInv
<1>5. ph'[t] = "saved" /\ prop' = prop
  BY <1>4 DEF Save, Retry, IInv, TypeOK
<1> QED
  BY <1>4, <1>5 DEF Kept, Reverting

(* The empty state that a worker saves is the one the party has. *)
LEMMA RevertSaved ==
    ASSUME IInv, BuiltOn, RollInv, NEW t \in Tasks, t.type = "add", Save(t),
           Reverting(t), ~Kept(t)
    PROVE  /\ ~Has(t.cond, st[Peer(t.by)])
           /\ st[Peer(t.by)].seqno = st[t.by].seqno + 1
<1>1. /\ t.by \in Node /\ st[t.by] \in Body /\ st[t.by].seqno \in Nat
      /\ ph[t] = "wait" /\ prop[t].act.type = "inc"
  BY Facts DEF IInv, Save, HoldsLock, Reverting
<1>2. prop[t].body.seqno = st[t.by].seqno + 1
  BY <1>1 DEF RollInv, OwnActs, Proposed, IInv, ProposalFresh
<1>3. prop[t].body = st[Peer(t.by)]
  BY <1>1, <1>2 DEF Save, IInv, AgreedSaved
<1>4. prop[t].body = NextState(prop[t].act, st[t.by])
  BY <1>1, <1>2 DEF BuiltOn, Built
<1>5. ~Has(t.cond, st[t.by])
  BY DEF RollInv, PayerLast
<1>6. ~Has(t.cond, prop[t].body)
  BY <1>1, <1>4, <1>5, HasNext
<1> QED
  BY <1>2, <1>3, <1>6

(* Once an opening is undone, no request can do it again. *)
LEMMA PartyCleanStep ==
    ASSUME MaxCrash = 0, IInv, BuiltOn, RollInv, [Next]_vars
    PROVE  PartyClean'
<1> SUFFICES ASSUME NEW t \in Tasks, t.type = "add", Undone(t)'
             PROVE  /\ ~Has(t.cond, st'[Peer(t.by)])
                    /\ \A m \in late' : m.task = t => m.body.seqno <= st'[Peer(t.by)].seqno
  BY DEF PartyClean, Has
<1> DEFINE n == t.by
           p == Peer(t.by)
<1>1. /\ n \in Node /\ p \in Node /\ p # n /\ Peer(p) = n
      /\ st[n].seqno \in Nat /\ st[p].seqno \in Nat /\ st[p] \in Body
  BY Facts DEF IInv
<1>2. \A u \in Tasks : u.type = "add" /\ u.cond = t.cond => u = t
  BY OneOpening
<1>3. \A m \in late : m.task \in Tasks /\ m.body.seqno \in Nat
  BY Facts DEF IInv
<1>4. ph[t] # "idle" => status[t] = "todo"
  BY DEF RollInv, RunsTodo
<1>5. st'[p] = st[p] \/ st'[p].seqno = st[p].seqno + 1
  BY <1>1, SeqnoGrows
<1>6. CASE Undone(t)
  <2>1. /\ ~Has(t.cond, st[p])
        /\ \A m \in late : m.task = t => m.body.seqno <= st[p].seqno
    BY <1>6 DEF RollInv, PartyClean
  <2>2. ph[t] # "wait" /\ ~Process(t)
    BY <1>4, <1>6 DEF Undone, Process, IInv, HoldsLock
  <2>3. ASSUME Has(t.cond, st'[p]) PROVE FALSE
    BY <1>1, <1>2, <1>3, <2>1, <2>2, <2>3, OpenedBy DEF RollInv
  <2>4. ASSUME NEW m \in late', m.task = t PROVE m.body.seqno <= st'[p].seqno
    <3>1. m \in late
      BY <2>2, <2>4, LateStep
    <3> QED
      BY <1>1, <1>3, <1>5, <2>1, <2>4, <3>1
  <2> QED
    BY <2>3, <2>4
<1>7. CASE ~Undone(t)
  <2>1. Save(t) /\ Reverting(t) /\ ~Kept(t) /\ prop'[t] = prop[t] /\ ph[t] = "wait"
    <3>1. Save(t) => ph[t] = "wait"
      BY DEF Save, IInv, HoldsLock
    <3> QED
      BY <1>4, <1>7, <3>1, TaskStep DEF Undone, Kept, Reverting, RollInv
  <2>2. ~Has(t.cond, st[p]) /\ st[p].seqno = st[n].seqno + 1
    BY <2>1, RevertSaved
  <2>3. late' = late /\ st'[p] = st[p]
    BY <1>1, <2>1 DEF Save, Retry, IInv, TypeOK
  <2>4. ASSUME NEW m \in late, m.task = t PROVE m.body.seqno <= st[n].seqno + 1
    BY <1>1, <1>3, <2>4 DEF IInv, LateHarmless
  <2> QED
    BY <2>2, <2>3, <2>4
<1> QED
  BY <1>6, <1>7

(* A refused opening is rolled back on both sides before it is reported, for any
   tasks, conditionals, lost and late requests, as long as no node restarts: a
   restart between the saved state and the end of the task runs it again. *)
THEOREM RolledBackHolds ==
    ASSUME Forwarded = {}, ~CrossingLate, MaxCrash = 0
    PROVE  Spec => []RolledBack
<1>1. Init => BuiltOn /\ RollInv
  <2> SUFFICES ASSUME Init PROVE BuiltOn /\ RollInv
    OBVIOUS
  <2>1. /\ late = {} /\ \A n \in Node : st[n].conds = {} /\ st[n].paid = {}
        /\ \A t \in Tasks : ph[t] = "idle" /\ status[t] = "none"
    BY DEF Init, Genesis
  <2>2. BuiltOn /\ OwnActs /\ RunsTodo
    BY <2>1 DEF BuiltOn, OwnActs, RunsTodo
  <2>3. PayerLast /\ PartyClean
    BY <2>1, TaskFacts DEF PayerLast, PartyClean, Undone, Has
  <2> QED
    BY <2>2, <2>3 DEF RollInv
<1>2. IInv /\ BuiltOn /\ RollInv /\ [Next]_vars => (BuiltOn /\ RollInv)'
  BY BuiltStep, OwnActsStep, PayerLastStep, PartyCleanStep DEF RollInv
<1>3. IInv /\ RollInv => RolledBack
  <2> SUFFICES ASSUME IInv, RollInv, NEW t \in Tasks, t.type = "add", status[t] = "denied",
                      NEW n \in Node
               PROVE  t.cond \notin st[n].conds \cup st[n].paid
    BY DEF RolledBack
  <2>1. ~Kept(t) /\ Undone(t)
    BY DEF RollInv, RunsTodo, Kept, Undone
  <2>2. n = t.by \/ n = Peer(t.by)
    BY TaskFacts DEF Node, Peer
  <2> QED
    BY <2>1, <2>2 DEF RollInv, PayerLast, PartyClean, Has
<1> QED
  BY Inductive, <1>1, <1>2, <1>3, PTL DEF Spec
=============================================================================
