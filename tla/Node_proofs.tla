---------------------------- MODULE Node_proofs ----------------------------
(***************************************************************************)
(* Proofs about the two things that keep the work of a node on one channel *)
(* apart, for any number of tasks, queues, channels and attempts: the task *)
(* queue (TaskQueue) runs the tasks of a queue one after another and loses *)
(* none; the channel lock (ChannelLock) keeps the two nodes apart.         *)
(***************************************************************************)
EXTENDS TaskQueue, ChannelLock, TLAPS

USE ConstantsAssumption

\* A stored task keeps the time it was created with: the one given, or a moment
\* of the clock that no given time names and that has passed.
Dated ==
    \A t \in Tasks : state[t] # "none" =>
        IF After[t] = Unset THEN after[t] < now /\ (\A u \in Tasks : After[u] # after[t])
                            ELSE after[t] = After[t]

\* The index leads only to open tasks, and one key to one task.
Indexed ==
    /\ \A t \in index : state[t] = "open"
    /\ \A t, u \in index : SameKey(t, u) => t = u

\* A task that runs is due, found through the index, and locked by this process
\* for longer than it runs.
RunLocked ==
    \A t \in Tasks : runs[t] > 0 =>
        /\ runs[t] = 1 /\ t \in index /\ after[t] <= now
        /\ locked[t] # Unset /\ locked[t].till > now /\ locked[t].epoch = epoch

\* What stands in the index before a running task of the same queue is given up.
FirstRuns ==
    \A t \in Tasks, u \in index :
        runs[t] > 0 /\ Queue[u] = Queue[t] /\ after[u] < after[t] => Expired(u)

\* The inductive invariant.
IInv == TypeOK /\ Dated /\ Indexed /\ RunLocked /\ FirstRuns /\ QueueExclusive

-----------------------------------------------------------------------------
\* The smaller of two times is one of them.
LEMMA MinOfTwo == ASSUME NEW a \in Nat, NEW b \in Nat PROVE Min({a, b}) \in Nat
  <1> DEFINE m == IF a <= b THEN a ELSE b
  <1>1. m \in {a, b} /\ \A y \in {a, b} : m <= y
    OBVIOUS
  <1>2. \E x \in {a, b} : \A y \in {a, b} : x <= y
    BY <1>1
  <1>3. Min({a, b}) \in {a, b}
    BY <1>2 DEF Min
  <1> QED
    BY <1>3

\* A retry is due at a time.
LEMMA RetryTime == ASSUME NEW n \in Nat, NEW d \in Delays PROVE Min({n + d, MaxTime}) \in Nat
  <1>1. d \in Nat /\ MaxTime \in Nat
    OBVIOUS
  <1>2. n + d \in Nat
    BY <1>1
  <1> QED
    BY <1>1, <1>2, MinOfTwo

\* A time that is not later and not the same is earlier.
LEMMA Earlier == ASSUME NEW a \in Nat, NEW b \in Nat, a <= b, a # b PROVE a < b
  OBVIOUS

\* The type invariant is inductive by itself.
LEMMA TypeInit == Init => TypeOK
  BY DEF Init, TypeOK

\* Every step keeps the shape of the state.
LEMMA TypeStep == TypeOK /\ [Next]_vars => TypeOK'
  <1> SUFFICES ASSUME TypeOK, [Next]_vars PROVE TypeOK'
    OBVIOUS
  <1> USE DEF TypeOK
  <1>1. CASE \E t \in Tasks : CreateTask(t)
    BY <1>1 DEF CreateTask
  <1>2. CASE \E t \in Tasks : AcquireTask(t)
    <2> PICK t \in Tasks : AcquireTask(t)
      BY <1>2
    <2>1. [till |-> now + LockTime, epoch |-> epoch] \in [till : Nat, epoch : Nat]
      OBVIOUS
    <2>2. locked' \in [Tasks -> [till : Nat, epoch : Nat] \cup {Unset}]
      BY <2>1 DEF AcquireTask
    <2> QED
      BY <2>2 DEF AcquireTask
  <1>3. CASE \E t \in Tasks : CompleteTask(t)
    BY <1>3 DEF CompleteTask
  <1>4. CASE \E t \in Tasks : RetryTask(t)
    <2> PICK t \in Tasks : RetryTask(t)
      BY <1>4
    <2>1. PICK d \in Delays : retryAt' = [retryAt EXCEPT ![t] = Min({now + d, MaxTime})]
      BY DEF RetryTask
    <2>2. Min({now + d, MaxTime}) \in Nat
      BY RetryTime
    <2>3. retryAt' \in [Tasks -> Nat]
      BY <2>1, <2>2
    <2> QED
      BY <2>3 DEF RetryTask
  <1>5. CASE AcquireNothing
    BY <1>5 DEF AcquireNothing
  <1>6. CASE Tick
    BY <1>6 DEF Tick
  <1>7. CASE Restart
    BY <1>7 DEF Restart
  <1>8. CASE UNCHANGED vars
    BY <1>8 DEF vars
  <1> QED
    BY <1>1, <1>2, <1>3, <1>4, <1>5, <1>6, <1>7, <1>8 DEF Next

\* Every record, lock and counter of the queue stays of its type (db/task.go).
THEOREM TypeCorrect == Spec => []TypeOK
  BY TypeInit, TypeStep, PTL DEF Spec

-----------------------------------------------------------------------------
\* No task exists at the start.
LEMMA InvInit == Init => IInv
  BY TypeInit DEF Init, IInv, Dated, Indexed, RunLocked, FirstRuns, QueueExclusive

\* A running task holds back every later task of its queue, and itself.
LEMMA RunningHolds ==
  ASSUME IInv, NEW t \in Tasks, NEW u \in Tasks, runs[t] > 0, Queue[u] = Queue[t],
         u = t \/ after[t] < after[u]
  PROVE  HeldBack(u)
  BY DEF IInv, TypeOK, Indexed, RunLocked, HeldBack, Holds, Due, Before

\* A candidate comes before all tasks of its queue that are not given up: what
\* holds back an earlier task would hold back the candidate too.
LEMMA CandidateFirst ==
  ASSUME IInv, NEW t \in Tasks, Candidate(t), \A u \in Tasks : Candidate(u) => ~Before(u, t),
         NEW u \in index, Queue[u] = Queue[t], after[u] < after[t]
  PROVE  Expired(u)
  <1>1. u \in Tasks /\ Due(u) /\ Before(u, t)
    BY DEF IInv, TypeOK, Indexed, Candidate, Due, Before
  <1>2. ~HeldBack(u)
    BY <1>1 DEF IInv, TypeOK, Candidate, HeldBack, Before
  <1> QED
    BY <1>1, <1>2 DEF Candidate

\* Nothing of a queue runs while AcquireTask finds a candidate in it.
LEMMA CandidateAlone ==
  ASSUME IInv, NEW t \in Tasks, Candidate(t), NEW u \in Tasks, Queue[u] = Queue[t]
  PROVE  runs[u] = 0
  <1> SUFFICES ASSUME runs[u] > 0 PROVE FALSE
    BY DEF IInv, TypeOK
  <1>1. t \in index /\ u \in index /\ ~Expired(t) /\ ~HeldBack(t)
    BY DEF IInv, RunLocked, Candidate, Due
  <1>2. ~(u = t \/ after[u] < after[t])
    BY <1>1, RunningHolds
  <1>3. ~(after[t] < after[u])
    BY <1>1 DEF IInv, FirstRuns
  <1>4. after[t] = after[u]
    <2>1. after[t] \in Nat /\ after[u] \in Nat
      BY DEF IInv, TypeOK
    <2> QED
      BY <1>2, <1>3, <2>1
  <1> QED
    BY <1>1, <1>2, <1>4 DEF SameKey, IInv, Indexed

\* Creating a task keeps the invariant: its key is new or overwrites an equal one.
LEMMA CreateInv == ASSUME IInv, TypeOK', NEW t \in Tasks, CreateTask(t) PROVE IInv'
  <1> USE DEF IInv, TypeOK
  <1>1. /\ after'[t] >= now /\ after'[t] \in Nat /\ now' = now + 1
        /\ \A u \in Tasks : u # t => after'[u] = after[u] /\ state'[u] = state[u]
        /\ state'[t] = "open" /\ state[t] = "none" /\ t \notin index
    BY DEF CreateTask, Indexed
  <1>2. Dated'
    <2>1. after'[t] = IF After[t] = Unset THEN now ELSE After[t]
      BY DEF CreateTask
    <2> SUFFICES ASSUME NEW u \in Tasks, state'[u] # "none"
                 PROVE  IF After[u] = Unset
                          THEN after'[u] < now' /\ (\A w \in Tasks : After[w] # after'[u])
                          ELSE after'[u] = After[u]
      BY DEF Dated
    <2>2. CASE u = t
      BY <2>1, <2>2, <1>1 DEF CreateTask
    <2>3. CASE u # t
      BY <2>3, <1>1 DEF Dated
    <2> QED
      BY <2>2, <2>3
  <1>3. Indexed'
    BY <1>1 DEF CreateTask, Indexed, SameKey
  <1>4. ASSUME NEW u \in Tasks, runs[u] > 0 PROVE after[u] < after'[t]
    <2>1. after[u] <= now /\ state[u] = "open" /\ after[u] \in Nat /\ now \in Nat
      BY <1>4 DEF RunLocked, Indexed
    <2>2. CASE After[t] = Unset
      <3>1. after'[t] = now /\ After[u] # now
        BY <2>2 DEF CreateTask
      <3>2. after[u] # now
        BY <3>1, <2>1 DEF Dated
      <3> QED
        BY <2>1, <3>1, <3>2, Earlier, Zenon
    <2>3. CASE After[t] # Unset
      BY <2>1, <2>3 DEF CreateTask
    <2> QED
      BY <2>2, <2>3
  <1>5. \A u \in Tasks : runs[u] > 0 => u \in index' /\ u # t
    BY <1>1, <1>4 DEF CreateTask, RunLocked
  <1>6. RunLocked'
    BY <1>1, <1>5 DEF CreateTask, RunLocked, TimeMayPass
  <1>7. FirstRuns'
    <2> SUFFICES ASSUME NEW u \in Tasks, NEW w \in index', runs'[u] > 0, Queue[w] = Queue[u],
                        after'[w] < after'[u]
                 PROVE  Expired(w)'
      BY DEF FirstRuns
    <2>1. runs[u] > 0 /\ u # t /\ after'[u] = after[u]
      BY <1>1, <1>5 DEF CreateTask
    <2>2. w # t
      BY <2>1, <1>1, <1>4
    <2>3. w \in index /\ after'[w] = after[w]
      BY <2>2, <1>1 DEF CreateTask
    <2>4. Expired(w)
      BY <2>1, <2>3 DEF FirstRuns
    <2> QED
      BY <2>4, <2>3, <1>1 DEF Expired
  <1>8. QueueExclusive'
    BY DEF CreateTask, QueueExclusive
  <1> QED
    BY <1>2, <1>3, <1>6, <1>7, <1>8

\* Taking a task keeps the invariant: its queue had no other that runs.
LEMMA AcquireInv == ASSUME IInv, TypeOK', NEW t \in Tasks, AcquireTask(t) PROVE IInv'
  <1> USE DEF IInv, TypeOK
  <1>1. Dated' /\ Indexed'
    BY DEF AcquireTask, Dated, Indexed, SameKey
  <1>2. \A u \in Tasks : Queue[u] = Queue[t] => runs[u] = 0
    BY CandidateAlone DEF AcquireTask
  <1>3. /\ runs'[t] = 1 /\ \A u \in Tasks : u # t => runs'[u] = runs[u]
        /\ index' \subseteq index
    BY <1>2 DEF AcquireTask
  <1>4. QueueExclusive'
    BY <1>2, <1>3 DEF QueueExclusive
  <1>5. RunLocked'
    <2> SUFFICES ASSUME NEW u \in Tasks, runs'[u] > 0
                 PROVE  /\ runs'[u] = 1 /\ u \in index' /\ after'[u] <= now'
                        /\ locked'[u] # Unset /\ locked'[u].till > now'
                        /\ locked'[u].epoch = epoch'
      BY DEF RunLocked
    <2>1. CASE u = t
      <3>1. locked'[t] = [till |-> now + LockTime, epoch |-> epoch]
        BY DEF AcquireTask
      <3>2. locked'[t] # Unset /\ locked'[t].till > now' /\ locked'[t].epoch = epoch'
        BY <3>1 DEF AcquireTask
      <3>3. t \in index' /\ after'[t] <= now'
        BY DEF AcquireTask, Candidate, Due, Dropped, Before
      <3> QED
        BY <2>1, <3>2, <3>3, <1>3
    <2>2. CASE u # t
      <3>1. runs[u] > 0
        BY <2>2, <1>3
      <3>2. HeldBack(u)
        BY <3>1, RunningHolds
      <3>3. u \in index'
        BY <3>1, <3>2 DEF AcquireTask, Dropped, RunLocked
      <3> QED
        BY <2>2, <3>1, <3>3, <1>3 DEF AcquireTask, RunLocked
    <2> QED
      BY <2>1, <2>2
  <1>6. FirstRuns'
    <2> SUFFICES ASSUME NEW u \in Tasks, NEW w \in index', runs'[u] > 0, Queue[w] = Queue[u],
                        after'[w] < after'[u]
                 PROVE  Expired(w)'
      BY DEF FirstRuns
    <2>1. Expired(w)
      <3>1. CASE u = t
        BY <3>1, <1>3, CandidateFirst DEF AcquireTask
      <3>2. CASE u # t
        BY <3>2, <1>3 DEF AcquireTask, FirstRuns
      <3> QED
        BY <3>1, <3>2
    <2> QED
      BY <2>1 DEF Expired, AcquireTask
  <1> QED
    BY <1>1, <1>4, <1>5, <1>6

\* A run that ends, in success or failure, leaves its queue idle.
LEMMA EndInv ==
  ASSUME IInv, TypeOK', NEW t \in Tasks, CompleteTask(t) \/ RetryTask(t) PROVE IInv'
  <1> USE DEF IInv, TypeOK
  <1>1. /\ runs'[t] = 0 /\ \A u \in Tasks : u # t => runs'[u] = runs[u] /\ locked'[u] = locked[u]
        /\ index' \subseteq index /\ UNCHANGED <<after, now, epoch>>
    BY DEF CompleteTask, RetryTask, RunLocked
  <1>2. \A u \in Tasks : runs'[u] > 0 => u # t /\ runs[u] > 0 /\ Queue[u] # Queue[t]
    BY <1>1 DEF QueueExclusive, CompleteTask, RetryTask
  <1>3. \A u \in Tasks : runs'[u] > 0 => u \in index'
    BY <1>2 DEF CompleteTask, RetryTask, RunLocked, SameKey
  <1>4. Dated'
    BY DEF CompleteTask, RetryTask, Dated, RunLocked, Indexed
  <1>5. Indexed'
    BY <1>1 DEF CompleteTask, RetryTask, Indexed, SameKey
  <1>6. RunLocked'
    BY <1>1, <1>2, <1>3 DEF RunLocked
  <1>7. FirstRuns'
    BY <1>1, <1>2 DEF FirstRuns, Expired
  <1>8. QueueExclusive'
    BY <1>1, <1>2 DEF QueueExclusive
  <1> QED
    BY <1>4, <1>5, <1>6, <1>7, <1>8

\* A poll that finds no task takes expired ones out of the index only.
LEMMA NothingInv == ASSUME IInv, TypeOK', AcquireNothing PROVE IInv'
  <1> USE DEF IInv, TypeOK
  <1>1. \A u \in Tasks : runs[u] > 0 => u \in index'
    BY RunningHolds DEF AcquireNothing, Dropped, RunLocked
  <1>2. Dated' /\ Indexed' /\ QueueExclusive'
    BY DEF AcquireNothing, Dated, Indexed, SameKey, QueueExclusive
  <1>3. RunLocked'
    BY <1>1 DEF AcquireNothing, RunLocked
  <1>4. FirstRuns'
    BY DEF AcquireNothing, FirstRuns, Expired
  <1> QED
    BY <1>2, <1>3, <1>4

\* Every step keeps the invariant.
LEMMA InvStep == IInv /\ [Next]_vars => IInv'
  <1> SUFFICES ASSUME IInv, [Next]_vars PROVE IInv'
    OBVIOUS
  <1>0. TypeOK'
    BY TypeStep DEF IInv
  <1>1. CASE \E t \in Tasks : CreateTask(t)
    BY <1>0, <1>1, CreateInv
  <1>2. CASE \E t \in Tasks : AcquireTask(t)
    BY <1>0, <1>2, AcquireInv
  <1>3. CASE \E t \in Tasks : CompleteTask(t) \/ RetryTask(t)
    BY <1>0, <1>3, EndInv
  <1>4. CASE AcquireNothing
    BY <1>0, <1>4, NothingInv
  <1>5. CASE Tick
    BY <1>0, <1>5 DEF Tick, TimeMayPass, IInv, TypeOK, Dated, Indexed, SameKey, RunLocked,
       FirstRuns, Expired, QueueExclusive
  <1>6. CASE Restart
    BY <1>0, <1>6 DEF Restart, IInv, TypeOK, Dated, Indexed, SameKey, RunLocked,
       FirstRuns, Expired, QueueExclusive
  <1>7. CASE UNCHANGED vars
    BY <1>0, <1>7 DEF vars, IInv, TypeOK, Dated, Indexed, SameKey, RunLocked,
       FirstRuns, Expired, QueueExclusive
  <1> QED
    BY <1>1, <1>2, <1>3, <1>4, <1>5, <1>6, <1>7 DEF Next

\* The invariant of the queue holds in every reachable state.
THEOREM Inductive == Spec => []IInv
  BY InvInit, InvStep, PTL DEF Spec

\* AcquireTask never gives out a task of a queue in which one runs, whatever
\* expires, fails, waits or restarts in between ("skip everything in this queue").
THEOREM QueueExclusiveHolds == Spec => []QueueExclusive
  <1>1. IInv => QueueExclusive
    BY DEF IInv
  <1> QED
    BY <1>1, Inductive, PTL

\* Only AcquireTask starts a run.
LEMMA OnlyAcquireStarts ==
  ASSUME IInv, Next, NEW t \in Tasks, runs'[t] > runs[t]
  PROVE  AcquireTask(t)
  <1> USE DEF IInv, TypeOK
  <1>1. ASSUME NEW u \in Tasks, CompleteTask(u) \/ RetryTask(u) PROVE FALSE
    BY <1>1 DEF CompleteTask, RetryTask
  <1>2. ASSUME NEW u \in Tasks, AcquireTask(u) PROVE u = t
    BY <1>2 DEF AcquireTask
  <1>3. ASSUME (\E u \in Tasks : CreateTask(u)) \/ AcquireNothing \/ Tick \/ Restart PROVE FALSE
    BY <1>3 DEF CreateTask, AcquireNothing, Tick, Restart
  <1> QED
    BY <1>1, <1>2, <1>3 DEF Next

\* AcquireTask does not overtake: every task the index puts before the started
\* one in its queue has outlived its time.
THEOREM InOrderHolds == Spec => InOrder
  <1> DEFINE Step == \A t \in Tasks : runs'[t] > runs[t] =>
                       \A u \in index : Queue[u] = Queue[t] /\ Before(u, t) =>
                         state[u] = "done" \/ Expired(u)
  <1>1. IInv /\ [Next]_vars => [Step]_vars
    <2> SUFFICES ASSUME IInv, Next, NEW t \in Tasks, runs'[t] > runs[t],
                        NEW u \in index, Queue[u] = Queue[t], Before(u, t)
                 PROVE  Expired(u)
      OBVIOUS
    <2>1. AcquireTask(t)
      BY OnlyAcquireStarts
    <2>2. after[u] < after[t]
      BY DEF Before, IInv, TypeOK
    <2> QED
      BY <2>1, <2>2, CandidateFirst DEF AcquireTask
  <1> QED
    BY <1>1, Inductive, PTL DEF Spec, InOrder

-----------------------------------------------------------------------------
\* No two tasks of a queue are given the same start time: the key of the index
\* holds no more than the two, and the second would take the place of the first.
DistinctStarts ==
    \A t, u \in Tasks : After[t] # Unset /\ After[t] = After[u] /\ Queue[t] = Queue[u] => t = u

\* Stored tasks have distinct keys.
OneKeyEach ==
    \A t, u \in Tasks : state[t] # "none" /\ state[u] # "none" /\ SameKey(t, u) => t = u

\* A new task gets a key that no stored task has: the clock's moment, which is
\* later than every earlier one and no given time, or a given time of its own.
LEMMA FreshKey ==
  ASSUME IInv, DistinctStarts, NEW t \in Tasks, CreateTask(t),
         NEW u \in Tasks, u # t, state[u] # "none", Queue[u] = Queue[t]
  PROVE  after[u] # after'[t]
  <1>1. /\ after'[t] = (IF After[t] = Unset THEN now ELSE After[t]) /\ now \in Nat
        /\ IF After[t] = Unset THEN \A w \in Tasks : After[w] # now ELSE After[t] > now
        /\ After[t] # Unset => After[t] \in Nat
    BY DEF CreateTask, IInv, TypeOK
  <1>2. CASE After[u] = Unset
    <2>1. after[u] < now /\ after[u] \in Nat
      BY <1>2 DEF IInv, Dated, TypeOK
    <2> QED
      BY <1>1, <2>1
  <1>3. CASE After[u] # Unset
    BY <1>1, <1>3 DEF IInv, Dated, DistinctStarts
  <1> QED
    BY <1>2, <1>3

\* If no two tasks of a queue start in the same instant, no step loses a task.
LEMMA KeepStep ==
  ASSUME IInv, DistinctStarts, OneKeyEach, NotLost, [Next]_vars
  PROVE  OneKeyEach' /\ NotLost'
  <1> USE DEF IInv, TypeOK
  <1>1. ASSUME NEW t \in Tasks, CreateTask(t) PROVE OneKeyEach' /\ NotLost'
    <2>1. /\ \A u \in Tasks : u # t => after'[u] = after[u] /\ state'[u] = state[u]
          /\ now' = now + 1 /\ t \in index'
          /\ index' = {u \in index : ~(after[u] = after'[t] /\ Queue[u] = Queue[t])} \cup {t}
      BY <1>1 DEF CreateTask
    <2>2. \A u \in Tasks : u # t /\ state[u] # "none" /\ Queue[u] = Queue[t] => after[u] # after'[t]
      BY <1>1, FreshKey
    <2>3. OneKeyEach'
      BY <2>1, <2>2 DEF OneKeyEach, SameKey
    <2>4. NotLost'
      BY <2>1, <2>2 DEF NotLost, Expired
    <2> QED
      BY <2>3, <2>4
  <1>2. ASSUME NEW t \in Tasks, AcquireTask(t) PROVE OneKeyEach' /\ NotLost'
    BY <1>2 DEF AcquireTask, Dropped, OneKeyEach, SameKey, NotLost, Expired
  <1>3. ASSUME NEW t \in Tasks, CompleteTask(t) PROVE OneKeyEach' /\ NotLost'
    <2>1. state[t] = "open"
      BY <1>3 DEF CompleteTask, RunLocked, Indexed
    <2> QED
      BY <1>3, <2>1 DEF CompleteTask, OneKeyEach, SameKey, NotLost, Expired
  <1>4. ASSUME NEW t \in Tasks, RetryTask(t) PROVE OneKeyEach' /\ NotLost'
    BY <1>4 DEF RetryTask, OneKeyEach, SameKey, NotLost, Expired
  <1>5. CASE AcquireNothing
    BY <1>5 DEF AcquireNothing, Dropped, OneKeyEach, SameKey, NotLost, Expired
  <1>6. CASE Tick \/ Restart \/ UNCHANGED vars
    BY <1>6 DEF Tick, Restart, vars, OneKeyEach, SameKey, NotLost, Expired
  <1> QED
    BY <1>1, <1>2, <1>3, <1>4, <1>5, <1>6 DEF Next

\* If no two tasks of a queue are given the same start, CreateTask never takes
\* the index key of another task and CompleteTask never deletes one: a stored
\* task can be found until it is done or over its time.
THEOREM NotLostHolds == ASSUME DistinctStarts PROVE Spec => []NotLost
  <1>1. Init => OneKeyEach /\ NotLost
    BY DEF Init, OneKeyEach, NotLost
  <1>2. IInv /\ OneKeyEach /\ NotLost /\ [Next]_vars => OneKeyEach' /\ NotLost'
    BY KeepStep
  <1> QED
    BY <1>1, <1>2, Inductive, PTL DEF Spec

-----------------------------------------------------------------------------
(* The channel lock, for any number of channels and attempts: when locks   *)
(* are given back in time, the master and the right side of a channel never*)
(* work on it together and no mutex is unlocked twice.                     *)

USE LockAssumption, NoneAssumption

\* A watchdog is started once for a lock, and no lock is asked for again.
Granted ==
    \A g \in Grant : dog[g] # "none" =>
        g.id <= lid[g.ch] /\ (g.id = lid[g.ch] => phase[g.ch] # "asking")

\* The one grant of the node has locked its channel's mutex, and its watchdog
\* has not been told to end.
Current ==
    ext # None =>
        /\ dog[ext] \in {"sleep", "asked", "agreed"} /\ ext \notin closed
        /\ owner[ext.ch] = -ext.id

\* A watchdog that may still act watches the one grant; one that has forgotten
\* the grant is about to unlock the mutex it still holds.
Watching ==
    \A g \in Grant :
        /\ dog[g] \in {"asked", "agreed"} \/ (dog[g] = "sleep" /\ g \notin closed) => ext = g
        /\ dog[g] = "forgot" => owner[g.ch] = -g.id /\ ext # g
        /\ g \in closed => dog[g] \in {"sleep", "gone"}

\* An unlock request on its way is about the one grant, which the right side has
\* let go and the watchdog has not yet asked about.
InTime ==
    /\ \A g \in unl : ext = g /\ dog[g] = "sleep" /\ ~Holding(g)
    /\ \A c \in Channels : phase[c] = "holding" => ext = This(c) /\ dog[This(c)] = "sleep"

\* A lock that was asked for has an ID.
Asked == \A c \in Channels : phase[c] # "free" => lid[c] > 0

\* The inductive invariant.
LockInv == LockTypeOK /\ Granted /\ Current /\ Watching /\ InTime /\ Asked /\ UnlockedOnce

-----------------------------------------------------------------------------
\* A grant is its channel and its ID.
LEMMA GrantParts ==
  /\ \A g \in Grant : g.ch \in Channels /\ g.id \in 1..MaxAttempts
  /\ \A g, h \in Grant : g.ch = h.ch /\ g.id = h.id => g = h
  BY DEF Grant

\* The lock a right side asks for or holds is a grant's.
LEMMA ThisIsGrant ==
  ASSUME LockTypeOK, Asked, NEW c \in Channels, phase[c] # "free"
  PROVE  This(c) \in Grant /\ This(c).ch = c /\ This(c).id = lid[c] /\ lid[c] \in 1..MaxAttempts
  BY DEF LockTypeOK, Asked, This, Grant

\* What sync.Mutex.Unlock leaves of the types.
LEMMA UnlockType ==
  ASSUME LockTypeOK, NEW c \in Channels, Unlock(c)
  PROVE  owner' \in [Channels -> (-MaxAttempts)..Own] /\ fatal' \in BOOLEAN
  <1>1. Nobody \in (-MaxAttempts)..Own
    BY DEF Nobody, Own
  <1>2. owner' \in [Channels -> (-MaxAttempts)..Own]
    BY <1>1 DEF LockTypeOK, Unlock
  <1>3. fatal' = (fatal \/ owner[c] = Nobody)
    BY DEF Unlock
  <1>4. fatal' \in BOOLEAN
    BY <1>3, Zenon
  <1> QED
    BY <1>2, <1>4

\* The type invariant is inductive with the facts that make its IDs positive.
LEMMA LockTypeStep ==
  ASSUME LockTypeOK, Asked, [LockNext]_lockVars
  PROVE  LockTypeOK' /\ Asked'
  <1> USE DEF LockTypeOK, Asked, Own, Nobody
  <1>1. ASSUME NEW c \in Channels, lid[c] > 0 PROVE This(c) \in Grant
    BY <1>1 DEF This, Grant
  <1>2. ASSUME NEW c \in Channels, Ask(c) \/ GiveUp(c) PROVE LockTypeOK' /\ Asked'
    BY <1>2 DEF Ask, GiveUp
  <1>3. ASSUME NEW c \in Channels, Release(c) PROVE LockTypeOK' /\ Asked'
    <2>1. This(c) \in Grant
      BY <1>1, <1>3 DEF Release
    <2> QED
      BY <2>1, <1>3 DEF Release
  <1>4. ASSUME NEW c \in Channels, GrantLock(c) PROVE LockTypeOK' /\ Asked'
    <2>1. This(c) \in Grant /\ lid[c] \in 1..MaxAttempts
      BY <1>1, <1>4 DEF GrantLock
    <2>2. -lid[c] \in (-MaxAttempts)..Own
      BY <2>1
    <2> QED
      BY <2>1, <2>2, <1>4 DEF GrantLock
  <1>5. ASSUME NEW c \in Channels, OwnLock(c) PROVE LockTypeOK' /\ Asked'
    BY <1>5 DEF OwnLock
  <1>6. ASSUME NEW c \in Channels, OwnUnlock(c) PROVE LockTypeOK' /\ Asked'
    <2>1. owner' \in [Channels -> (-MaxAttempts)..Own] /\ fatal' \in BOOLEAN
      BY <1>6, UnlockType DEF OwnUnlock
    <2> QED
      BY <2>1, <1>6 DEF OwnUnlock
  <1>7. ASSUME NEW g \in Grant, HandleUnlock(g) PROVE LockTypeOK' /\ Asked'
    <2>1. CASE ext = None
      BY <2>1, <1>7 DEF HandleUnlock
    <2>2. CASE ext # None
      <3>1. ext \in Grant /\ ext.ch \in Channels /\ Unlock(ext.ch)
        BY <2>2, <1>7 DEF HandleUnlock, Grant
      <3>2. owner' \in [Channels -> (-MaxAttempts)..Own] /\ fatal' \in BOOLEAN
        BY <3>1, UnlockType
      <3> QED
        BY <2>2, <3>1, <3>2, <1>7 DEF HandleUnlock
    <2> QED
      BY <2>1, <2>2
  <1>9. ASSUME NEW g \in Grant, WatchdogAsk(g) \/ WatchdogAnswer(g) \/ WatchdogForget(g)
                                \/ WatchdogEnd(g)
        PROVE  LockTypeOK' /\ Asked'
    BY <1>9 DEF WatchdogAsk, WatchdogAnswer, WatchdogForget, WatchdogEnd
  <1>10. ASSUME NEW g \in Grant, WatchdogUnlock(g) PROVE LockTypeOK' /\ Asked'
    <2>1. g.ch \in Channels
      BY DEF Grant
    <2>2. owner' \in [Channels -> (-MaxAttempts)..Own] /\ fatal' \in BOOLEAN
      BY <2>1, <1>10, UnlockType DEF WatchdogUnlock
    <2> QED
      BY <2>2, <1>10 DEF WatchdogUnlock
  <1>8. CASE UNCHANGED lockVars
    BY <1>8 DEF lockVars
  <1> QED
    BY <1>2, <1>3, <1>4, <1>5, <1>6, <1>7, <1>8, <1>9, <1>10 DEF LockNext

\* At the start nothing is held and nobody waits.
LEMMA LockTypeInit == LockInit => LockTypeOK /\ Asked
  <1>1. 0 \in 0..MaxAttempts /\ Nobody \in (-MaxAttempts)..Own
    BY DEF Own, Nobody
  <1>2. LockInit => Asked
    BY DEF LockInit, Asked
  <1>3. LockInit => /\ phase \in [Channels -> {"free", "asking", "holding"}]
                  /\ lid \in [Channels -> 0..MaxAttempts]
                  /\ owner \in [Channels -> (-MaxAttempts)..Own]
                  /\ own \in [Channels -> BOOLEAN]
    BY <1>1 DEF LockInit
  <1>4. LockInit => /\ ext \in Grant \cup {None} /\ fatal \in BOOLEAN
                  /\ dog \in [Grant -> {"none", "sleep", "asked", "agreed", "forgot", "gone"}]
                  /\ closed \in SUBSET Grant /\ unl \in SUBSET Grant
    BY DEF LockInit
  <1> QED
    BY <1>2, <1>3, <1>4 DEF LockTypeOK

\* Every lock ID, grant and watchdog stays of its type.
THEOREM LockTypeCorrect == LockSpec => []LockTypeOK
  <1>1. LockInit => LockTypeOK /\ Asked
    BY LockTypeInit
  <1>2. LockTypeOK /\ Asked /\ [LockNext]_lockVars => LockTypeOK' /\ Asked'
    BY LockTypeStep
  <1> QED
    BY <1>1, <1>2, PTL DEF LockSpec

-----------------------------------------------------------------------------

\* At the start nothing is granted.
LEMMA LockInvInit == LockInit => LockInv
  <1>1. LockInit => LockTypeOK
    BY LockTypeInit
  <1> QED
    BY <1>1 DEF LockInit, LockInv, Granted, Current, Watching, InTime, Asked, UnlockedOnce

\* The right side's steps.
LEMMA RightInv ==
  ASSUME LockInv, LockTypeOK', Asked', NEW c \in Channels, Ask(c) \/ GiveUp(c) \/ Release(c)
  PROVE  LockInv'
  <1> USE DEF LockInv, LockTypeOK
  <1>1. UNCHANGED <<owner, own, ext, dog, closed, fatal>>
    BY DEF Ask, GiveUp, Release
  <1>2. Current' /\ Watching' /\ UnlockedOnce'
    BY <1>1 DEF Current, Watching, UnlockedOnce
  <1>3. Granted'
    BY DEF Ask, GiveUp, Release, Granted, Grant
  <1>4. InTime'
    <2>1. CASE Ask(c) \/ GiveUp(c)
      <3>1. unl' = unl /\ phase'[c] # "holding" /\ phase[c] # "holding"
        BY <2>1 DEF Ask, GiveUp
      <3>2. \A d \in Channels : d # c => phase'[d] = phase[d] /\ lid'[d] = lid[d]
        BY <2>1 DEF Ask, GiveUp
      <3> QED
        BY <1>1, <3>1, <3>2 DEF InTime, Holding, This, Grant
    <2>2. CASE Release(c)
      <3>1. ext = This(c) /\ dog[This(c)] = "sleep" /\ phase'[c] = "free" /\ lid' = lid
        BY <2>2 DEF Release, InTime
      <3>2. \A d \in Channels : d # c => phase'[d] = phase[d]
        BY <2>2 DEF Release
      <3>3. unl' \subseteq unl \cup {This(c)}
        BY <2>2 DEF Release
      <3> QED
        BY <1>1, <3>1, <3>2, <3>3 DEF InTime, Holding, This
    <2> QED
      BY <2>1, <2>2
  <1> QED
    BY <1>2, <1>3, <1>4

\* A grant: there was none, so nothing watches, holds or is on its way.
LEMMA GrantInv ==
  ASSUME LockInv, LockTypeOK', Asked', NEW c \in Channels, GrantLock(c)
  PROVE  LockInv'
  <1> USE DEF LockInv, LockTypeOK
  <1>1. This(c) \in Grant /\ lid[c] \in 1..MaxAttempts
    BY DEF GrantLock, Asked, This, Grant
  <1>2. dog[This(c)] = "none" /\ ext = None /\ owner[c] = Nobody
    BY <1>1 DEF GrantLock, Granted, This, MayGrant
  <1>3. /\ dog'[This(c)] = "sleep" /\ \A g \in Grant : g # This(c) => dog'[g] = dog[g]
        /\ owner'[c] = -lid[c] /\ \A d \in Channels : d # c => owner'[d] = owner[d]
        /\ phase'[c] \in {"holding", "free"} /\ \A d \in Channels : d # c => phase'[d] = phase[d]
        /\ ext' = This(c) /\ UNCHANGED <<lid, own, closed, unl, fatal>>
    BY <1>1 DEF GrantLock
  <1>4. unl = {} /\ \A d \in Channels : phase[d] # "holding"
    <2>1. \A g \in unl : FALSE
      BY <1>2 DEF InTime
    <2>2. ASSUME NEW d \in Channels, phase[d] = "holding" PROVE FALSE
      <3>1. This(d) \in Grant
        BY <2>2 DEF Asked, This, Grant
      <3> QED
        BY <2>2, <3>1, <1>2 DEF InTime
    <2> QED
      BY <2>1, <2>2
  <1>5. This(c) \notin closed
    BY <1>1, <1>2 DEF Watching
  <1>6. This(c).ch = c /\ This(c).id = lid[c] /\ This(c)' = This(c)
    BY <1>3 DEF This
  <1>7. Current'
    BY <1>1, <1>3, <1>5, <1>6 DEF Current
  <1>8. Granted'
    BY <1>1, <1>3, <1>6 DEF Granted, Grant
  <1>9. Watching'
    <2> SUFFICES ASSUME NEW g \in Grant
                 PROVE  /\ dog'[g] \in {"asked", "agreed"} \/ (dog'[g] = "sleep" /\ g \notin closed')
                             => ext' = g
                        /\ dog'[g] = "forgot" => owner'[g.ch] = -g.id /\ ext' # g
                        /\ g \in closed' => dog'[g] \in {"sleep", "gone"}
      BY DEF Watching
    <2>1. CASE g = This(c)
      BY <2>1, <1>3, <1>5
    <2>2. CASE g # This(c)
      <3>1. dog'[g] = dog[g] /\ ext # g
        BY <2>2, <1>2, <1>3
      <3>2. dog[g] = "forgot" => g.ch # c
        BY <1>2 DEF Watching, Grant, Nobody
      <3> QED
        BY <3>1, <3>2, <1>3, <2>2 DEF Watching, Grant
    <2> QED
      BY <2>1, <2>2
  <1>10. InTime'
    BY <1>1, <1>3, <1>4, <1>6 DEF InTime
  <1>11. UnlockedOnce'
    BY <1>2, <1>3 DEF UnlockedOnce, Nobody, Own
  <1> QED
    BY <1>7, <1>8, <1>9, <1>10, <1>11

\* An unlock request undoes the grant it was sent for: there is no other.
LEMMA HandleUnlockInv ==
  ASSUME LockInv, LockTypeOK', Asked', NEW g \in Grant, HandleUnlock(g)
  PROVE  LockInv'
  <1> USE DEF LockInv, LockTypeOK
  <1>1. ext = g /\ dog[g] = "sleep" /\ ~Holding(g) /\ g # None
    BY DEF HandleUnlock, InTime
  <1>2. g.ch \in Channels /\ g.id \in 1..MaxAttempts /\ owner[g.ch] = -g.id
    BY <1>1 DEF Grant, Current
  <1>3. /\ owner'[g.ch] = Nobody /\ \A d \in Channels : d # g.ch => owner'[d] = owner[d]
        /\ closed' = closed \cup {g} /\ ext' = None /\ unl' = unl \ {g}
        /\ UNCHANGED <<phase, lid, own, dog>>
    BY <1>1, <1>2 DEF HandleUnlock, Unlock
  <1>4. fatal' = FALSE
    <2>1. fatal' = (fatal \/ owner[g.ch] = Nobody)
      BY <1>1 DEF HandleUnlock, Unlock
    <2>2. ~fatal /\ owner[g.ch] # Nobody
      BY <1>2 DEF UnlockedOnce, Nobody
    <2> QED
      BY <2>1, <2>2
  <1>5. \A d \in Channels : phase[d] # "holding"
    <2> SUFFICES ASSUME NEW d \in Channels, phase[d] = "holding" PROVE FALSE
      OBVIOUS
    <2>1. This(d) = g
      BY <1>1 DEF InTime
    <2> QED
      BY <1>1, <2>1, ThisIsGrant DEF Holding
  <1>6. unl' = {}
    BY <1>1, <1>3 DEF InTime
  <1>7. Granted' /\ Current' /\ InTime'
    BY <1>3, <1>5, <1>6 DEF Granted, Current, InTime
  <1>8. \A h \in Grant : dog[h] = "forgot" => h.ch # g.ch
    BY <1>1, <1>2, SMTT(30) DEF Watching, Grant
  <1>9. Watching'
    BY <1>1, <1>3, <1>8 DEF Watching, Grant
  <1>10. UnlockedOnce'
    BY <1>2, <1>3, <1>4 DEF UnlockedOnce, Own
  <1> QED
    BY <1>7, <1>9, <1>10

\* The watchdog's steps up to the unlock.
LEMMA WatchdogInv ==
  ASSUME Timely, LockInv, LockTypeOK', Asked', NEW g \in Grant,
         WatchdogAsk(g) \/ WatchdogAnswer(g) \/ WatchdogEnd(g)
  PROVE  LockInv'
  <1> USE DEF LockInv, LockTypeOK
  <1>1. /\ UNCHANGED <<phase, lid, owner, own, ext, closed, unl, fatal>>
        /\ \A h \in Grant : h # g => dog'[h] = dog[h]
    BY DEF WatchdogAsk, WatchdogAnswer, WatchdogEnd
  <1>2. \/ /\ ext = g /\ g \notin closed
           /\ dog[g] = "asked" \/ (g \notin unl /\ ~Holding(g))
           /\ dog'[g] \in {"sleep", "asked", "agreed"}
        \/ dog[g] = "sleep" /\ g \in closed /\ dog'[g] = "gone" /\ ext # g
    BY DEF WatchdogAsk, WatchdogAnswer, WatchdogEnd, Watching, Current
  <1>3. g \notin unl
    BY <1>2 DEF InTime
  <1>4. Granted'
    BY <1>1 DEF Granted, WatchdogAsk, WatchdogAnswer, WatchdogEnd
  <1>5. Current'
    BY <1>1, <1>2 DEF Current
  <1>6. Watching'
    BY <1>1, <1>2 DEF Watching
  <1>7. \A c \in Channels : phase[c] = "holding" => This(c) # g
    BY <1>2 DEF InTime, Holding, This
  <1>8. \A c \in Channels : phase[c] = "holding" => This(c) \in Grant
    BY DEF Asked, This, Grant
  <1>9. InTime'
    BY <1>1, <1>3, <1>7, <1>8 DEF InTime, Holding, This
  <1>10. UnlockedOnce'
    BY <1>1 DEF UnlockedOnce
  <1> QED
    BY <1>4, <1>5, <1>6, <1>9, <1>10

\* The watchdog forgets the grant while it still holds the mutex.
LEMMA ForgetInv ==
  ASSUME LockInv, LockTypeOK', Asked', NEW g \in Grant, WatchdogForget(g)
  PROVE  LockInv'
  <1> USE DEF LockInv, LockTypeOK
  <1>1. /\ UNCHANGED <<phase, lid, owner, own, closed, unl, fatal>> /\ ext' = None
        /\ dog'[g] = "forgot" /\ \A h \in Grant : h # g => dog'[h] = dog[h]
        /\ dog[g] = "agreed"
    BY DEF WatchdogForget
  <1>2. ext = g /\ g # None /\ owner[g.ch] = -g.id /\ g \notin closed
    BY <1>1 DEF Watching, Current
  <1>3. unl = {} /\ \A c \in Channels : phase[c] # "holding"
    BY <1>1, <1>2 DEF InTime
  <1>4. Granted' /\ Current' /\ InTime' /\ UnlockedOnce'
    BY <1>1, <1>3 DEF Granted, Current, InTime, UnlockedOnce
  <1>5. Watching'
    BY <1>1, <1>2 DEF Watching
  <1> QED
    BY <1>4, <1>5

\* The watchdog unlocks the mutex of the lock it has forgotten.
LEMMA WatchdogUnlockInv ==
  ASSUME LockInv, LockTypeOK', Asked', NEW g \in Grant, WatchdogUnlock(g)
  PROVE  LockInv'
  <1> USE DEF LockInv, LockTypeOK
  <1>1. g.ch \in Channels /\ g.id \in 1..MaxAttempts /\ owner[g.ch] = -g.id /\ ext # g
    BY DEF WatchdogUnlock, Watching, Grant
  <1>2. /\ UNCHANGED <<phase, lid, own, ext, closed, unl>>
        /\ dog'[g] = "gone" /\ \A h \in Grant : h # g => dog'[h] = dog[h]
        /\ owner'[g.ch] = Nobody /\ \A d \in Channels : d # g.ch => owner'[d] = owner[d]
    BY <1>1 DEF WatchdogUnlock, Unlock
  <1>3. fatal' = FALSE
    <2>1. fatal' = (fatal \/ owner[g.ch] = Nobody)
      BY DEF WatchdogUnlock, Unlock
    <2>2. ~fatal /\ owner[g.ch] # Nobody
      BY <1>1 DEF UnlockedOnce, Nobody
    <2> QED
      BY <2>1, <2>2
  <1>4. ASSUME NEW h \in Grant, h # g, owner[h.ch] = -h.id PROVE h.ch # g.ch
    BY <1>1, <1>4, GrantParts
  <1>5. Granted'
    BY <1>2 DEF Granted, WatchdogUnlock
  <1>6. Current'
    BY <1>1, <1>2, <1>4 DEF Current, Grant
  <1>7. Watching'
    BY <1>2, <1>4 DEF Watching, Grant
  <1>8. InTime'
    <2>1. g \notin unl /\ dog[g] = "forgot"
      BY <1>1 DEF WatchdogUnlock, InTime
    <2>2. \A c \in Channels : phase[c] = "holding" => This(c) \in Grant /\ This(c) # g
      BY <1>1, ThisIsGrant DEF InTime
    <2> QED
      BY <1>2, <2>1, <2>2 DEF InTime, Holding, This
  <1>9. UnlockedOnce'
    BY <1>1, <1>2, <1>3 DEF UnlockedOnce, Own
  <1> QED
    BY <1>5, <1>6, <1>7, <1>8, <1>9

\* A task of the master takes a free mutex and gives back the one it holds.
LEMMA OwnInv ==
  ASSUME LockInv, LockTypeOK', Asked', NEW c \in Channels, OwnLock(c) \/ OwnUnlock(c)
  PROVE  LockInv'
  <1> USE DEF LockInv, LockTypeOK
  <1>1. /\ UNCHANGED <<phase, lid, ext, dog, closed, unl>>
        /\ \A d \in Channels : d # c => owner'[d] = owner[d] /\ own'[d] = own[d]
        /\ owner[c] \in {Nobody, Own} /\ (own'[c] => owner'[c] = Own)
    BY DEF OwnLock, OwnUnlock, Unlock, UnlockedOnce
  <1>2. fatal' = fatal
    BY DEF OwnLock, OwnUnlock, Unlock, UnlockedOnce, Own, Nobody
  <1>3. Granted' /\ InTime'
    BY <1>1 DEF Granted, InTime, Holding, This
  <1>4. \A g \in Grant : owner[g.ch] = -g.id => g.ch # c
    BY <1>1, GrantParts DEF Own, Nobody
  <1>5. Current' /\ Watching'
    BY <1>1, <1>4 DEF Current, Watching, Grant
  <1>6. UnlockedOnce'
    BY <1>1, <1>2 DEF UnlockedOnce
  <1> QED
    BY <1>3, <1>5, <1>6

\* Every step keeps the invariant, if every holder comes back in time.
LEMMA LockInvStep == ASSUME Timely, LockInv, [LockNext]_lockVars PROVE LockInv'
  <1>0. LockTypeOK' /\ Asked'
    BY LockTypeStep DEF LockInv
  <1>1. CASE \E c \in Channels : Ask(c) \/ GiveUp(c) \/ Release(c)
    BY <1>0, <1>1, RightInv
  <1>2. CASE \E c \in Channels : GrantLock(c)
    BY <1>0, <1>2, GrantInv
  <1>3. CASE \E c \in Channels : OwnLock(c) \/ OwnUnlock(c)
    BY <1>0, <1>3, OwnInv
  <1>4. CASE \E g \in Grant : HandleUnlock(g)
    BY <1>0, <1>4, HandleUnlockInv
  <1>5. CASE \E g \in Grant : WatchdogAsk(g) \/ WatchdogAnswer(g) \/ WatchdogEnd(g)
    BY <1>0, <1>5, WatchdogInv
  <1>6. CASE \E g \in Grant : WatchdogForget(g)
    BY <1>0, <1>6, ForgetInv
  <1>7. CASE \E g \in Grant : WatchdogUnlock(g)
    BY <1>0, <1>7, WatchdogUnlockInv
  <1>8. CASE UNCHANGED lockVars
    BY <1>0, <1>8 DEF lockVars, LockInv, LockTypeOK, Granted, Current, Watching, InTime, Holding, This,
       UnlockedOnce
  <1> QED
    BY <1>1, <1>2, <1>3, <1>4, <1>5, <1>6, <1>7, <1>8 DEF LockNext

\* When locks are held and given back within the watchdog's 5 seconds, the
\* invariant of the lock holds in every reachable state.
THEOREM LockInductive == ASSUME Timely PROVE LockSpec => []LockInv
  <1>1. LockInv /\ [LockNext]_lockVars => LockInv'
    BY LockInvStep
  <1> QED
    BY <1>1, LockInvInit, PTL DEF LockSpec

\* ... a task of the master never works on a channel its right side has locked,
\* although one variable keeps the grants of all channels.
THEOREM ExclusionHolds == ASSUME Timely PROVE LockSpec => []Exclusion
  <1>1. LockInv => Exclusion
    <2> SUFFICES ASSUME LockInv, NEW c \in Channels, phase[c] = "holding"
                 PROVE  owner[c] = -lid[c] /\ ~own[c]
      BY DEF Exclusion
    <2>1. ext = This(c) /\ lid[c] \in 1..MaxAttempts
      BY ThisIsGrant DEF LockInv, InTime
    <2>2. owner[c] = -lid[c]
      BY <2>1, ThisIsGrant DEF LockInv, Current
    <2> QED
      BY <2>1, <2>2 DEF LockInv, UnlockedOnce, Own
  <1> QED
    BY <1>1, LockInductive, PTL

\* ... and the unlock request, the watchdog and the master's own tasks never
\* unlock a mutex twice or for another holder.
THEOREM UnlockedOnceHolds == ASSUME Timely PROVE LockSpec => []UnlockedOnce
  <1>1. LockInv => UnlockedOnce
    BY DEF LockInv
  <1> QED
    BY <1>1, LockInductive, PTL
=============================================================================
