----------------------------- MODULE TaskQueue -----------------------------
(***************************************************************************)
(* The persistent queue of worker tasks of one node (db/task.go) and the   *)
(* loop that runs them (taskExecutor).  Everything a node owes its parties *)
(* is a task: stored once, found through an index ordered by time, locked  *)
(* while it runs, retried after a random wait until it completes or its    *)
(* time is over.  A restart forgets the running workers, not the tasks.    *)
(***************************************************************************)
EXTENDS Integers, FiniteSets, FiniteSetsExt

CONSTANTS
    Tasks,     \* the tasks, by their ID
    Queue,     \* Queue[t]: the queue of t (in code a channel's address)
    After,     \* After[t]: the explicit start time of t, or Unset: as soon as created
    Till,      \* Till[t]: when t is given up, or Unset: never
    Unset,     \* a nil time
    LockTime,  \* how long a task stays locked for the worker that runs it
    Delays,    \* the random waits before a retry
    MaxTime,   \* bound: where the clock stops
    MaxRestart \* bound: restarts of the node

ASSUME ConstantsAssumption ==
    /\ Queue \in [Tasks -> Nat]
    /\ \A t \in Tasks : After[t] \in 1..MaxTime \cup {Unset}
    /\ \A t \in Tasks : Till[t] \in Nat \cup {Unset}
    /\ Unset \notin Nat /\ Unset \notin [till : Nat, epoch : Nat]
    /\ LockTime \in Nat \ {0} /\ Delays \subseteq Nat \ {0}
    /\ MaxTime \in Nat /\ MaxRestart \in Nat

VARIABLES
    state,     \* state[t]: "none", "open" or "done": the record of t
    after,     \* after[t]: ExecuteAfter of the record
    locked,    \* locked[t]: LockedTill and the process that locked, or Unset
    retryAt,   \* retryAt[t]: ReExecuteAfter, 0 if never retried
    index,     \* the tasks the index leads to
    runs,      \* runs[t]: how many workers are running t
    now,       \* the clock
    epoch      \* which process this is: _StartedAt separates its locks

vars == <<state, after, locked, retryAt, index, runs, now, epoch>>

Init ==
    /\ state = [t \in Tasks |-> "none"]
    /\ after = [t \in Tasks |-> 0]
    /\ locked = [t \in Tasks |-> Unset]
    /\ retryAt = [t \in Tasks |-> 0]
    /\ index = {}
    /\ runs = [t \in Tasks |-> 0]
    /\ now = 1
    /\ epoch = 0

-----------------------------------------------------------------------------
\* Time passes, but a worker's run is over (its context times out) before the
\* task's lock is.
TimeMayPass ==
    /\ now < MaxTime
    /\ \A t \in Tasks : runs[t] > 0 => locked[t].till > now + 1

\* getTaskIndexKey: the time, then the queue.  Nothing else.
SameKey(t, u) == after[t] = after[u] /\ Queue[t] = Queue[u]
Before(t, u) == \/ after[t] < after[u]
                \/ after[t] = after[u] /\ Queue[t] < Queue[u]

\* CreateTask, the first time for this ID: later calls change nothing.  A task
\* without start time starts at once: its time is the clock's, which moves between
\* two calls and, counting nanoseconds, never reads a start time given in seconds.
CreateTask(t) ==
    /\ state[t] = "none" /\ TimeMayPass
    /\ IF After[t] = Unset THEN \A u \in Tasks : After[u] # now ELSE After[t] > now
    /\ state' = [state EXCEPT ![t] = "open"]
    /\ after' = [after EXCEPT ![t] = IF After[t] = Unset THEN now ELSE After[t]]
    /\ index' = {u \in index : ~(after[u] = after'[t] /\ Queue[u] = Queue[t])} \cup {t}
    /\ now' = now + 1
    /\ UNCHANGED <<locked, retryAt, runs, epoch>>

\* Fault: locks are not looked at.
HoldsRetryOnly(t) == retryAt[t] > now

\* A due task that is being run, or waits for its retry, holds back its queue.
Holds(t) ==
    \/ locked[t] # Unset /\ locked[t].till > now /\ locked[t].epoch = epoch
    \/ retryAt[t] > now

Due(t) == t \in index /\ after[t] <= now /\ state[t] # "done"

\* Fault: a task that waits for its retry does not hold back its queue.
HeldBackByLock(t) ==
    \/ Holds(t)
    \/ \E u \in Tasks : Due(u) /\ locked[u] # Unset /\ Queue[u] = Queue[t] /\ Before(u, t)

HeldBack(t) == \E u \in Tasks : Due(u) /\ Holds(u) /\ Queue[u] = Queue[t]
                                /\ (u = t \/ Before(u, t))
Expired(t) == Till[t] # Unset /\ Till[t] < now

\* AcquireTask: the first task in the index's order that is due, not held back
\* and not expired; the expired ones passed on the way leave the index.
Candidate(t) == Due(t) /\ ~HeldBack(t) /\ ~Expired(t)
Dropped(S) == {u \in S : Due(u) /\ ~HeldBack(u) /\ Expired(u)}

AcquireTask(t) ==
    /\ Candidate(t) /\ \A u \in Tasks : Candidate(u) => ~Before(u, t)
    /\ locked' = [locked EXCEPT ![t] = [till |-> now + LockTime, epoch |-> epoch]]
    /\ runs' = [runs EXCEPT ![t] = @ + 1]
    /\ index' = index \ Dropped({u \in Tasks : Before(u, t)})
    /\ UNCHANGED <<state, after, retryAt, now, epoch>>

\* AcquireTask when there is nothing to run.
AcquireNothing ==
    /\ \A t \in Tasks : ~Candidate(t)
    /\ Dropped(Tasks) # {}
    /\ index' = index \ Dropped(Tasks)
    /\ UNCHANGED <<state, after, locked, retryAt, runs, now, epoch>>

\* Fault: the whole time slot leaves the index, whatever the queue.
CompleteDropsSlot(t) ==
    /\ runs[t] > 0
    /\ runs' = [runs EXCEPT ![t] = @ - 1]
    /\ state' = [state EXCEPT ![t] = "done"]
    /\ locked' = [locked EXCEPT ![t] = Unset]
    /\ index' = {u \in index : after[u] > after[t]}
    /\ UNCHANGED <<after, retryAt, now, epoch>>

\* The run of t succeeded: CompleteTask deletes its index key.
CompleteTask(t) ==
    /\ runs[t] > 0
    /\ runs' = [runs EXCEPT ![t] = @ - 1]
    /\ state' = [state EXCEPT ![t] = "done"]
    /\ locked' = [locked EXCEPT ![t] = Unset]
    /\ index' = {u \in index : ~SameKey(u, t)}
    /\ UNCHANGED <<after, retryAt, now, epoch>>

\* Fault: a failed task keeps its lock.
RetryKeepsLock(t) ==
    /\ runs[t] > 0
    /\ runs' = [runs EXCEPT ![t] = @ - 1]
    /\ \E d \in Delays : retryAt' = [retryAt EXCEPT ![t] = Min({now + d, MaxTime})]
    /\ UNCHANGED <<state, after, index, locked, now, epoch>>

\* The run of t failed: RetryTask, after a random wait.
RetryTask(t) ==
    /\ runs[t] > 0
    /\ runs' = [runs EXCEPT ![t] = @ - 1]
    /\ locked' = [locked EXCEPT ![t] = Unset]
    /\ \E d \in Delays : retryAt' = [retryAt EXCEPT ![t] = Min({now + d, MaxTime})]
    /\ UNCHANGED <<state, after, index, now, epoch>>

Tick ==
    /\ TimeMayPass
    /\ now' = now + 1
    /\ UNCHANGED <<state, after, locked, retryAt, index, runs, epoch>>

\* The process restarts: the database keeps even the locks of the dead workers.
Restart ==
    /\ epoch < MaxRestart
    /\ epoch' = epoch + 1
    /\ runs' = [t \in Tasks |-> 0]
    /\ UNCHANGED <<state, after, locked, retryAt, index, now>>

Next ==
    \/ \E t \in Tasks : \/ CreateTask(t) \/ AcquireTask(t)
                        \/ CompleteTask(t) \/ RetryTask(t)
    \/ AcquireNothing \/ Tick \/ Restart

Spec == Init /\ [][Next]_vars

\* The loop keeps acquiring, every run ends, the clock moves, and a task that
\* is tried again and again succeeds in the end.
LiveSpec ==
    /\ Spec
    /\ WF_vars(\E t \in Tasks : AcquireTask(t)) /\ WF_vars(AcquireNothing)
    /\ WF_vars(Tick)
    /\ \A t \in Tasks : /\ WF_vars(CompleteTask(t) \/ RetryTask(t))
                        /\ SF_vars(CompleteTask(t))

-----------------------------------------------------------------------------
(* Properties.                                                             *)

\* The type invariant of the task records, the index and the workers.
TypeOK ==
    /\ state \in [Tasks -> {"none", "open", "done"}]
    /\ after \in [Tasks -> Nat]
    /\ locked \in [Tasks -> [till : Nat, epoch : Nat] \cup {Unset}]
    /\ retryAt \in [Tasks -> Nat]
    /\ index \in SUBSET Tasks
    /\ runs \in [Tasks -> Nat]
    /\ now \in Nat /\ epoch \in Nat

\* "Skip everything in this queue to not break the order": of each queue at most
\* one task is run, by one worker, across retries, waits and restarts.
QueueExclusive ==
    \A t, u \in Tasks :
        /\ runs[t] <= 1
        /\ runs[t] > 0 /\ runs[u] > 0 /\ Queue[t] = Queue[u] => t = u

\* A task starts only when every earlier task of its queue is done or given up:
\* one that failed is not overtaken while it waits for its retry.
InOrder ==
    [][\A t \in Tasks : runs'[t] > runs[t] =>
         \A u \in index : Queue[u] = Queue[t] /\ Before(u, t) =>
             state[u] = "done" \/ Expired(u)]_vars

\* "Queued and stored safely": a stored task that is neither done nor over its
\* time can still be found through the index.
NotLost == \A t \in Tasks : state[t] = "open" /\ ~Expired(t) => t \in index

\* Every stored task is done in the end, unless its time runs out.
Served == \A t \in Tasks : state[t] = "open" ~> state[t] = "done" \/ Expired(t)
=============================================================================
