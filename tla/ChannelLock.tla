---------------------------- MODULE ChannelLock ----------------------------
(***************************************************************************)
(* The master-slave lock of channels.  One node is the left side, the lock *)
(* master, of several channels, each with another node as its right side.  *)
(* A right side locks its own mutex and asks the master for the channel's  *)
(* (RequestChannelLock); the master keeps the way to undo the grant in one *)
(* variable of the whole node, externalLock, and starts a watchdog for the *)
(* case that the right side forgets the lock.                              *)
(*                                                                         *)
(* A lock ID is positive for the right side that made it; the master calls *)
(* the same lock by the negated ID, "to not collide with our own locks".   *)
(***************************************************************************)
EXTENDS Integers

CONSTANTS
    Channels,   \* the channels of the master node
    Timely,     \* whether a lock is held and given back within 5 seconds
    MaxAttempts,\* bound: locks a right side asks for
    None        \* externalLock is nil

ASSUME LockAssumption == Timely \in BOOLEAN /\ MaxAttempts \in Nat \ {0}

Grant == [ch : Channels, id : 1..MaxAttempts]
ASSUME NoneAssumption == None \notin Grant
Nobody == 0      \* an unlocked mutex
Own == 1         \* locked for a task of the master

VARIABLES
    phase,   \* phase[c]: the right side's mutex: "free", "asking" or "holding"
    lid,     \* lid[c]: the ID of the right side's last lock
    owner,   \* owner[c]: the ID the master's mutex is locked with
    own,     \* own[c]: a task of the master is using c
    ext,     \* externalLock: the grant its function would undo
    dog,     \* dog[g]: the watchdog routine of grant g
    closed,  \* the grants whose watchdog was told to end
    unl,     \* unlock requests on their way
    fatal    \* the runtime has stopped the node: unlock of an unlocked mutex
             \* (what happens after that is of no interest here)

lockVars == <<phase, lid, owner, own, ext, dog, closed, unl, fatal>>

LockInit ==
    /\ phase = [c \in Channels |-> "free"]
    /\ lid = [c \in Channels |-> 0]
    /\ owner = [c \in Channels |-> Nobody]
    /\ own = [c \in Channels |-> FALSE]
    /\ ext = None
    /\ dog = [g \in Grant |-> "none"]
    /\ closed = {}
    /\ unl = {}
    /\ fatal = FALSE

This(c) == [ch |-> c, id |-> lid[c]]
Holding(g) == phase[g.ch] = "holding" /\ lid[g.ch] = g.id

\* sync.Mutex.Unlock of the master's mutex, whoever holds it.
Unlock(c) ==
    /\ owner' = [owner EXCEPT ![c] = Nobody]
    /\ fatal' = (fatal \/ owner[c] = Nobody)

-----------------------------------------------------------------------------
(* The right side: AcquireChannel and the unlock function it returns.      *)

Ask(c) ==
    /\ phase[c] = "free" /\ lid[c] < MaxAttempts
    /\ phase' = [phase EXCEPT ![c] = "asking"]
    /\ lid' = [lid EXCEPT ![c] = @ + 1]
    /\ UNCHANGED <<owner, own, ext, dog, closed, unl, fatal>>

\* Not agreed, or no answer.
GiveUp(c) ==
    /\ phase[c] = "asking"
    /\ phase' = [phase EXCEPT ![c] = "free"]
    /\ UNCHANGED <<lid, owner, own, ext, dog, closed, unl, fatal>>

\* Its own mutex first, then the request to the master, which may get lost.
Release(c) ==
    /\ phase[c] = "holding"
    /\ phase' = [phase EXCEPT ![c] = "free"]
    /\ unl' \in {unl, unl \cup {This(c)}}
    /\ UNCHANGED <<lid, owner, own, ext, dog, closed, fatal>>

\* ProcessIsChannelLocked with the ID the watchdog sends: "not locked by this
\* lock" unless the negated ID is the one its mutex was locked with.
SaysUnlocked(c, id) == lid[c] # -id \/ phase[c] = "free"

-----------------------------------------------------------------------------
(* The master.                                                             *)

\* Fault: the grant of another channel is not in the way.
MayGrantPerChannel(c) == owner[c] = Nobody /\ (ext # None => ext.ch # c)

\* ProcessExternalChannelLock grants a lock if there is no grant at all and
\* AcquireChannel finds the channel's mutex free.
MayGrant(c) == owner[c] = Nobody /\ ext = None

GrantLock(c) ==
    /\ phase[c] = "asking" /\ MayGrant(c)
    /\ owner' = [owner EXCEPT ![c] = -lid[c]]
    /\ ext' = This(c)
    /\ dog' = [dog EXCEPT ![This(c)] = "sleep"]
    /\ phase' \in {[phase EXCEPT ![c] = "holding"], [phase EXCEPT ![c] = "free"]}
    /\ UNCHANGED <<lid, own, closed, unl, fatal>>

\* Fault: the watchdog is not told.
HandleUnlockSilent(g) ==
    /\ g \in unl
    /\ unl' = unl \ {g}
    /\ IF ext = None
       THEN UNCHANGED <<owner, ext, fatal>>
       ELSE Unlock(ext.ch) /\ ext' = None
    /\ UNCHANGED <<phase, lid, own, dog, closed>>

\* ProcessExternalChannelLock undoes the grant, whatever the request's ID.
HandleUnlock(g) ==
    /\ g \in unl
    /\ unl' = unl \ {g}
    /\ IF ext = None
       THEN UNCHANGED <<owner, ext, closed, fatal>>
       ELSE /\ Unlock(ext.ch)
            /\ closed' = closed \cup {ext}
            /\ ext' = None
    /\ UNCHANGED <<phase, lid, own, dog>>

\* The watchdog wakes up after 5 seconds and asks the right side.
WatchdogAsk(g) ==
    /\ dog[g] = "sleep" /\ g \notin closed
    /\ Timely => ~Holding(g) /\ g \notin unl
    /\ dog' = [dog EXCEPT ![g] = "asked"]
    /\ UNCHANGED <<phase, lid, owner, own, ext, closed, unl, fatal>>

\* Fault: the watchdog gives up when it gets no answer.
WatchdogAnswerOnce(g) ==
    /\ dog[g] = "asked"
    /\ dog' \in {[dog EXCEPT ![g] = "gone"],
                 [dog EXCEPT ![g] = IF SaysUnlocked(g.ch, g.id) THEN "agreed" ELSE "sleep"]}
    /\ UNCHANGED <<phase, lid, owner, own, ext, closed, unl, fatal>>

\* The answer, or none: then the watchdog sleeps again.
WatchdogAnswer(g) ==
    /\ dog[g] = "asked"
    /\ dog' \in {[dog EXCEPT ![g] = "sleep"],
                 [dog EXCEPT ![g] = IF SaysUnlocked(g.ch, g.id) THEN "agreed" ELSE "sleep"]}
    /\ UNCHANGED <<phase, lid, owner, own, ext, closed, unl, fatal>>

\* Unlocked over there: forget the grant...
WatchdogForget(g) ==
    /\ dog[g] = "agreed"
    /\ ext' = None
    /\ dog' = [dog EXCEPT ![g] = "forgot"]
    /\ UNCHANGED <<phase, lid, owner, own, closed, unl, fatal>>

\* ... and unlock the mutex.
WatchdogUnlock(g) ==
    /\ dog[g] = "forgot"
    /\ Unlock(g.ch)
    /\ dog' = [dog EXCEPT ![g] = "gone"]
    /\ UNCHANGED <<phase, lid, own, ext, closed, unl>>

WatchdogEnd(g) ==
    /\ dog[g] = "sleep" /\ g \in closed
    /\ dog' = [dog EXCEPT ![g] = "gone"]
    /\ UNCHANGED <<phase, lid, owner, own, ext, closed, unl, fatal>>

\* A task of the master takes the mutex and gives it back.
OwnLock(c) ==
    /\ owner[c] = Nobody
    /\ owner' = [owner EXCEPT ![c] = Own]
    /\ own' = [own EXCEPT ![c] = TRUE]
    /\ UNCHANGED <<phase, lid, ext, dog, closed, unl, fatal>>

OwnUnlock(c) ==
    /\ own[c]
    /\ Unlock(c)
    /\ own' = [own EXCEPT ![c] = FALSE]
    /\ UNCHANGED <<phase, lid, ext, dog, closed, unl>>

LockNext ==
    \/ \E c \in Channels : \/ Ask(c) \/ GiveUp(c) \/ Release(c) \/ GrantLock(c)
                           \/ OwnLock(c) \/ OwnUnlock(c)
    \/ \E g \in Grant : \/ HandleUnlock(g) \/ WatchdogAsk(g) \/ WatchdogAnswer(g)
                        \/ WatchdogForget(g) \/ WatchdogUnlock(g) \/ WatchdogEnd(g)

LockSpec == LockInit /\ [][LockNext]_lockVars

\* Every holder ends its work, requests that are not lost arrive, watchdogs run,
\* and a watchdog that asks again and again gets an answer in the end.
LockLiveSpec ==
    /\ LockSpec
    /\ \A c \in Channels : WF_lockVars(Release(c)) /\ WF_lockVars(OwnUnlock(c))
    /\ \A g \in Grant :
         /\ WF_lockVars(HandleUnlock(g)) /\ WF_lockVars(WatchdogAsk(g))
         /\ SF_lockVars(WatchdogAnswer(g) /\ dog'[g] = "agreed")
         /\ WF_lockVars(WatchdogAnswer(g))
         /\ WF_lockVars(WatchdogForget(g)) /\ WF_lockVars(WatchdogUnlock(g)) /\ WF_lockVars(WatchdogEnd(g))

-----------------------------------------------------------------------------
(* Properties.                                                             *)

\* The type invariant of the locks, the watchdogs and the requests.
LockTypeOK ==
    /\ phase \in [Channels -> {"free", "asking", "holding"}]
    /\ lid \in [Channels -> 0..MaxAttempts]
    /\ owner \in [Channels -> (-MaxAttempts)..Own]
    /\ own \in [Channels -> BOOLEAN]
    /\ ext \in Grant \cup {None}
    /\ dog \in [Grant -> {"none", "sleep", "asked", "agreed", "forgot", "gone"}]
    /\ closed \in SUBSET Grant /\ unl \in SUBSET Grant
    /\ fatal \in BOOLEAN

\* "No parallel executions": while a right side holds a channel, the master's
\* mutex is locked for that lock and no task of the master uses the channel.
Exclusion == \A c \in Channels :
    phase[c] = "holding" => owner[c] = -lid[c] /\ ~own[c]

\* "No colliding locks": no mutex is unlocked for somebody who does not hold it,
\* which the Go runtime answers by ending the process.
UnlockedOnce == ~fatal /\ \A c \in Channels : own[c] => owner[c] = Own

\* A lock the right side has forgotten, or whose return got lost, is given back.
GivenBack == \A g \in Grant :
    owner[g.ch] = -g.id ~> owner[g.ch] # -g.id
=============================================================================
