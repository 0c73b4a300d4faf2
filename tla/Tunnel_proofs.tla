---------------------------- MODULE Tunnel_proofs ----------------------------
(***************************************************************************)
(* A tunnel of any length, with any deadlines that its nodes accept, never *)
(* takes money from a node in the middle: CanClaim, and the refinement of  *)
(* Payment.  The argument follows the pair of hops of a middle node n.     *)
(* While hop n+1 is open, or may still be opened, nothing has begun to     *)
(* undo hop n (Live).  Once hop n+1 is paid the node either has yet to see *)
(* the news, or knows the resolve and has a close of hop n under way that  *)
(* ends before the deadline (Owed).                                        *)
(***************************************************************************)
EXTENDS Tunnel, TLAPS, WellFoundedInduction

\* A set of numbers has a least one.
LEMMA Least ==
  ASSUME NEW S \in SUBSET Nat, S # {}
  PROVE  \E x \in S : \A y \in S : x <= y
  <1>1. IsWellFoundedOn({ss \in Nat \X Nat : ss[1] < ss[2]}, Nat)
    BY NatLessThanWellFounded, Zenon DEF OpToRel
  <1>2. PICK x \in S : \A y \in S : ~(<<y, x>> \in {ss \in Nat \X Nat : ss[1] < ss[2]})
    BY <1>1, WFMin, Zenon
  <1>3. \A y \in S : ~(y < x)
    BY <1>2
  <1> QED
    BY <1>3

\* What the proofs use of the constants all the time.
LEMMA Sizes ==
  /\ N \in Nat \ {0} /\ SafePeriod \in Nat \ {0} /\ MinSafe \in Nat \ {0} /\ MaxTime \in Nat
  /\ Deadline \in [1..N -> Nat]
  BY TunnelAssumption DEF Hops

USE Sizes DEF Hops, Nodes

\* The deadlines that the tasks of node n were made with.
Timed(n) ==
    /\ task[n]["timeout"].st # "none" => task[n]["timeout"].due = Deadline[n] + 1
    /\ task[n]["uncoop"].st # "none" => task[n]["uncoop"].till = Forever
    /\ n < N /\ task[n]["open"].st # "none" => task[n]["open"].till = Deadline[n + 1]

\* A node that the payment has not reached knows nothing of it.
Unreached(n) ==
    cond[n] = "none" =>
        /\ \A k \in Kinds : task[n][k].st = "none"
        /\ meta[n].st = "none" /\ ~meta[n].res
        /\ n < N => cond[n + 1] = "none"

\* A lost answer is made good before time moves on, so a channel whose opening, payment
\* or removal is half saved has not been closing for longer than this second.
Prompt(h) ==
    chan[h] = "closing" /\ (half[h] # "none" \/ task[h - 1]["open"].st = "saved") => since[h] = now

\* A middle node knows a resolve only when its outgoing half is paid.
Learnt(n) ==
    /\ news[n] => cond[n] = "paid"
    /\ n < N /\ meta[n].res => cond[n + 1] = "paid"

\* The opening of hop n+1 is agreed, then saved, then finished.
Opening(n) ==
    \/ half[n + 1] = "add" /\ task[n]["open"].st = "todo" /\ Safe(n + 1)
    \/ half[n + 1] # "add" /\ task[n]["open"].st = "saved"
    \/ half[n + 1] # "add" /\ task[n]["open"].st = "done" /\ meta[n].st = "active"

\* As long as hop n+1 is locked or may be, nothing has begun to undo hop n.
Live(n) ==
    /\ n < N /\ now <= Deadline[n + 1]
    /\ cond[n + 1] = "open" \/ (cond[n + 1] = "none" /\ task[n]["open"].st \in {"todo", "revert"})
    => /\ cond[n] = "open" /\ chan[n] = "active"
       /\ task[n]["remove"].st = "none" /\ task[n]["uncoop"].st = "none"
       /\ cond[n + 1] = "open" => Opening(n)

\* The close of hop n that will pay node n, before the deadline.
Claim(n) ==
    \/ chan[n] = "closing" /\ since[n] + SafePeriod <= Deadline[n]
    \/ /\ chan[n] = "active"
       /\ task[n]["uncoop"].st = "todo" /\ now <= task[n]["uncoop"].due
       /\ task[n]["uncoop"].due + SafePeriod <= Deadline[n]

\* A middle node that has paid and is not paid yet.
Owed(n) ==
    n < N /\ cond[n + 1] = "paid" /\ cond[n] # "paid" =>
        /\ cond[n] = "open"
        /\ task[n]["open"].st = "done" /\ task[n]["remove"].st = "none"
        /\ \/ /\ news[n + 1] /\ now <= Deadline[n + 1] /\ meta[n].st = "active"
              /\ chan[n] = "active" /\ task[n]["uncoop"].st = "none"
           \/ meta[n].st = "wantclose" /\ meta[n].res /\ now <= Deadline[n] /\ Claim(n)

\* What holds of node n and the two hops it is in.
Parts(n) == Timed(n) /\ Unreached(n) /\ Prompt(n) /\ Learnt(n) /\ Live(n) /\ Owed(n)

IInv == TypeOK /\ \A n \in Hops : Parts(n)

-----------------------------------------------------------------------------
(* What the operators on tasks and metas return.                           *)

TaskRecord == [st : {"none", "todo", "saved", "revert", "done"}, due : Nat, till : Nat]
Tasks == [Nodes -> [Kinds -> TaskRecord]]
Metas == [Nodes -> [st : {"none", "pending", "active", "wantclose", "wantremove", "closed"}, res : BOOLEAN]]

\* The tasks are those of before, except for kinds ks at node n.
Kept(new, ts, n, ks) ==
    /\ new \in Tasks
    /\ \A m \in Nodes, j \in Kinds : m # n \/ j \notin ks => new[m][j] = ts[m][j]

\* CreateTask changes at most the one task, and only if its ID is new.
IsCreated(new, ts, n, k, due, till) ==
    /\ Kept(new, ts, n, {k})
    /\ ts[n][k].st # "none" => new[n][k] = ts[n][k]
    /\ ts[n][k].st = "none" => new[n][k] = [st |-> "todo", due |-> due, till |-> till]

\* A task that is created is to be done, unless it was there already.
LEMMA CreatedIs ==
  ASSUME NEW ts \in Tasks, NEW n \in Nodes, NEW k \in Kinds, NEW due \in Nat, NEW till \in Nat
  PROVE  IsCreated(Created(ts, n, k, due, till), ts, n, k, due, till)
  BY DEF Tasks, TaskRecord, Created, IsCreated, Kept

\* Setting the status of a task leaves its times and all other tasks.
IsSet(new, ts, n, k, s) ==
    /\ Kept(new, ts, n, {k})
    /\ new[n][k].st = s /\ new[n][k].due = ts[n][k].due /\ new[n][k].till = ts[n][k].till

\* What a change of one task of one node leaves alone.
LEMMA SetIs ==
  ASSUME NEW ts \in Tasks, NEW n \in Nodes, NEW k \in Kinds,
         NEW s, s \in {"none", "todo", "saved", "revert", "done"}
  PROVE  IsSet(Set(ts, n, k, s), ts, n, k, s)
  <1>1. Set(ts, n, k, s) = [ts EXCEPT ![n] = [ts[n] EXCEPT ![k] = [ts[n][k] EXCEPT !.st = s]]]
    BY DEF Set
  <1>2. ts[n][k] \in TaskRecord
    BY DEF Tasks
  <1>3. [ts[n][k] EXCEPT !.st = s] \in TaskRecord
    BY <1>2 DEF TaskRecord
  <1>4. [ts[n] EXCEPT ![k] = [ts[n][k] EXCEPT !.st = s]] \in [Kinds -> TaskRecord]
    BY <1>3 DEF Tasks
  <1>5. Set(ts, n, k, s) \in Tasks
    BY <1>1, <1>4 DEF Tasks
  <1>6. \A m \in Nodes, j \in Kinds : m # n \/ j # k => Set(ts, n, k, s)[m][j] = ts[m][j]
    BY <1>1 DEF Tasks
  <1>7. Set(ts, n, k, s)[n][k] = [ts[n][k] EXCEPT !.st = s]
    BY <1>1 DEF Tasks
  <1> QED
    BY <1>2, <1>5, <1>6, <1>7 DEF TaskRecord, IsSet, Kept

\* closeConditional leaves a payee with a close that begins in time, if time there is.
IsClosing(new, ts, n) ==
    /\ Kept(new, ts, n, {"uncoop", "close"})
    /\ ts[n]["uncoop"].st # "none" => new[n]["uncoop"] = ts[n]["uncoop"]
    /\ ts[n]["uncoop"].st = "none" =>
         new[n]["uncoop"] = [st |-> "todo", due |-> ClosingTime(n), till |-> Forever]
    /\ ClosingTime(n) \in Nat /\ now < ClosingTime(n)
    /\ now + 1 + SafePeriod <= Deadline[n] => ClosingTime(n) + SafePeriod <= Deadline[n]

\* What asking for a close does to the tasks of a node.
LEMMA WithClosingIs ==
  ASSUME NEW ts \in Tasks, NEW n \in Hops, now \in Nat
  PROVE  IsClosing(WithClosing(ts, n), ts, n)
  <1> DEFINE t == Created(ts, n, "uncoop", ClosingTime(n), Forever)
             w == Created(t, n, "close", now, ClosingTime(n))
  <1>1. /\ ClosingTime(n) \in Nat /\ now < ClosingTime(n)
        /\ now + 1 + SafePeriod <= Deadline[n] => ClosingTime(n) + SafePeriod <= Deadline[n]
    BY DEF ClosingTime
  <1>2. n \in Nodes /\ "uncoop" \in Kinds /\ "close" \in Kinds /\ Forever \in Nat
    BY DEF Kinds, Forever
  <1>3. IsCreated(t, ts, n, "uncoop", ClosingTime(n), Forever)
    BY <1>1, <1>2, CreatedIs, Zenon
  <1>4. t \in Tasks
    BY <1>3 DEF IsCreated, Kept
  <1>5. IsCreated(w, t, n, "close", now, ClosingTime(n))
    <2> HIDE DEF t
    <2> QED
      BY <1>1, <1>2, <1>4, CreatedIs, Zenon
  <1>6. w = WithClosing(ts, n)
    BY DEF WithClosing
  <1> HIDE DEF t, w
  <1> QED
    BY <1>1, <1>2, <1>3, <1>5, <1>6 DEF IsCreated, IsClosing, Kept

\* The tasks of a node that is reached: the removal after the deadline, and the next hop.
IsReceived(new, ts, h) ==
    /\ Kept(new, ts, h, {"next", "timeout", "open"})
    /\ h = N => new[h]["open"] = ts[h]["open"]
    /\ h < N /\ ts[h]["open"].st = "none" =>
         new[h]["open"] = [st |-> "todo", due |-> now, till |-> Deadline[h + 1]]
    /\ new[h]["timeout"] = ts[h]["timeout"] \/ new[h]["timeout"].due = Deadline[h] + 1

\* The tasks a node has after it agreed to a conditional.
LEMMA ReceivedTasksIs ==
  ASSUME NEW ts \in Tasks, NEW h \in Hops, now \in Nat
  PROVE  IsReceived(ReceivedTasks(ts, h), ts, h)
  <1>1. /\ h \in Nodes /\ "next" \in Kinds /\ "timeout" \in Kinds /\ "open" \in Kinds
        /\ Deadline[h] \in Nat /\ Deadline[h] + 1 \in Nat /\ Forever \in Nat
    BY DEF Kinds, Forever
  <1> DEFINE t == Created(ts, h, "timeout", Deadline[h] + 1, Forever)
  <1>2. IsCreated(t, ts, h, "timeout", Deadline[h] + 1, Forever)
    BY <1>1, CreatedIs, Zenon
  <1>3. t \in Tasks
    BY <1>2 DEF IsCreated, Kept
  <1>4. CASE h = N /\ transfer
    <2>1. ReceivedTasks(ts, h) = Created(ts, h, "next", now, Deadline[h])
      BY <1>4 DEF ReceivedTasks
    <2>2. IsCreated(ReceivedTasks(ts, h), ts, h, "next", now, Deadline[h])
      BY <1>1, <2>1, CreatedIs, Zenon
    <2> QED
      BY <1>1, <1>4, <2>2 DEF IsCreated, IsReceived, Kept
  <1>5. CASE h = N /\ ~transfer
    <2>1. ReceivedTasks(ts, h) = t
      BY <1>5 DEF ReceivedTasks
    <2> HIDE DEF t
    <2> QED
      BY <1>1, <1>2, <1>5, <2>1 DEF IsCreated, IsReceived, Kept
  <1>6. CASE h # N
    <2>1. ReceivedTasks(ts, h) = Created(t, h, "open", now, Deadline[h + 1])
      BY <1>6 DEF ReceivedTasks
    <2>2. Deadline[h + 1] \in Nat
      BY <1>6
    <2> HIDE DEF t
    <2>3. IsCreated(ReceivedTasks(ts, h), t, h, "open", now, Deadline[h + 1])
      BY <1>1, <1>3, <2>1, <2>2, CreatedIs, Zenon
    <2> QED
      BY <1>1, <1>2, <1>6, <2>3 DEF IsCreated, IsReceived, Kept
  <1> QED
    BY <1>4, <1>5, <1>6

-----------------------------------------------------------------------------
(* Types.                                                                  *)

\* TypeOK, part by part.
LEMMA TypeParts ==
  TypeOK <=>
    /\ \A h \in Hops : /\ half[h] = "add" => cond[h] = "open"
                       /\ half[h] = "exec" => cond[h] = "paid"
                       /\ half[h] = "rem" => cond[h] = "removed"
    /\ now \in 0..MaxTime /\ transfer \in BOOLEAN
    /\ cond \in [Hops -> {"none", "open", "paid", "removed"}]
    /\ half \in [Hops -> {"none", "add", "exec", "rem"}]
    /\ chan \in [Hops -> {"active", "closing", "closed"}]
    /\ since \in [Hops -> Nat] /\ news \in [Hops -> BOOLEAN]
    /\ meta \in Metas /\ task \in Tasks
  BY DEF TypeOK, Metas, Tasks, TaskRecord

-----------------------------------------------------------------------------
(* Every step preserves the invariant, action by action.                   *)

\* What the steps are taken from.
Before == IInv /\ Reliable /\ Closing \subseteq {N}

\* The nodes and the kinds of task that the invariant speaks of.
LEMMA Names ==
  /\ "open" \in Kinds /\ "remove" \in Kinds /\ "uncoop" \in Kinds /\ "timeout" \in Kinds
  /\ "close" \in Kinds /\ "next" \in Kinds
  /\ \A h \in Hops : h \in Nodes /\ h - 1 \in Nodes /\ Deadline[h] \in Nat /\ (h < N => h + 1 \in Hops)
  /\ \A h \in Hops : h < N => Deadline[h + 1] \in Nat /\ Deadline[h + 1] + SafePeriod + 1 <= Deadline[h]
  BY TunnelAssumption DEF Kinds

\* The deadlines fall along the tunnel, of neighbours by assumption: the first hop that is
\* not earlier than g would have a neighbour that is.
LEMMA Falling ==
  ASSUME NEW g \in Hops, NEW h \in Hops, g < h
  PROVE  Deadline[h] < Deadline[g]
  <1> DEFINE S == {k \in Hops : g < k /\ ~(Deadline[k] < Deadline[g])}
  <1>1. ASSUME S # {} PROVE FALSE
    <2>1. S \in SUBSET Nat
      OBVIOUS
    <2>2. PICK k \in S : \A j \in S : k <= j
      <3> HIDE DEF S
      <3> QED
        BY <1>1, <2>1, Least
    <2>3. /\ k \in Hops /\ g < k /\ ~(Deadline[k] < Deadline[g]) /\ k - 1 \in Hops /\ k - 1 < N
          /\ Deadline[k] \in Nat /\ Deadline[k - 1] \in Nat /\ Deadline[g] \in Nat /\ ~(k <= k - 1)
      BY <2>2
    <2>4. Deadline[k] < Deadline[k - 1]
      <3>1. k - 1 + 1 = k
        BY <2>3
      <3>2. Deadline[k] + SafePeriod + 1 <= Deadline[k - 1]
        BY <2>3, <3>1, Names
      <3> QED
        BY <2>3, <3>2
    <2>5. k - 1 \notin S
      BY <2>2, <2>3
    <2>6. k - 1 = g \/ Deadline[k - 1] < Deadline[g]
      BY <2>3, <2>5
    <2> QED
      BY <2>3, <2>4, <2>6
  <1> QED
    BY <1>1

\* Steps that only change the status of one task.
LEMMA StatusStep ==
  ASSUME Before, NEW n \in Nodes, NEW k \in Kinds, NEW s, s \in {"todo", "done"},
         task' = Set(task, n, k, s),
         task[n][k].st # "none", k # "uncoop" \/ n = 0,
         k = "open" => task[n][k].st \in {"todo", "revert"},
         k = "open" /\ s = "todo" => task[n][k].st = "revert",
         k = "open" /\ s = "done" /\ n \in Hops /\ n < N => now > Deadline[n + 1] \/ half[n + 1] # "add",
         UNCHANGED <<now, transfer, cond, half, chan, since, news, meta>>
  PROVE  IInv'
  <1>1. IsSet(task', task, n, k, s)
    BY SetIs, TypeParts DEF Before, IInv
  <1>2. /\ \A m \in Nodes, j \in Kinds : (m = n /\ j = k) \/ task'[m][j] = task[m][j]
        /\ task'[n][k].st = s /\ task'[n][k].due = task[n][k].due /\ task'[n][k].till = task[n][k].till
    BY <1>1 DEF IsSet, Kept
  <1>3. TypeOK'
    BY <1>1 DEF Before, IInv, TypeOK, IsSet, Kept, Tasks, TaskRecord
  <1>4. ASSUME NEW m \in Hops PROVE Parts(m)'
    <2>1. Parts(m)
      BY DEF Before, IInv
    <2>2. Timed(m)'
      BY <1>2, <2>1, Names, ZenonT(60) DEF Parts, Timed, Forever
    <2>3. Unreached(m)'
      BY <1>2, <2>1, Names DEF Parts, Unreached
    <2>4. Prompt(m)'
      BY <1>2, <2>1, Names DEF Parts, Prompt
    <2>5. Learnt(m)'
      BY <2>1 DEF Parts, Learnt
    <2>6. Live(m)'
      <3>1. CASE m # n
        <4>1. \A j \in Kinds : task'[m][j] = task[m][j]
          BY <1>2, <3>1, Names
        <4> QED
          BY <4>1, <2>1, Names DEF Parts, Live, Opening, Safe
      <3>2. CASE m = n /\ k = "open"
        <4>1. \A j \in Kinds : j # "open" => task'[m][j] = task[m][j]
          BY <1>2, <3>2, Names
        <4>2. task'[m]["open"].st = s /\ task[m]["open"].st \in {"todo", "revert"}
          BY <1>2, <3>2
        <4>3. now \in Nat
          BY DEF Before, IInv, TypeOK
        <4>4. m < N => Deadline[m + 1] \in Nat
          BY Names
        <4>5. CASE s = "done"
          <5>1. m < N => now > Deadline[m + 1] \/ half[m + 1] # "add"
            BY <3>2, <4>5
          <5>2. ASSUME m < N, now <= Deadline[m + 1], cond[m + 1] = "open" PROVE FALSE
            BY <4>2, <4>3, <4>4, <5>1, <5>2, <2>1 DEF Parts, Live, Opening
          <5> QED
            BY <4>2, <4>5, <5>2 DEF Live
        <4>6. CASE s = "todo"
          <5>1. task[m]["open"].st = "revert"
            BY <3>2, <4>6
          <5> QED
            BY <4>1, <4>2, <4>6, <5>1, <2>1, Names DEF Parts, Live, Opening
        <4> QED
          BY <4>5, <4>6
      <3>3. CASE m = n /\ k # "open"
        <4>1. task'[m]["open"] = task[m]["open"] /\ task'[m]["uncoop"] = task[m]["uncoop"]
          BY <1>2, <3>3, Names
        <4>2. task'[m]["remove"] = task[m]["remove"] \/ task[m]["remove"].st # "none"
          BY <1>2, <3>3, Names
        <4> QED
          BY <4>1, <4>2, <2>1, <3>3, Names DEF Parts, Live, Opening, Safe
      <3> QED
        BY <3>1, <3>2, <3>3
    <2>7. Owed(m)'
      <3>1. task'[m]["uncoop"] = task[m]["uncoop"]
        <4>1. ~(m = n /\ "uncoop" = k) /\ m \in Nodes /\ "uncoop" \in Kinds
          BY Names
        <4> QED
          BY <1>2, <4>1
      <3>2. task'[m]["remove"] = task[m]["remove"] \/ task[m]["remove"].st # "none"
        BY <1>2, Names
      <3>3. task'[m]["open"] = task[m]["open"] \/ task[m]["open"].st # "done"
        BY <1>2, Names
      <3> QED
        BY <2>1, <3>1, <3>2, <3>3 DEF Parts, Owed, Claim
    <2> QED
      BY <2>2, <2>3, <2>4, <2>5, <2>6, <2>7 DEF Parts
  <1> QED
    BY <1>3, <1>4 DEF IInv

\* Hop n+1 is neither locked nor to be locked nor paid, or hop n is paid: hop n may be undone.
Undoable(n) ==
    n < N => \/ cond[n + 1] = "open" /\ now > Deadline[n + 1]
             \/ cond[n + 1] = "none" /\ (task[n]["open"].st \notin {"todo", "revert"} \/ now > Deadline[n + 1])
             \/ cond[n + 1] = "removed"
             \/ cond[n + 1] = "paid" /\ cond[n] = "paid"

\* Steps that only create a task: the opening at node 0, or one that undoes a hop.
LEMMA CreateStep ==
  ASSUME Before, NEW n \in Nodes, NEW k \in Kinds, NEW due \in Nat, NEW till \in Nat,
         task' = Created(task, n, k, due, till),
         \/ n = 0 /\ k = "open"
         \/ n # 0 /\ cond[n] # "none" /\ k = "remove" /\ Undoable(n)
         \/ n # 0 /\ cond[n] # "none" /\ k = "uncoop" /\ Undoable(n) /\ till = Forever,
         UNCHANGED <<now, transfer, cond, half, chan, since, news, meta>>
  PROVE  IInv'
  <1>1. IsCreated(task', task, n, k, due, till)
    BY CreatedIs, TypeParts DEF Before, IInv
  <1>2. /\ \A m \in Nodes, j \in Kinds : (m = n /\ j = k) \/ task'[m][j] = task[m][j]
        /\ \/ task'[n][k] = task[n][k]
           \/ task'[n][k].st = "todo" /\ task'[n][k].till = till
    BY <1>1 DEF IsCreated, Kept
  <1>3. TypeOK'
    BY <1>1 DEF Before, IInv, TypeOK, IsCreated, Kept, Tasks, TaskRecord
  <1>4. ASSUME NEW m \in Hops, m # n PROVE Parts(m)'
    <2>1. Parts(m)
      BY DEF Before, IInv
    <2>2. \A j \in Kinds : task'[m][j] = task[m][j]
      BY <1>2, <1>4, Names
    <2>3. task'[m - 1]["open"].st = "saved" => task[m - 1]["open"].st = "saved"
      BY <1>2, Names
    <2>4. Timed(m)' /\ Unreached(m)' /\ Prompt(m)' /\ Learnt(m)'
      BY <2>1, <2>2, <2>3, Names DEF Parts, Timed, Forever, Unreached, Prompt, Learnt
    <2>5. Live(m)' /\ Owed(m)'
      BY <2>1, <2>2, Names DEF Parts, Live, Opening, Safe, Owed, Claim
    <2> QED
      BY <2>4, <2>5 DEF Parts
  <1>5. ASSUME n \in Hops PROVE Parts(n)'
    <2>1. Parts(n) /\ n # 0
      BY <1>5 DEF Before, IInv
    <2>2. /\ cond[n] # "none" /\ Undoable(n) /\ k \in {"remove", "uncoop"}
          /\ k = "uncoop" => till = Forever
          /\ cond[n + 1]' = cond[n + 1]
      BY <2>1
    <2>3. task'[n]["open"] = task[n]["open"] /\ task'[n]["timeout"] = task[n]["timeout"]
      BY <1>2, <1>5, <2>2, Names
    <2>4. task'[n]["uncoop"] = task[n]["uncoop"] \/ task'[n]["uncoop"].till = Forever
      BY <1>2, <1>5, <2>2, Names
    <2>5. task'[n - 1]["open"] = task[n - 1]["open"]
      BY <1>2, <1>5, <2>2, Names
    <2>6. Timed(n)' /\ Unreached(n)' /\ Prompt(n)' /\ Learnt(n)'
      BY <2>1, <2>2, <2>3, <2>4, <2>5 DEF Parts, Timed, Forever, Unreached, Prompt, Learnt
    <2>7. Live(n)' /\ Owed(n)'
      <3>1. now \in Nat
        BY DEF Before, IInv, TypeOK
      <3>2. n < N => Deadline[n + 1] \in Nat
        BY <1>5, Names
      <3>3. ASSUME n < N, now <= Deadline[n + 1],
                   \/ cond[n + 1] = "open"
                   \/ cond[n + 1] = "none" /\ task[n]["open"].st \in {"todo", "revert"}
            PROVE  FALSE
        BY <2>2, <3>1, <3>2, <3>3 DEF Undoable
      <3>4. Live(n)'
        BY <2>2, <2>3, <3>3 DEF Live
      <3>5. Owed(n)'
        BY <2>2, <2>3 DEF Owed, Undoable
      <3> QED
        BY <3>4, <3>5
    <2> QED
      BY <2>6, <2>7 DEF Parts
  <1> QED
    BY <1>3, <1>4, <1>5 DEF IInv

\* A task to undo a hop of a middle node that is ready finds that the hop may be undone.
LEMMA RemoverReady ==
  ASSUME Before, NEW n \in Hops, NEW k \in Removers, Ready(n, k)
  PROVE  cond[n] # "none" /\ Undoable(n)
  <1>1. k \in Kinds /\ (k = "remove" \/ k = "timeout")
    BY DEF Removers, Kinds
  <1>2. TypeOK /\ Parts(n) /\ task \in Tasks /\ now \in Nat
    BY TypeParts DEF Before, IInv
  <1>3. cond[n] # "none"
    BY <1>1, <1>2 DEF Parts, Unreached, Ready
  <1>4. n < N => cond[n + 1] \in {"none", "open", "paid", "removed"}
    BY <1>2, Names DEF TypeOK
  <1>5. k = "timeout" => now > Deadline[n]
    BY <1>1, <1>2, Names DEF Parts, Timed, Ready
  <1>6. CASE cond[n] = "open"
    <2>1. Undoable(n)
      BY <1>1, <1>2, <1>4, <1>5, <1>6, Names DEF Parts, Live, Owed, Undoable, Ready
    <2> QED
      BY <1>3, <2>1
  <1>7. CASE cond[n] # "open"
    <2>1. n < N /\ cond[n + 1] = "paid" => cond[n] = "paid"
      BY <1>2, <1>7 DEF Parts, Owed
    <2>2. n < N /\ now <= Deadline[n + 1] =>
            cond[n + 1] # "open" /\ (cond[n + 1] = "none" => task[n]["open"].st \notin {"todo", "revert"})
      BY <1>2, <1>7 DEF Parts, Live
    <2> QED
      BY <1>2, <1>3, <1>4, <2>1, <2>2, Names DEF Undoable
  <1> QED
    BY <1>6, <1>7

\* A node keeps its part of the invariant through a step that does not touch it.
LEMMA Frame ==
  ASSUME NEW m \in Hops, Parts(m), Prompt(m)', now' = now,
         cond'[m] = cond[m], chan'[m] = chan[m], since'[m] = since[m], meta'[m] = meta[m],
         news'[m] => news[m] \/ cond[m] = "paid", \A j \in Kinds : task'[m][j] = task[m][j],
         m < N => cond'[m + 1] = cond[m + 1] /\ half'[m + 1] = half[m + 1] /\ news'[m + 1] = news[m + 1]
  PROVE  Parts(m)'
  <1>1. Timed(m)' /\ Unreached(m)' /\ Learnt(m)'
    BY Names DEF Parts, Timed, Forever, Unreached, Learnt
  <1>2. Live(m)'
    BY Names DEF Parts, Live, Opening, Safe
  <1>3. Owed(m)'
    BY Names DEF Parts, Owed, Claim
  <1> QED
    BY <1>1, <1>2, <1>3 DEF Parts

\* The types of the values that the invariant compares.
LEMMA Values ==
  ASSUME IInv, NEW n \in Hops
  PROVE  /\ now \in Nat /\ now <= MaxTime /\ task \in Tasks /\ meta \in Metas
         /\ cond[n] \in {"none", "open", "paid", "removed"}
         /\ n < N => cond[n + 1] \in {"none", "open", "paid", "removed"} /\ Deadline[n + 1] \in Nat
         /\ Deadline[n] \in Nat /\ since[n] \in Nat
         /\ \A m \in Nodes, k \in Kinds : /\ task[m][k].due \in Nat /\ task[m][k].till \in Nat
                                          /\ task[m][k].st \in {"none", "todo", "saved", "revert", "done"}
         /\ Parts(n)
  <1>1. /\ now \in 0..MaxTime /\ task \in Tasks /\ meta \in Metas
        /\ cond \in [Hops -> {"none", "open", "paid", "removed"}] /\ since \in [Hops -> Nat]
    BY TypeParts DEF IInv
  <1>2. \A m \in Nodes, k \in Kinds : task[m][k] \in TaskRecord
    BY <1>1 DEF Tasks
  <1> QED
    BY <1>1, <1>2, Names DEF IInv, TaskRecord

-----------------------------------------------------------------------------
(* Opening.                                                                *)

\* A meta keeps its type, and only the meta of node n changes.
LEMMA PendingIs ==
  ASSUME meta \in Metas, NEW n \in Nodes
  PROVE  /\ MetaPending(n) \in Metas
         /\ \A m \in Nodes : m # n => MetaPending(n)[m] = meta[m]
         /\ MetaPending(n)[n].res = meta[n].res
  BY DEF Metas, MetaPending

\* The opening is denied, or the deadline is too close.
LEMMA OpenRefusedStep ==
  ASSUME Before, NEW n \in 0..(N - 1), OpenImpossible(n) \/ OpenDenied(n)
  PROVE  IInv'
  <1>1. n \in Nodes /\ n + 1 \in Hops
    OBVIOUS
  <1> DEFINE h == n + 1
  <1>2. /\ task[n]["open"].st = "todo" /\ meta' = MetaPending(n)
        /\ UNCHANGED <<now, transfer, cond, half, chan, since, news>>
        /\ \/ ~Safe(h) /\ task' = Set(task, n, "open", "done")
           \/ cond[h] # "open" /\ task' = Set(task, n, "open", "revert")
    BY DEF OpenImpossible, OpenDenied, Ready, Done
  <1>3. PICK s \in {"done", "revert"} :
           /\ task' = Set(task, n, "open", s)
           /\ s = "done" => ~Safe(h)
           /\ s = "revert" => cond[h] # "open"
    BY <1>2
  <1>4. task \in Tasks /\ meta \in Metas /\ now \in Nat
    BY <1>1, Values DEF Before
  <1>5. IsSet(task', task, n, "open", s)
    BY <1>1, <1>3, <1>4, SetIs, Names
  <1>6. /\ task' \in Tasks
        /\ \A m \in Nodes, j \in Kinds : m # n \/ j # "open" => task'[m][j] = task[m][j]
        /\ task'[n]["open"].st = s /\ task'[n]["open"].till = task[n]["open"].till
    BY <1>5 DEF IsSet, Kept
  <1>7. meta' \in Metas /\ (\A m \in Nodes : m # n => meta'[m] = meta[m]) /\ meta'[n].res = meta[n].res
    BY <1>1, <1>2, <1>4, PendingIs
  <1>8. TypeOK'
    BY <1>2, <1>6, <1>7 DEF Before, IInv, TypeOK, Tasks, TaskRecord, Metas
  <1>9. ASSUME NEW m \in Hops PROVE Prompt(m)'
    <2>1. task'[m - 1]["open"].st = "saved" => task[m - 1]["open"].st = "saved"
      BY <1>6, Names
    <2> QED
      BY <1>2, <2>1 DEF Before, IInv, Parts, Prompt
  <1>10. ASSUME NEW m \in Hops, m # n PROVE Parts(m)'
    <2>1. Parts(m) /\ meta'[m] = meta[m] /\ \A j \in Kinds : task'[m][j] = task[m][j]
      BY <1>6, <1>7, <1>10, Names DEF Before, IInv
    <2> QED
      BY <1>2, <1>9, <2>1, Frame
  <1>11. ASSUME n \in Hops PROVE Parts(n)'
    <2>1. Parts(n) /\ n < N /\ Deadline[h] \in Nat
      BY <1>11, Names DEF Before, IInv
    <2>2. \A j \in Kinds : j # "open" => task'[n][j] = task[n][j]
      BY <1>1, <1>6
    <2>3. cond[n] # "none"
      BY <1>2, <2>1, Names DEF Parts, Unreached
    <2>4. Timed(n)' /\ Unreached(n)' /\ Learnt(n)'
      BY <1>2, <1>6, <1>7, <2>1, <2>2, <2>3, Names DEF Parts, Timed, Forever, Unreached, Learnt
    <2>5. ~(cond[h] = "open" /\ now <= Deadline[h])
      BY <1>2, <1>3, <2>1 DEF Parts, Live, Opening
    <2>6. Live(n)'
      BY <1>2, <1>6, <2>1, <2>2, <2>5, Names DEF Parts, Live
    <2>7. Owed(n)'
      BY <1>2, <2>1 DEF Parts, Owed
    <2> QED
      BY <1>9, <1>11, <2>4, <2>6, <2>7 DEF Parts
  <1> QED
    BY <1>8, <1>10, <1>11 DEF IInv

\* The proposer saves the opening.
LEMMA OpenSavedStep ==
  ASSUME Before, NEW n \in 0..(N - 1), OpenSaved(n)
  PROVE  IInv'
  <1> DEFINE h == n + 1
  <1>1. n \in Nodes /\ h \in Hops /\ h - 1 = n
    OBVIOUS
  <1>2. /\ task[n]["open"].st = "todo" /\ cond[h] = "open" /\ task' = Set(task, n, "open", "saved")
        /\ half' = [half EXCEPT ![h] = "none"] /\ (half[h] = "add" \/ chan[h] = "active")
        /\ UNCHANGED <<now, transfer, cond, chan, since, news, meta>>
    BY DEF OpenSaved, Ready
  <1>3. task \in Tasks /\ now \in Nat /\ half \in [Hops -> {"none", "add", "exec", "rem"}]
    BY <1>1, Values DEF Before, IInv, TypeOK
  <1>4. IsSet(task', task, n, "open", "saved")
    BY <1>1, <1>2, <1>3, SetIs, Names
  <1>5. /\ task' \in Tasks
        /\ \A m \in Nodes, j \in Kinds : m # n \/ j # "open" => task'[m][j] = task[m][j]
        /\ task'[n]["open"].st = "saved" /\ task'[n]["open"].till = task[n]["open"].till
    BY <1>4 DEF IsSet, Kept
  <1>6. half'[h] = "none" /\ \A m \in Hops : m # h => half'[m] = half[m]
    BY <1>1, <1>2, <1>3
  <1>7. TypeOK'
    BY <1>1, <1>2, <1>3, <1>5, <1>6 DEF Before, IInv, TypeOK, Tasks, TaskRecord
  <1>8. ASSUME NEW m \in Hops PROVE Prompt(m)'
    <2>1. Prompt(m)
      BY DEF Before, IInv, Parts
    <2>2. CASE m = h
      BY <1>1, <1>2, <2>1, <2>2 DEF Prompt
    <2>3. CASE m # h
      <3>1. m - 1 \in Nodes /\ m - 1 # n
        BY <2>3
      <3> QED
        BY <1>2, <1>5, <1>6, <2>1, <2>3, <3>1, Names DEF Prompt
    <2> QED
      BY <2>2, <2>3
  <1>9. ASSUME NEW m \in Hops, m # n PROVE Parts(m)'
    <2>1. Parts(m) /\ \A j \in Kinds : task'[m][j] = task[m][j]
      BY <1>5, <1>9, Names DEF Before, IInv
    <2>2. m < N => half'[m + 1] = half[m + 1]
      BY <1>6, <1>9
    <2> QED
      BY <1>2, <1>8, <2>1, <2>2, Frame
  <1>10. ASSUME n \in Hops PROVE Parts(n)'
    <2>1. Parts(n) /\ n < N
      BY <1>10 DEF Before, IInv
    <2>2. \A j \in Kinds : j # "open" => task'[n][j] = task[n][j]
      BY <1>1, <1>5
    <2>3. cond[n] # "none"
      BY <1>2, <2>1, Names DEF Parts, Unreached
    <2>4. Timed(n)' /\ Unreached(n)' /\ Learnt(n)'
      BY <1>2, <1>5, <2>1, <2>2, <2>3, Names DEF Parts, Timed, Forever, Unreached, Learnt
    <2>5. Live(n)'
      BY <1>2, <1>5, <1>6, <2>1, <2>2, Names DEF Parts, Live, Opening
    <2>6. Owed(n)'
      BY <1>2 DEF Owed
    <2> QED
      BY <1>8, <1>10, <2>4, <2>5, <2>6 DEF Parts
  <1> QED
    BY <1>7, <1>9, <1>10 DEF IInv

\* The meta of the payer becomes active.
LEMMA OpenFinishedStep ==
  ASSUME Before, NEW n \in 0..(N - 1), OpenFinished(n)
  PROVE  IInv'
  <1> DEFINE h == n + 1
  <1>1. n \in Nodes /\ h \in Hops /\ h - 1 = n
    OBVIOUS
  <1>2. /\ task[n]["open"].st = "saved" /\ task' = Set(task, n, "open", "done")
        /\ meta' = [meta EXCEPT ![n].st = "active"]
        /\ UNCHANGED <<now, transfer, cond, half, chan, since, news>>
    BY DEF OpenFinished, Done
  <1>3. task \in Tasks /\ meta \in Metas /\ now \in Nat
    BY <1>1, Values DEF Before
  <1>4. IsSet(task', task, n, "open", "done")
    BY <1>1, <1>2, <1>3, SetIs, Names
  <1>5. /\ task' \in Tasks
        /\ \A m \in Nodes, j \in Kinds : m # n \/ j # "open" => task'[m][j] = task[m][j]
        /\ task'[n]["open"].st = "done" /\ task'[n]["open"].till = task[n]["open"].till
    BY <1>4 DEF IsSet, Kept
  <1>6. /\ meta' \in Metas /\ \A m \in Nodes : m # n => meta'[m] = meta[m]
        /\ meta'[n].st = "active" /\ meta'[n].res = meta[n].res
    BY <1>1, <1>2, <1>3 DEF Metas
  <1>7. TypeOK'
    BY <1>2, <1>5, <1>6 DEF Before, IInv, TypeOK, Tasks, TaskRecord, Metas
  <1>8. ASSUME NEW m \in Hops PROVE Prompt(m)'
    <2>1. task'[m - 1]["open"].st = "saved" => task[m - 1]["open"].st = "saved"
      BY <1>5, Names
    <2> QED
      BY <1>2, <2>1 DEF Before, IInv, Parts, Prompt
  <1>9. ASSUME NEW m \in Hops, m # n PROVE Parts(m)'
    <2>1. Parts(m) /\ meta'[m] = meta[m] /\ \A j \in Kinds : task'[m][j] = task[m][j]
      BY <1>5, <1>6, <1>9, Names DEF Before, IInv
    <2> QED
      BY <1>2, <1>8, <2>1, Frame
  <1>10. ASSUME n \in Hops PROVE Parts(n)'
    <2>1. Parts(n) /\ n < N
      BY <1>10 DEF Before, IInv
    <2>2. \A j \in Kinds : j # "open" => task'[n][j] = task[n][j]
      BY <1>1, <1>5
    <2>3. cond[n] # "none"
      BY <1>2, <2>1, Names DEF Parts, Unreached
    <2>4. Timed(n)' /\ Unreached(n)' /\ Learnt(n)'
      BY <1>2, <1>5, <1>6, <2>1, <2>2, <2>3, Names DEF Parts, Timed, Forever, Unreached, Learnt
    <2>5. Live(n)'
      BY <1>2, <1>5, <1>6, <2>1, <2>2, Names DEF Parts, Live, Opening
    <2>6. Owed(n)'
      BY <1>2, <2>1 DEF Parts, Owed
    <2> QED
      BY <1>8, <1>10, <2>4, <2>5, <2>6 DEF Parts
  <1> QED
    BY <1>7, <1>9, <1>10 DEF IInv

\* The party has signed that the opening will not happen: hop n is removed next.
LEMMA RevertedStep ==
  ASSUME Before, NEW n \in 0..(N - 1), Reverted(n)
  PROVE  IInv'
  <1> DEFINE h == n + 1
             t == Set(task, n, "open", "done")
  <1>1. n \in Nodes /\ h \in Hops /\ Deadline[h] \in Nat
    BY Names
  <1>2. /\ task[n]["open"].st = "revert" /\ meta' = [meta EXCEPT ![n].st = "wantremove"]
        /\ task' = IF n = 0 THEN t ELSE Created(t, n, "remove", now, Deadline[h])
        /\ UNCHANGED <<now, transfer, cond, half, chan, since, news>>
    BY DEF Reverted
  <1>3. task \in Tasks /\ meta \in Metas /\ now \in Nat
    BY <1>1, Values DEF Before
  <1>4. IsSet(t, task, n, "open", "done")
    BY <1>1, <1>3, SetIs, Names
  <1>5. /\ task' \in Tasks
        /\ \A m \in Nodes, j \in Kinds : m # n \/ j \notin {"open", "remove"} => task'[m][j] = task[m][j]
        /\ task'[n]["open"].st = "done" /\ task'[n]["open"].till = task[n]["open"].till
    <2> HIDE DEF t
    <2>1. t \in Tasks
      BY <1>4 DEF IsSet, Kept
    <2>2. n # 0 => IsCreated(task', t, n, "remove", now, Deadline[h])
      BY <1>1, <1>2, <1>3, <2>1, CreatedIs, Names
    <2>3. CASE n = 0
      BY <1>1, <1>2, <1>4, <2>3, Names DEF IsSet, Kept
    <2>4. CASE n # 0
      <3>1. Kept(task', t, n, {"remove"}) /\ Kept(t, task, n, {"open"})
        BY <1>4, <2>2, <2>4 DEF IsSet, IsCreated
      <3>2. task'[n]["open"] = t[n]["open"]
        BY <1>1, <3>1, Names DEF Kept
      <3> QED
        BY <1>1, <1>4, <3>1, <3>2, Names DEF IsSet, Kept
    <2> QED
      BY <2>3, <2>4
  <1>6. /\ meta' \in Metas /\ \A m \in Nodes : m # n => meta'[m] = meta[m]
        /\ meta'[n].st = "wantremove" /\ meta'[n].res = meta[n].res
    BY <1>1, <1>2, <1>3 DEF Metas
  <1>7. TypeOK'
    BY <1>2, <1>5, <1>6 DEF Before, IInv, TypeOK, Tasks, TaskRecord, Metas
  <1>8. ASSUME NEW m \in Hops PROVE Prompt(m)'
    <2>1. task'[m - 1]["open"].st = "saved" => task[m - 1]["open"].st = "saved"
      BY <1>5, Names
    <2> QED
      BY <1>2, <2>1 DEF Before, IInv, Parts, Prompt
  <1>9. ASSUME NEW m \in Hops, m # n PROVE Parts(m)'
    <2>1. Parts(m) /\ meta'[m] = meta[m] /\ \A j \in Kinds : task'[m][j] = task[m][j]
      BY <1>5, <1>6, <1>9, Names DEF Before, IInv
    <2> QED
      BY <1>2, <1>8, <2>1, Frame
  <1>10. ASSUME n \in Hops PROVE Parts(n)'
    <2>1. Parts(n) /\ n < N
      BY <1>10 DEF Before, IInv
    <2>2. task'[n]["timeout"] = task[n]["timeout"] /\ task'[n]["uncoop"] = task[n]["uncoop"]
      BY <1>1, <1>5, Names
    <2>3. cond[n] # "none"
      BY <1>2, <2>1, Names DEF Parts, Unreached
    <2>4. Timed(n)' /\ Unreached(n)' /\ Learnt(n)'
      BY <1>2, <1>5, <1>6, <2>1, <2>2, <2>3, Names DEF Parts, Timed, Forever, Unreached, Learnt
    <2>5. ~(cond[h] = "open" /\ now <= Deadline[h])
      BY <1>2, <2>1 DEF Parts, Live, Opening
    <2>6. Live(n)'
      BY <1>2, <1>5, <2>5 DEF Live
    <2>7. Owed(n)'
      BY <1>2, <2>1 DEF Parts, Owed
    <2> QED
      BY <1>8, <1>10, <2>4, <2>6, <2>7 DEF Parts
  <1> QED
    BY <1>7, <1>9, <1>10 DEF IInv

\* The party agrees to the opening: hop n+1 is locked and node n+1 is reached.
LEMMA OpenAgreedStep ==
  ASSUME Before, NEW n \in 0..(N - 1), OpenAgreed(n)
  PROVE  IInv'
  <1> DEFINE h == n + 1
             ms == MetaPending(n)
  <1>1. n \in Nodes /\ h \in Hops /\ h \in Nodes /\ h - 1 = n /\ h # n
    OBVIOUS
  <1>2. /\ task[n]["open"].st = "todo" /\ chan[h] = "active" /\ PrevFound(n) /\ Safe(h)
        /\ cond[h] = "none"
        /\ cond' = [cond EXCEPT ![h] = "open"] /\ half' = [half EXCEPT ![h] = "add"]
        /\ meta' = ReceivedMeta(ms, h) /\ task' = ReceivedTasks(task, h)
        /\ UNCHANGED <<now, transfer, chan, since, news>>
    BY DEF OpenAgreed, Ready
  <1>3. /\ task \in Tasks /\ meta \in Metas /\ now \in Nat /\ transfer \in BOOLEAN
        /\ cond \in [Hops -> {"none", "open", "paid", "removed"}]
        /\ half \in [Hops -> {"none", "add", "exec", "rem"}]
    BY <1>1, Values DEF Before, IInv, TypeOK
  <1>4. IsReceived(task', task, h)
    BY <1>1, <1>2, <1>3, ReceivedTasksIs
  <1>5. Parts(h) /\ \A j \in Kinds : task[h][j].st = "none"
    BY <1>1, <1>2 DEF Before, IInv, Parts, Unreached
  <1>6. /\ task' \in Tasks
        /\ \A m \in Nodes, j \in Kinds :
             m # h \/ j \notin {"next", "timeout", "open"} => task'[m][j] = task[m][j]
        /\ h = N => task'[h]["open"] = task[h]["open"]
        /\ h < N => task'[h]["open"] = [st |-> "todo", due |-> now, till |-> Deadline[h + 1]]
        /\ task'[h]["timeout"] = task[h]["timeout"] \/ task'[h]["timeout"].due = Deadline[h] + 1
    BY <1>4, <1>5, Names DEF IsReceived, Kept
  <1>7. /\ cond'[h] = "open" /\ half'[h] = "add"
        /\ \A m \in Hops : m # h => cond'[m] = cond[m] /\ half'[m] = half[m]
    BY <1>1, <1>2, <1>3
  <1>8. ms \in Metas /\ (\A m \in Nodes : m # n => ms[m] = meta[m]) /\ ms[n].res = meta[n].res
    BY <1>1, <1>3, PendingIs
  <1>9. /\ meta' \in Metas
        /\ \A m \in Nodes : m # n /\ m # h => meta'[m] = meta[m]
        /\ meta'[n].res = meta[n].res
        /\ h < N => meta'[h] = meta[h]
    <2> HIDE DEF ms
    <2>1. CASE h = N
      <3>1. meta' = [ms EXCEPT ![h] = [st |-> "active", res |-> transfer]]
        BY <1>2, <2>1 DEF ReceivedMeta
      <3> QED
        BY <1>1, <1>3, <1>8, <2>1, <3>1 DEF Metas
    <2>2. CASE h # N
      BY <1>1, <1>2, <1>8, <2>2 DEF ReceivedMeta
    <2> QED
      BY <2>1, <2>2
  <1>10. TypeOK'
    <2>1. cond' \in [Hops -> {"none", "open", "paid", "removed"}]
          /\ half' \in [Hops -> {"none", "add", "exec", "rem"}]
      BY <1>1, <1>2, <1>3
    <2> QED
      BY <1>2, <1>6, <1>7, <1>9, <2>1, SMTT(30) DEF Before, IInv, TypeOK, Tasks, TaskRecord, Metas
  <1>11. ASSUME NEW m \in Hops PROVE Prompt(m)'
    <2>1. Prompt(m) /\ m - 1 \in Nodes
      BY Names DEF Before, IInv, Parts
    <2>2. CASE m = h
      BY <1>2, <2>2 DEF Prompt
    <2>3. CASE m # h
      <3>1. task'[m - 1]["open"].st = "saved" => task[m - 1]["open"].st = "saved"
        <4>1. CASE m - 1 = h
          BY <1>6, <4>1
        <4>2. CASE m - 1 # h
          BY <1>6, <2>1, <4>2, Names
        <4> QED
          BY <4>1, <4>2
      <3> QED
        BY <1>2, <1>7, <2>1, <2>3, <3>1 DEF Prompt
    <2> QED
      BY <2>2, <2>3
  <1>12. ASSUME NEW m \in Hops, m # n, m # h PROVE Parts(m)'
    <2>1. Parts(m) /\ meta'[m] = meta[m] /\ \A j \in Kinds : task'[m][j] = task[m][j]
      BY <1>6, <1>9, <1>12, Names DEF Before, IInv
    <2>2. cond'[m] = cond[m] /\ (m < N => cond'[m + 1] = cond[m + 1] /\ half'[m + 1] = half[m + 1])
      BY <1>7, <1>12
    <2> QED
      BY <1>2, <1>11, <2>1, <2>2, Frame
  <1>13. ASSUME n \in Hops PROVE Parts(n)'
    <2>1. Parts(n) /\ n < N /\ cond[n] = "open" /\ cond'[n] = "open" /\ Deadline[h] \in Nat
      BY <1>1, <1>2, <1>7, <1>13, Names DEF Before, IInv, PrevFound
    <2>2. \A j \in Kinds : task'[n][j] = task[n][j]
      BY <1>1, <1>6
    <2>3. now <= Deadline[h]
      BY <1>2, <1>3, <2>1 DEF Safe
    <2>4. Timed(n)' /\ Unreached(n)' /\ Learnt(n)'
      BY <1>2, <1>7, <1>9, <2>1, <2>2, Names DEF Parts, Timed, Forever, Unreached, Learnt
    <2>5. Live(n)'
      BY <1>2, <1>7, <2>1, <2>2, <2>3, Names DEF Parts, Live, Opening, Safe
    <2>6. Owed(n)'
      BY <1>7 DEF Owed
    <2> QED
      BY <1>11, <1>13, <2>4, <2>5, <2>6 DEF Parts
  <1>14. Parts(h)'
    <2>1. task'[h]["uncoop"].st = "none" /\ task'[h]["remove"].st = "none"
      BY <1>1, <1>5, <1>6, Names
    <2>2. h < N => cond'[h + 1] = "none" /\ ~meta'[h].res
      BY <1>1, <1>2, <1>5, <1>7, <1>9 DEF Parts, Unreached
    <2>3. ~news[h]
      BY <1>2, <1>5 DEF Parts, Learnt
    <2>4. Timed(h)'
      BY <1>5, <1>6, <2>1, Names DEF Timed
    <2>5. Unreached(h)' /\ Learnt(h)'
      BY <1>2, <1>7, <2>2, <2>3 DEF Unreached, Learnt
    <2>6. Live(h)' /\ Owed(h)'
      BY <1>2, <1>7, <2>1, <2>2 DEF Live, Owed
    <2> QED
      BY <1>1, <1>11, <2>4, <2>5, <2>6 DEF Parts
  <1> QED
    BY <1>10, <1>12, <1>13, <1>14 DEF IInv

-----------------------------------------------------------------------------
(* Resolving and closing.                                                  *)

\* The receiver learns the resolve, or asks for its money.
LEMMA ReceiverStep ==
  ASSUME Before, AddConditionalResolve \/ CloseConditional \/ CloseNext
  PROVE  IInv'
  <1>1. N \in Hops /\ N \in Nodes
    OBVIOUS
  <1>2. task \in Tasks /\ meta \in Metas /\ now \in Nat /\ Parts(N)
    BY <1>1, Values DEF Before
  <1>3. /\ UNCHANGED <<now, transfer, cond, half, chan, since, news>>
        /\ \/ meta' = meta
           \/ meta' = [meta EXCEPT ![N].res = TRUE]
           \/ meta' = [meta EXCEPT ![N].st = "wantclose"]
        /\ \/ task' = task
           \/ task' = WithClosing(task, N)
           \/ task' = WithClosing(Set(task, N, "next", "done"), N)
           \/ task' = Set(task, N, "next", "done")
        /\ cond[N] # "none"
    BY <1>1, <1>2, Names DEF AddConditionalResolve, CloseConditional, CloseNext, CanClose, Parts, Unreached
  <1>4. meta' \in Metas /\ \A m \in Nodes : m # N => meta'[m] = meta[m]
    <2>1. CASE meta' = meta
      BY <1>2, <2>1
    <2>2. CASE meta' = [meta EXCEPT ![N].res = TRUE]
      BY <1>1, <1>2, <2>2 DEF Metas
    <2>3. CASE meta' = [meta EXCEPT ![N].st = "wantclose"]
      BY <1>1, <1>2, <2>3 DEF Metas
    <2> QED
      BY <1>3, <2>1, <2>2, <2>3
  <1>5. /\ task' \in Tasks
        /\ \A m \in Nodes, j \in Kinds :
             m # N \/ j \notin {"next", "uncoop", "close"} => task'[m][j] = task[m][j]
        /\ task'[N]["uncoop"] = task[N]["uncoop"] \/ task'[N]["uncoop"].till = Forever
    <2> DEFINE t == Set(task, N, "next", "done")
    <2>1. IsSet(t, task, N, "next", "done")
      BY <1>1, <1>2, SetIs, Names
    <2>2. t \in Tasks
      BY <2>1 DEF IsSet, Kept
    <2>3. IsClosing(WithClosing(task, N), task, N)
      BY <1>1, <1>2, WithClosingIs
    <2> HIDE DEF t
    <2>4. IsClosing(WithClosing(t, N), t, N)
      BY <1>1, <1>2, <2>2, WithClosingIs
    <2>5. CASE task' = task
      BY <1>2, <2>5
    <2>6. CASE task' = t
      BY <1>1, <2>1, <2>6, Names DEF IsSet, Kept
    <2>7. CASE task' = WithClosing(task, N)
      BY <1>1, <2>3, <2>7, Names DEF IsClosing, Kept
    <2>8. CASE task' = WithClosing(t, N)
      BY <1>1, <2>1, <2>4, <2>8, Names DEF IsClosing, IsSet, Kept
    <2> QED
      BY <1>3, <2>5, <2>6, <2>7, <2>8 DEF t
  <1>6. TypeOK'
    BY <1>3, <1>4, <1>5 DEF Before, IInv, TypeOK, Tasks, TaskRecord, Metas
  <1>7. ASSUME NEW m \in Hops PROVE Prompt(m)'
    BY <1>3, <1>5, Names DEF Before, IInv, Parts, Prompt
  <1>8. ASSUME NEW m \in Hops, m # N PROVE Parts(m)'
    <2>1. Parts(m) /\ meta'[m] = meta[m] /\ \A j \in Kinds : task'[m][j] = task[m][j]
      BY <1>4, <1>5, <1>8, Names DEF Before, IInv
    <2> QED
      BY <1>3, <1>7, <2>1, Frame
  <1>9. Parts(N)'
    <2>1. task'[N]["timeout"] = task[N]["timeout"]
      BY <1>1, <1>5, Names
    <2>2. Timed(N)'
      BY <1>2, <1>5, <2>1, Names DEF Parts, Timed, Forever
    <2>3. Unreached(N)' /\ Learnt(N)' /\ Live(N)' /\ Owed(N)'
      BY <1>2, <1>3 DEF Parts, Unreached, Learnt, Live, Owed
    <2> QED
      BY <1>1, <1>7, <2>2, <2>3 DEF Parts
  <1> QED
    BY <1>6, <1>8, <1>9 DEF IInv

\* The payer of hop n agrees to pay it; it is the payee of the hop before.
LEMMA CloseAgreedStep ==
  ASSUME Before, NEW n \in Hops, CloseAgreed(n)
  PROVE  IInv'
  <1> DEFINE p == n - 1
  <1>1. p \in Nodes /\ n \in Nodes /\ p + 1 = n /\ p # n
    OBVIOUS
  <1>2. /\ meta[n].res /\ chan[n] = "active" /\ cond[n] = "open" /\ ~Busy(n) /\ now <= Deadline[n]
        /\ p > 0 => chan[p] = "active"
        /\ cond' = [cond EXCEPT ![n] = "paid"] /\ half' = [half EXCEPT ![n] = "exec"]
        /\ meta' = [meta EXCEPT ![p] =
                      [st |-> IF p = 0 THEN "closed"
                              ELSE IF cond[p] = "open" THEN "wantclose" ELSE @.st,
                       res |-> TRUE]]
        /\ task' = IF p > 0 /\ cond[p] = "open" THEN WithClosing(task, p) ELSE task
        /\ UNCHANGED <<now, transfer, chan, since, news>>
    BY DEF CloseAgreed, PayerAccepts
  <1>3. /\ task \in Tasks /\ meta \in Metas /\ now \in Nat /\ Parts(n)
        /\ cond \in [Hops -> {"none", "open", "paid", "removed"}]
        /\ half \in [Hops -> {"none", "add", "exec", "rem"}]
    BY <1>1, Values DEF Before, IInv, TypeOK
  <1>4. /\ task' \in Tasks
        /\ \A m \in Nodes, j \in Kinds :
             m # p \/ j \notin {"uncoop", "close"} => task'[m][j] = task[m][j]
        /\ p > 0 /\ cond[p] = "open" => IsClosing(task', task, p)
        /\ ~(p > 0 /\ cond[p] = "open") => task' = task
    <2>1. CASE p > 0 /\ cond[p] = "open"
      <3>1. p \in Hops /\ task' = WithClosing(task, p)
        BY <1>2, <2>1
      <3>2. IsClosing(task', task, p)
        BY <1>3, <3>1, WithClosingIs
      <3> QED
        BY <2>1, <3>2 DEF IsClosing, Kept
    <2>2. CASE ~(p > 0 /\ cond[p] = "open")
      BY <1>2, <1>3, <2>2
    <2> QED
      BY <2>1, <2>2
  <1>5. /\ cond'[n] = "paid" /\ half'[n] = "exec"
        /\ \A m \in Hops : m # n => cond'[m] = cond[m] /\ half'[m] = half[m]
    BY <1>1, <1>2, <1>3
  <1>6. /\ meta' \in Metas /\ \A m \in Nodes : m # p => meta'[m] = meta[m]
        /\ meta'[p].res /\ (p # 0 /\ cond[p] = "open" => meta'[p].st = "wantclose")
    <2> DEFINE r == [st |-> IF p = 0 THEN "closed"
                            ELSE IF cond[p] = "open" THEN "wantclose" ELSE meta[p].st,
                     res |-> TRUE]
    <2>1. r \in [st : {"none", "pending", "active", "wantclose", "wantremove", "closed"}, res : BOOLEAN]
      BY <1>1, <1>3 DEF Metas
    <2>2. meta' = [meta EXCEPT ![p] = r]
      BY <1>2
    <2>3. r.res /\ (p # 0 /\ cond[p] = "open" => r.st = "wantclose")
      OBVIOUS
    <2> HIDE DEF r
    <2> QED
      BY <1>1, <1>3, <2>1, <2>2, <2>3 DEF Metas
  <1>7. TypeOK'
    <2>1. cond' \in [Hops -> {"none", "open", "paid", "removed"}]
          /\ half' \in [Hops -> {"none", "add", "exec", "rem"}]
      BY <1>2, <1>3
    <2> QED
      BY <1>2, <1>4, <1>5, <1>6, <2>1 DEF Before, IInv, TypeOK, Tasks, TaskRecord, Metas
  <1>8. ASSUME NEW m \in Hops PROVE Prompt(m)'
    <2>1. Prompt(m) /\ task'[m - 1]["open"] = task[m - 1]["open"]
      BY <1>4, Names DEF Before, IInv, Parts
    <2> QED
      BY <1>2, <1>5, <2>1 DEF Prompt
  <1>9. ASSUME NEW m \in Hops, m # n, m # p PROVE Parts(m)'
    <2>1. Parts(m) /\ meta'[m] = meta[m] /\ \A j \in Kinds : task'[m][j] = task[m][j]
      BY <1>4, <1>6, <1>9, Names DEF Before, IInv
    <2>2. cond'[m] = cond[m] /\ (m < N => cond'[m + 1] = cond[m + 1] /\ half'[m + 1] = half[m + 1])
      BY <1>5, <1>9
    <2> QED
      BY <1>2, <1>8, <2>1, <2>2, Frame
  <1>10. Parts(n)'
    <2>1. \A j \in Kinds : task'[n][j] = task[n][j]
      BY <1>1, <1>4
    <2>2. n < N => cond[n + 1] = "paid" /\ cond'[n + 1] = "paid"
      BY <1>2, <1>3, <1>5, Names DEF Parts, Learnt
    <2>3. Timed(n)' /\ Unreached(n)' /\ Learnt(n)'
      BY <1>2, <1>3, <1>5, <2>1, <2>2, Names DEF Parts, Timed, Forever, Unreached, Learnt
    <2>4. Live(n)' /\ Owed(n)'
      BY <1>5, <2>2 DEF Live, Owed
    <2> QED
      BY <1>8, <2>3, <2>4 DEF Parts
  <1>11. ASSUME p \in Hops PROVE Parts(p)'
    <2>1. Parts(p) /\ p < N /\ p > 0 /\ Deadline[p] \in Nat /\ Deadline[n] \in Nat
          /\ Deadline[n] + SafePeriod + 1 <= Deadline[p]
      BY <1>1, <1>11, Names DEF Before, IInv
    <2>2. /\ cond[p] = "open" /\ chan[p] = "active"
          /\ task[p]["remove"].st = "none" /\ task[p]["uncoop"].st = "none" /\ Opening(p)
      BY <1>2, <2>1 DEF Parts, Live
    <2>3. task[p]["open"].st = "done"
      BY <1>2, <2>2 DEF Opening, Busy
    <2>4. IsClosing(task', task, p)
      BY <1>4, <2>1, <2>2
    <2>5. /\ task'[p]["uncoop"].st = "todo" /\ task'[p]["uncoop"].till = Forever
          /\ task'[p]["uncoop"].due \in Nat /\ now <= task'[p]["uncoop"].due
          /\ task'[p]["uncoop"].due + SafePeriod <= Deadline[p]
      <3>1. now + 1 + SafePeriod <= Deadline[p]
        BY <1>2, <1>3, <2>1
      <3>2. /\ ClosingTime(p) \in Nat /\ now < ClosingTime(p) /\ ClosingTime(p) + SafePeriod <= Deadline[p]
            /\ task'[p]["uncoop"] = [st |-> "todo", due |-> ClosingTime(p), till |-> Forever]
        BY <2>2, <2>4, <3>1 DEF IsClosing
      <3> QED
        BY <1>3, <3>2
    <2>6. /\ task'[p]["open"] = task[p]["open"] /\ task'[p]["remove"] = task[p]["remove"]
          /\ task'[p]["timeout"] = task[p]["timeout"]
      BY <1>1, <1>4, Names
    <2>7. cond'[p] = "open" /\ cond'[p + 1] = "paid" /\ meta'[p].st = "wantclose" /\ meta'[p].res
      BY <1>5, <1>6, <1>11, <2>1, <2>2
    <2>8. Timed(p)'
      BY <2>1, <2>5, <2>6, Names DEF Parts, Timed, Forever
    <2>9. Unreached(p)' /\ Learnt(p)' /\ Live(p)'
      BY <1>2, <2>1, <2>2, <2>7 DEF Parts, Unreached, Learnt, Live
    <2>10. now <= Deadline[p]
      BY <1>2, <1>3, <2>1
    <2>11. Owed(p)'
      BY <1>2, <2>2, <2>3, <2>5, <2>6, <2>7, <2>10 DEF Owed, Claim
    <2> QED
      BY <1>8, <1>11, <2>8, <2>9, <2>11 DEF Parts
  <1> QED
    BY <1>7, <1>9, <1>10, <1>11 DEF IInv

\* The payee saves the payment.
LEMMA CloseSavedStep ==
  ASSUME Before, NEW n \in Hops, CloseSaved(n)
  PROVE  IInv'
  <1>1. n \in Nodes
    OBVIOUS
  <1>2. /\ half[n] = "exec" /\ half' = [half EXCEPT ![n] = "none"]
        /\ meta' = [meta EXCEPT ![n].st = "closed"] /\ task' = Set(task, n, "close", "done")
        /\ UNCHANGED <<now, transfer, cond, chan, since, news>>
    BY DEF CloseSaved, Done
  <1>3. /\ task \in Tasks /\ meta \in Metas /\ now \in Nat /\ Parts(n) /\ cond[n] = "paid"
        /\ half \in [Hops -> {"none", "add", "exec", "rem"}]
    BY <1>1, <1>2, Values, TypeParts DEF Before, IInv
  <1>4. IsSet(task', task, n, "close", "done")
    BY <1>1, <1>2, <1>3, SetIs, Names
  <1>5. /\ task' \in Tasks
        /\ \A m \in Nodes, j \in Kinds : m # n \/ j # "close" => task'[m][j] = task[m][j]
    BY <1>4 DEF IsSet, Kept
  <1>6. half'[n] = "none" /\ \A m \in Hops : m # n => half'[m] = half[m]
    BY <1>2, <1>3
  <1>7. /\ meta' \in Metas /\ \A m \in Nodes : m # n => meta'[m] = meta[m]
        /\ meta'[n].res = meta[n].res
    BY <1>1, <1>2, <1>3 DEF Metas
  <1>8. TypeOK'
    BY <1>2, <1>3, <1>5, <1>6, <1>7 DEF Before, IInv, TypeOK, Tasks, TaskRecord, Metas
  <1>9. ASSUME NEW m \in Hops PROVE Prompt(m)'
    <2>1. Prompt(m) /\ task'[m - 1]["open"] = task[m - 1]["open"]
      BY <1>5, Names DEF Before, IInv, Parts
    <2> QED
      BY <1>2, <1>6, <2>1 DEF Prompt
  <1>10. ASSUME NEW m \in Hops, m # n PROVE Parts(m)'
    <2>1. Parts(m) /\ meta'[m] = meta[m] /\ \A j \in Kinds : task'[m][j] = task[m][j]
      BY <1>5, <1>7, <1>10, Names DEF Before, IInv
    <2>2. CASE m + 1 # n
      BY <1>2, <1>6, <1>9, <2>1, <2>2, Frame
    <2>3. CASE m + 1 = n
      <3>1. Timed(m)' /\ Unreached(m)' /\ Learnt(m)'
        BY <1>2, <2>1, Names DEF Parts, Timed, Forever, Unreached, Learnt
      <3>2. Live(m)'
        BY <1>2, <1>3, <2>3 DEF Live
      <3>3. Owed(m)'
        BY <1>2, <2>1, Names DEF Parts, Owed, Claim
      <3> QED
        BY <1>9, <3>1, <3>2, <3>3 DEF Parts
    <2> QED
      BY <2>2, <2>3
  <1>11. Parts(n)'
    <2>1. \A j \in Kinds : j # "close" => task'[n][j] = task[n][j]
      BY <1>1, <1>5
    <2>2. Timed(n)' /\ Unreached(n)' /\ Learnt(n)'
      BY <1>2, <1>3, <1>7, <2>1, Names DEF Parts, Timed, Forever, Unreached, Learnt
    <2>3. Live(n)'
      BY <1>2, <1>3, <2>1, Names DEF Parts, Live
    <2>4. Owed(n)'
      BY <1>2, <1>3 DEF Owed
    <2> QED
      BY <1>9, <2>2, <2>3, <2>4 DEF Parts
  <1> QED
    BY <1>8, <1>10, <1>11 DEF IInv

-----------------------------------------------------------------------------
(* Removing.                                                               *)

\* The payer agrees to the removal of hop n and plans that of the hop before.
LEMMA RemoveAgreedStep ==
  ASSUME Before, NEW n \in Hops, NEW k \in Removers, RemoveAgreed(n, k)
  PROVE  IInv'
  <1> DEFINE p == n - 1
  <1>1. p \in Nodes /\ n \in Nodes /\ p + 1 = n /\ p # n /\ Forever \in Nat
    BY DEF Forever
  <1>2. /\ Ready(n, k) /\ chan[n] = "active" /\ cond[n] = "open"
        /\ cond' = [cond EXCEPT ![n] = "removed"] /\ half' = [half EXCEPT ![n] = "rem"]
        /\ task' = IF n > 1 THEN Created(task, p, "remove", now, Forever) ELSE task
        /\ UNCHANGED <<now, transfer, chan, since, news, meta>>
    BY DEF RemoveAgreed
  <1>3. /\ task \in Tasks /\ now \in Nat /\ Parts(n)
        /\ cond \in [Hops -> {"none", "open", "paid", "removed"}]
        /\ half \in [Hops -> {"none", "add", "exec", "rem"}]
    BY <1>1, Values DEF Before, IInv, TypeOK
  <1>4. /\ task' \in Tasks
        /\ \A m \in Nodes, j \in Kinds : m # p \/ j # "remove" => task'[m][j] = task[m][j]
    <2>1. n > 1 => IsCreated(task', task, p, "remove", now, Forever)
      BY <1>1, <1>2, <1>3, CreatedIs, Names
    <2> QED
      BY <1>2, <1>3, <2>1 DEF IsCreated, Kept
  <1>5. /\ cond'[n] = "removed" /\ half'[n] = "rem"
        /\ \A m \in Hops : m # n => cond'[m] = cond[m] /\ half'[m] = half[m]
    BY <1>1, <1>2, <1>3
  <1>6. TypeOK'
    <2>1. cond' \in [Hops -> {"none", "open", "paid", "removed"}]
          /\ half' \in [Hops -> {"none", "add", "exec", "rem"}]
      BY <1>2, <1>3
    <2> QED
      BY <1>2, <1>4, <1>5, <2>1 DEF Before, IInv, TypeOK, Tasks, TaskRecord
  <1>7. ASSUME NEW m \in Hops PROVE Prompt(m)'
    <2>1. Prompt(m) /\ task'[m - 1]["open"] = task[m - 1]["open"]
      BY <1>4, Names DEF Before, IInv, Parts
    <2> QED
      BY <1>2, <1>5, <2>1 DEF Prompt
  <1>8. ASSUME NEW m \in Hops, m # n, m # p PROVE Parts(m)'
    <2>1. Parts(m) /\ \A j \in Kinds : task'[m][j] = task[m][j]
      BY <1>4, <1>8, Names DEF Before, IInv
    <2>2. cond'[m] = cond[m] /\ (m < N => cond'[m + 1] = cond[m + 1] /\ half'[m + 1] = half[m + 1])
      BY <1>5, <1>8
    <2> QED
      BY <1>2, <1>7, <2>1, <2>2, Frame
  <1>9. Parts(n)'
    <2>1. \A j \in Kinds : task'[n][j] = task[n][j]
      BY <1>1, <1>4
    <2>2. Undoable(n)
      BY <1>2, RemoverReady
    <2>3. n < N => cond'[n + 1] = cond[n + 1] /\ Deadline[n + 1] \in Nat
      BY <1>5, Names
    <2>4. Timed(n)' /\ Unreached(n)' /\ Learnt(n)'
      BY <1>2, <1>3, <1>5, <2>1, <2>3, Names DEF Parts, Timed, Forever, Unreached, Learnt
    <2>5. ASSUME n < N, now <= Deadline[n + 1],
                 \/ cond[n + 1] = "open"
                 \/ cond[n + 1] = "none" /\ task[n]["open"].st \in {"todo", "revert"}
          PROVE  FALSE
      BY <1>3, <2>2, <2>3, <2>5 DEF Undoable
    <2>6. Live(n)'
      BY <1>2, <2>1, <2>3, <2>5, Names DEF Live
    <2>7. Owed(n)'
      BY <1>2, <2>2, <2>3 DEF Owed, Undoable
    <2> QED
      BY <1>7, <2>4, <2>6, <2>7 DEF Parts
  <1>10. ASSUME p \in Hops PROVE Parts(p)'
    <2>1. Parts(p) /\ p < N
      BY <1>1, <1>10 DEF Before, IInv
    <2>2. \A j \in Kinds : j # "remove" => task'[p][j] = task[p][j]
      BY <1>1, <1>4
    <2>3. cond'[p] = cond[p] /\ cond'[p + 1] = "removed" /\ cond[p + 1] = "open"
      BY <1>1, <1>2, <1>5, <1>10
    <2>4. Timed(p)' /\ Unreached(p)' /\ Learnt(p)'
      BY <1>2, <2>1, <2>2, <2>3, Names DEF Parts, Timed, Forever, Unreached, Learnt
    <2>5. Live(p)' /\ Owed(p)'
      BY <2>3 DEF Live, Owed
    <2> QED
      BY <1>7, <1>10, <2>4, <2>5 DEF Parts
  <1> QED
    BY <1>6, <1>8, <1>9, <1>10 DEF IInv

\* The payee saves the removal, or finds its hop gone.
LEMMA RemoveFinishedStep ==
  ASSUME Before, NEW n \in Hops, NEW k \in Removers, RemoveFinished(n, k)
  PROVE  IInv'
  <1>1. n \in Nodes /\ k \in Kinds /\ k \in {"remove", "timeout"}
    BY DEF Removers, Kinds
  <1>2. /\ Ready(n, k) /\ cond[n] # "open" /\ half' = [half EXCEPT ![n] = "none"]
        /\ meta' = [meta EXCEPT ![n].st = "wantremove"] /\ task' = Set(task, n, k, "done")
        /\ UNCHANGED <<now, transfer, cond, chan, since, news>>
    BY DEF RemoveFinished, Done
  <1>3. /\ task \in Tasks /\ meta \in Metas /\ now \in Nat /\ Parts(n) /\ cond[n] # "none"
        /\ half \in [Hops -> {"none", "add", "exec", "rem"}]
    BY <1>1, <1>2, Values, RemoverReady DEF Before, IInv, TypeOK
  <1>4. IsSet(task', task, n, k, "done")
    BY <1>1, <1>2, <1>3, SetIs, Names
  <1>5. /\ task' \in Tasks
        /\ \A m \in Nodes, j \in Kinds : m # n \/ j # k => task'[m][j] = task[m][j]
        /\ task'[n][k].st = "done" /\ task'[n][k].due = task[n][k].due
    BY <1>4 DEF IsSet, Kept
  <1>6. half'[n] = "none" /\ \A m \in Hops : m # n => half'[m] = half[m]
    BY <1>2, <1>3
  <1>7. /\ meta' \in Metas /\ \A m \in Nodes : m # n => meta'[m] = meta[m]
        /\ meta'[n].res = meta[n].res
    BY <1>1, <1>2, <1>3 DEF Metas
  <1>8. TypeOK'
    BY <1>2, <1>3, <1>5, <1>6, <1>7 DEF Before, IInv, TypeOK, Tasks, TaskRecord, Metas
  <1>9. ASSUME NEW m \in Hops PROVE Prompt(m)'
    <2>1. Prompt(m) /\ task'[m - 1]["open"] = task[m - 1]["open"]
      BY <1>1, <1>5, Names DEF Before, IInv, Parts
    <2> QED
      BY <1>2, <1>6, <2>1 DEF Prompt
  <1>10. ASSUME NEW m \in Hops, m # n PROVE Parts(m)'
    <2>1. Parts(m) /\ meta'[m] = meta[m] /\ \A j \in Kinds : task'[m][j] = task[m][j]
      BY <1>5, <1>7, <1>10, Names DEF Before, IInv
    <2>2. CASE m + 1 # n
      BY <1>2, <1>6, <1>9, <2>1, <2>2, Frame
    <2>3. CASE m + 1 = n
      <3>1. Timed(m)' /\ Unreached(m)' /\ Learnt(m)'
        BY <1>2, <2>1, Names DEF Parts, Timed, Forever, Unreached, Learnt
      <3>2. Live(m)'
        BY <1>2, <1>3, <2>3 DEF Live
      <3>3. Owed(m)'
        BY <1>2, <2>1, Names DEF Parts, Owed, Claim
      <3> QED
        BY <1>9, <3>1, <3>2, <3>3 DEF Parts
    <2> QED
      BY <2>2, <2>3
  <1>11. Parts(n)'
    <2>1. task'[n]["uncoop"] = task[n]["uncoop"] /\ task'[n]["open"] = task[n]["open"]
      BY <1>1, <1>5, Names
    <2>2. \/ task'[n]["timeout"] = task[n]["timeout"]
          \/ task[n]["timeout"].st # "none" /\ task'[n]["timeout"].due = task[n]["timeout"].due
      BY <1>1, <1>2, <1>5, Names DEF Ready
    <2>3. Timed(n)' /\ Unreached(n)' /\ Learnt(n)'
      BY <1>2, <1>3, <1>7, <2>1, <2>2, Names DEF Parts, Timed, Forever, Unreached, Learnt
    <2>4. Live(n)'
      BY <1>2, <1>3, <2>1, Names DEF Parts, Live
    <2>5. Owed(n)'
      BY <1>2, <1>3 DEF Parts, Owed
    <2> QED
      BY <1>9, <2>3, <2>4, <2>5 DEF Parts
  <1> QED
    BY <1>8, <1>10, <1>11 DEF IInv

-----------------------------------------------------------------------------
(* The blockchain.                                                         *)

\* The payee begins to close the channel of hop n.
LEMMA UncooperativeCloseStep ==
  ASSUME Before, NEW n \in Hops, UncooperativeClose(n)
  PROVE  IInv'
  <1>1. n \in Nodes
    OBVIOUS
  <1>2. /\ task[n]["uncoop"].st = "todo" /\ task[n]["uncoop"].due <= now
        /\ task' = Set(task, n, "uncoop", "done")
        /\ IF chan[n] = "active" /\ cond[n] = "open"
           THEN chan' = [chan EXCEPT ![n] = "closing"] /\ since' = [since EXCEPT ![n] = now]
           ELSE chan' = chan /\ since' = since
        /\ UNCHANGED <<now, transfer, cond, half, news, meta>>
    BY DEF UncooperativeClose, Ready, Done, StartClose
  <1>3. /\ task \in Tasks /\ now \in Nat /\ Parts(n) /\ task[n]["uncoop"].due \in Nat
        /\ chan \in [Hops -> {"active", "closing", "closed"}] /\ since \in [Hops -> Nat]
    BY <1>1, Values, Names DEF Before, IInv, TypeOK
  <1>4. IsSet(task', task, n, "uncoop", "done")
    BY <1>1, <1>2, <1>3, SetIs, Names
  <1>5. /\ task' \in Tasks
        /\ \A m \in Nodes, j \in Kinds : m # n \/ j # "uncoop" => task'[m][j] = task[m][j]
        /\ task'[n]["uncoop"].st = "done" /\ task'[n]["uncoop"].till = task[n]["uncoop"].till
    BY <1>4 DEF IsSet, Kept
  <1>6. /\ \A m \in Hops : m # n => chan'[m] = chan[m] /\ since'[m] = since[m]
        /\ \/ chan[n] = "active" /\ cond[n] = "open" /\ chan'[n] = "closing" /\ since'[n] = now
           \/ ~(chan[n] = "active" /\ cond[n] = "open") /\ chan'[n] = chan[n] /\ since'[n] = since[n]
        /\ chan' \in [Hops -> {"active", "closing", "closed"}] /\ since' \in [Hops -> Nat]
    BY <1>2, <1>3
  <1>7. TypeOK'
    BY <1>2, <1>5, <1>6 DEF Before, IInv, TypeOK, Tasks, TaskRecord
  <1>8. ASSUME NEW m \in Hops PROVE Prompt(m)'
    <2>1. Prompt(m) /\ task'[m - 1]["open"] = task[m - 1]["open"]
      BY <1>5, Names DEF Before, IInv, Parts
    <2> QED
      BY <1>2, <1>6, <2>1 DEF Prompt
  <1>9. ASSUME NEW m \in Hops, m # n PROVE Parts(m)'
    <2>1. Parts(m) /\ \A j \in Kinds : task'[m][j] = task[m][j]
      BY <1>5, <1>9, Names DEF Before, IInv
    <2> QED
      BY <1>2, <1>6, <1>8, <1>9, <2>1, Frame
  <1>10. Parts(n)'
    <2>1. \A j \in Kinds : j # "uncoop" => task'[n][j] = task[n][j]
      BY <1>1, <1>5
    <2>2. Timed(n)' /\ Unreached(n)' /\ Learnt(n)'
      BY <1>2, <1>3, <1>5, <2>1, Names DEF Parts, Timed, Forever, Unreached, Learnt
    <2>3. Live(n)'
      BY <1>2, <1>3, <2>1, Names DEF Parts, Live
    <2>4. ASSUME n < N, cond[n + 1] = "paid", cond[n] # "paid"
          PROVE  /\ cond[n] = "open" /\ task[n]["open"].st = "done" /\ task[n]["remove"].st = "none"
                 /\ meta[n].st = "wantclose" /\ meta[n].res /\ now <= Deadline[n] /\ Claim(n)
      BY <1>2, <1>3, <2>4 DEF Parts, Owed
    <2>5. ASSUME Claim(n), cond[n] = "open" PROVE Claim(n)'
      <3>1. CASE chan[n] = "closing"
        BY <1>6, <2>5, <3>1 DEF Claim
      <3>2. CASE chan[n] # "closing"
        <4>1. /\ chan[n] = "active" /\ now <= task[n]["uncoop"].due
              /\ task[n]["uncoop"].due + SafePeriod <= Deadline[n]
          BY <2>5, <3>2 DEF Claim
        <4>2. now = task[n]["uncoop"].due
          BY <1>2, <1>3, <4>1
        <4> QED
          BY <1>6, <2>5, <4>1, <4>2 DEF Claim
      <3> QED
        BY <3>1, <3>2
    <2>6. Owed(n)'
      BY <1>2, <2>1, <2>4, <2>5, Names DEF Owed
    <2> QED
      BY <1>8, <2>2, <2>3, <2>6 DEF Parts
  <1> QED
    BY <1>7, <1>9, <1>10 DEF IInv

\* Only the channel of the last hop is closed for other reasons.
LEMMA ClosedByOthersStep ==
  ASSUME Before, NEW h \in Hops, ClosedByOthers(h)
  PROVE  IInv'
  <1>1. h = N /\ h \in Closing
    BY DEF ClosedByOthers, Before
  <1>2. /\ chan' = [chan EXCEPT ![h] = "closing"] /\ since' = [since EXCEPT ![h] = now]
        /\ UNCHANGED <<now, transfer, cond, half, news, meta, task>>
    BY DEF ClosedByOthers, StartClose
  <1>3. /\ now \in Nat /\ chan \in [Hops -> {"active", "closing", "closed"}] /\ since \in [Hops -> Nat]
    BY DEF Before, IInv, TypeOK
  <1>4. /\ \A m \in Hops : m # h => chan'[m] = chan[m] /\ since'[m] = since[m]
        /\ chan'[h] = "closing" /\ since'[h] = now
        /\ chan' \in [Hops -> {"active", "closing", "closed"}] /\ since' \in [Hops -> Nat]
    BY <1>2, <1>3
  <1>5. TypeOK'
    BY <1>2, <1>4 DEF Before, IInv, TypeOK
  <1>6. ASSUME NEW m \in Hops PROVE Prompt(m)'
    BY <1>2, <1>4 DEF Before, IInv, Parts, Prompt
  <1>7. ASSUME NEW m \in Hops, m # h PROVE Parts(m)'
    BY <1>2, <1>4, <1>6, <1>7, Frame DEF Before, IInv
  <1>8. Parts(h)'
    <2>1. Parts(h)
      BY DEF Before, IInv
    <2>2. Timed(h)' /\ Unreached(h)' /\ Learnt(h)' /\ Live(h)' /\ Owed(h)'
      BY <1>1, <1>2, <2>1, Names DEF Parts, Timed, Forever, Unreached, Learnt, Live, Owed
    <2> QED
      BY <1>6, <2>2 DEF Parts
  <1> QED
    BY <1>5, <1>7, <1>8 DEF IInv

\* The payee settles hop n on chain with the resolve it knows.
LEMMA SettleStep ==
  ASSUME Before, NEW n \in Hops, Settle(n)
  PROVE  IInv'
  <1> DEFINE p == n - 1
  <1>1. p \in Nodes /\ n \in Nodes /\ p + 1 = n /\ p # n
    OBVIOUS
  <1>2. /\ chan[n] = "closing" /\ now > since[n] /\ meta[n].res /\ cond[n] = "open" /\ now <= Deadline[n]
        /\ cond' = [cond EXCEPT ![n] = "paid"] /\ news' = [news EXCEPT ![n] = TRUE]
        /\ UNCHANGED <<now, transfer, half, chan, since, meta, task>>
    BY DEF Settle
  <1>3. /\ now \in Nat /\ Parts(n) /\ since[n] \in Nat
        /\ cond \in [Hops -> {"none", "open", "paid", "removed"}] /\ news \in [Hops -> BOOLEAN]
    BY <1>1, Values DEF Before, IInv, TypeOK
  <1>4. half[n] = "none" /\ task[p]["open"].st # "saved"
    BY <1>2, <1>3 DEF Parts, Prompt
  <1>5. /\ cond'[n] = "paid" /\ news'[n]
        /\ \A m \in Hops : m # n => cond'[m] = cond[m] /\ news'[m] = news[m]
        /\ cond' \in [Hops -> {"none", "open", "paid", "removed"}] /\ news' \in [Hops -> BOOLEAN]
    BY <1>2, <1>3
  <1>6. TypeOK'
    BY <1>2, <1>4, <1>5 DEF Before, IInv, TypeOK
  <1>7. ASSUME NEW m \in Hops PROVE Prompt(m)'
    BY <1>2 DEF Before, IInv, Parts, Prompt
  <1>8. ASSUME NEW m \in Hops, m # n, m # p PROVE Parts(m)'
    <2>1. Parts(m) /\ cond'[m] = cond[m] /\ news'[m] = news[m]
      BY <1>5, <1>8 DEF Before, IInv
    <2>2. m < N => cond'[m + 1] = cond[m + 1] /\ news'[m + 1] = news[m + 1]
      BY <1>5, <1>8
    <2> QED
      BY <1>2, <1>7, <2>1, <2>2, Frame
  <1>9. Parts(n)'
    <2>1. n < N => cond[n + 1] = "paid" /\ cond'[n + 1] = "paid"
      BY <1>2, <1>3, <1>5, Names DEF Parts, Learnt
    <2>2. Timed(n)' /\ Unreached(n)' /\ Learnt(n)'
      BY <1>2, <1>3, <1>5, <2>1, Names DEF Parts, Timed, Forever, Unreached, Learnt
    <2>3. Live(n)' /\ Owed(n)'
      BY <1>5, <2>1 DEF Live, Owed
    <2> QED
      BY <1>7, <2>2, <2>3 DEF Parts
  <1>10. ASSUME p \in Hops PROVE Parts(p)'
    <2>1. Parts(p) /\ p < N
      BY <1>1, <1>10 DEF Before, IInv
    <2>2. /\ cond[p] = "open" /\ chan[p] = "active"
          /\ task[p]["remove"].st = "none" /\ task[p]["uncoop"].st = "none" /\ Opening(p)
      BY <1>2, <2>1 DEF Parts, Live
    <2>3. task[p]["open"].st = "done" /\ meta[p].st = "active"
      BY <1>4, <2>2 DEF Opening
    <2>4. cond'[p] = "open" /\ cond'[p + 1] = "paid" /\ news'[p + 1] /\ (news'[p] <=> news[p])
      BY <1>1, <1>5, <1>10, <2>2
    <2>5. Timed(p)' /\ Unreached(p)' /\ Learnt(p)' /\ Live(p)'
      BY <1>2, <2>1, <2>2, <2>4, Names DEF Parts, Timed, Forever, Unreached, Learnt, Live
    <2>6. Owed(p)'
      BY <1>2, <2>2, <2>3, <2>4 DEF Owed
    <2> QED
      BY <1>7, <1>10, <2>5, <2>6 DEF Parts
  <1> QED
    BY <1>6, <1>8, <1>9, <1>10 DEF IInv

\* The payer of hop h sees the settlement and turns to the hop before.
LEMMA ScanSettledStep ==
  ASSUME Before, NEW h \in Hops, ScanSettled(h)
  PROVE  IInv'
  <1> DEFINE n == h - 1
             learns == meta[n].st = "active" /\ (n > 0 => cond[n] = "open" /\ now <= Deadline[n])
             res == meta[n].res \/ learns
             closes == n > 0 /\ res /\ chan[n] = "active" /\ cond[n] = "open"
             r == [st |-> IF closes THEN "wantclose" ELSE meta[n].st, res |-> res]
  <1>1. n \in Nodes /\ h \in Nodes /\ n + 1 = h /\ n # h /\ (n > 0 => n \in Hops)
    OBVIOUS
  <1>2. /\ news[h] /\ news' = [news EXCEPT ![h] = FALSE]
        /\ meta' = [meta EXCEPT ![n] = r]
        /\ task' = IF closes THEN WithClosing(task, n) ELSE task
        /\ UNCHANGED <<now, transfer, cond, half, chan, since>>
    BY DEF ScanSettled
  <1>3. /\ task \in Tasks /\ meta \in Metas /\ now \in Nat /\ Parts(h) /\ news \in [Hops -> BOOLEAN]
        /\ cond[h] = "paid"
    BY <1>1, <1>2, Values DEF Before, IInv, TypeOK, Parts, Learnt
  <1>4. /\ task' \in Tasks
        /\ \A m \in Nodes, j \in Kinds :
             m # n \/ j \notin {"uncoop", "close"} => task'[m][j] = task[m][j]
        /\ closes => IsClosing(task', task, n)
        /\ ~closes => task' = task
    <2>1. CASE closes
      <3>1. n \in Hops /\ task' = WithClosing(task, n)
        BY <1>1, <1>2, <2>1
      <3>2. IsClosing(task', task, n)
        BY <1>3, <3>1, WithClosingIs
      <3> QED
        BY <2>1, <3>2 DEF IsClosing, Kept
    <2>2. CASE ~closes
      BY <1>2, <1>3, <2>2
    <2> QED
      BY <2>1, <2>2
  <1>5. /\ ~news'[h] /\ \A m \in Hops : m # h => news'[m] = news[m]
        /\ news' \in [Hops -> BOOLEAN]
    BY <1>2, <1>3
  <1>6. r.st \in {"none", "pending", "active", "wantclose", "wantremove", "closed"}
        /\ r.st = (IF closes THEN "wantclose" ELSE meta[n].st) /\ r.res = res
    BY <1>1, <1>3 DEF Metas
  <1>7. res \in BOOLEAN
    BY Zenon DEF res
  <1>8. /\ meta' \in Metas /\ \A m \in Nodes : m # n => meta'[m] = meta[m]
        /\ meta'[n] = r
    <2>1. r \in [st : {"none", "pending", "active", "wantclose", "wantremove", "closed"}, res : BOOLEAN]
      BY <1>6, <1>7
    <2> HIDE DEF r
    <2> QED
      BY <1>1, <1>2, <1>3, <2>1 DEF Metas
  <1>9. TypeOK'
    BY <1>2, <1>4, <1>5, <1>8 DEF Before, IInv, TypeOK, Tasks, TaskRecord, Metas
  <1>10. ASSUME NEW m \in Hops PROVE Prompt(m)'
    <2>1. Prompt(m) /\ task'[m - 1]["open"] = task[m - 1]["open"]
      BY <1>4, Names DEF Before, IInv, Parts
    <2> QED
      BY <1>2, <2>1 DEF Prompt
  <1>11. ASSUME NEW m \in Hops, m # n PROVE Parts(m)'
    <2>1. Parts(m) /\ meta'[m] = meta[m] /\ \A j \in Kinds : task'[m][j] = task[m][j]
      BY <1>4, <1>8, <1>11, Names DEF Before, IInv
    <2>2. (news'[m] => news[m]) /\ (m < N => news'[m + 1] = news[m + 1])
      BY <1>5, <1>11
    <2> QED
      BY <1>2, <1>10, <2>1, <2>2, Frame
  <1>12. ASSUME n \in Hops PROVE Parts(n)'
    <2>1. /\ Parts(n) /\ n < N /\ n > 0 /\ Deadline[n] \in Nat /\ Deadline[h] \in Nat
          /\ Deadline[h] + SafePeriod + 1 <= Deadline[n]
      BY <1>1, <1>12, Names DEF Before, IInv
    <2>2. cond[n] # "none"
      BY <1>1, <1>3, <2>1 DEF Parts, Unreached
    <2>3. /\ task'[n]["open"] = task[n]["open"] /\ task'[n]["remove"] = task[n]["remove"]
          /\ task'[n]["timeout"] = task[n]["timeout"]
      BY <1>1, <1>4, Names
    <2>4. \/ task'[n]["uncoop"] = task[n]["uncoop"]
          \/ task[n]["uncoop"].st = "none" /\ task'[n]["uncoop"].till = Forever
      BY <1>4 DEF IsClosing
    <2>5. Timed(n)' /\ Unreached(n)' /\ Learnt(n)' /\ Live(n)'
      BY <1>1, <1>2, <1>3, <1>5, <1>12, <2>1, <2>2, <2>3, <2>4, Names, ZenonT(60)
      DEF Parts, Timed, Forever, Unreached, Learnt, Live
    <2>6. ASSUME cond[n] # "paid" PROVE Owed(n)'
      <3>1. cond[n] = "open" /\ task[n]["open"].st = "done" /\ task[n]["remove"].st = "none"
        BY <1>1, <1>3, <2>1, <2>6 DEF Parts, Owed
      <3>2. CASE /\ now <= Deadline[h] /\ meta[n].st = "active"
                 /\ chan[n] = "active" /\ task[n]["uncoop"].st = "none"
        <4>1. now + 1 + SafePeriod <= Deadline[n] /\ now <= Deadline[n]
          BY <1>3, <2>1, <3>2
        <4>2. closes /\ r.st = "wantclose" /\ r.res
          BY <2>1, <3>1, <3>2, <4>1
        <4>3. /\ ClosingTime(n) \in Nat /\ now < ClosingTime(n) /\ ClosingTime(n) + SafePeriod <= Deadline[n]
              /\ task'[n]["uncoop"] = [st |-> "todo", due |-> ClosingTime(n), till |-> Forever]
          BY <1>4, <3>2, <4>1, <4>2 DEF IsClosing
        <4>4. now <= ClosingTime(n)
          BY <1>3, <4>3
        <4>5. Claim(n)'
          BY <1>2, <3>2, <4>3, <4>4 DEF Claim
        <4> QED
          BY <1>2, <1>8, <2>3, <3>1, <4>1, <4>2, <4>5 DEF Owed
      <3>3. CASE meta[n].st = "wantclose" /\ meta[n].res /\ now <= Deadline[n] /\ Claim(n)
        <4>1. r.st = "wantclose" /\ r.res
          BY <3>3
        <4>2. task'[n]["uncoop"] = task[n]["uncoop"]
          <5>1. CASE closes
            <6>1. task[n]["uncoop"].st # "none"
              BY <3>3, <5>1 DEF Claim
            <6> QED
              BY <1>4, <5>1, <6>1 DEF IsClosing
          <5>2. CASE ~closes
            BY <1>4, <5>2
          <5> QED
            BY <5>1, <5>2
        <4>3. Claim(n)'
          BY <1>2, <3>3, <4>2 DEF Claim
        <4> QED
          BY <1>2, <1>8, <2>3, <3>1, <3>3, <4>1, <4>3 DEF Owed
      <3> QED
        BY <1>1, <1>3, <2>1, <2>6, <3>2, <3>3 DEF Parts, Owed
    <2>7. Owed(n)'
      BY <1>2, <2>6 DEF Owed
    <2> QED
      BY <1>10, <1>12, <2>5, <2>7 DEF Parts
  <1> QED
    BY <1>9, <1>11, <1>12 DEF IInv

\* The close of channel h is over.
LEMMA FinalizeStep ==
  ASSUME Before, NEW h \in Hops, Finalize(h)
  PROVE  IInv'
  <1>1. /\ chan[h] = "closing" /\ now >= since[h] + SafePeriod
        /\ ~(meta[h].res /\ cond[h] = "open" /\ now <= Deadline[h])
        /\ chan' = [chan EXCEPT ![h] = "closed"]
        /\ cond' = [cond EXCEPT ![h] = IF @ = "open" THEN "removed" ELSE @]
        /\ half' = [half EXCEPT ![h] = "none"]
        /\ UNCHANGED <<now, transfer, since, news, meta, task>>
    BY DEF Finalize
  <1>2. /\ now \in Nat /\ Parts(h)
        /\ cond \in [Hops -> {"none", "open", "paid", "removed"}]
        /\ half \in [Hops -> {"none", "add", "exec", "rem"}]
        /\ chan \in [Hops -> {"active", "closing", "closed"}]
    BY Values DEF Before, IInv, TypeOK
  <1>3. /\ chan'[h] = "closed" /\ half'[h] = "none"
        /\ cond'[h] = IF cond[h] = "open" THEN "removed" ELSE cond[h]
        /\ \A m \in Hops : m # h => cond'[m] = cond[m] /\ half'[m] = half[m] /\ chan'[m] = chan[m]
        /\ cond' \in [Hops -> {"none", "open", "paid", "removed"}]
        /\ half' \in [Hops -> {"none", "add", "exec", "rem"}]
        /\ chan' \in [Hops -> {"active", "closing", "closed"}]
    BY <1>1, <1>2
  <1>4. TypeOK'
    BY <1>1, <1>3 DEF Before, IInv, TypeOK
  <1>5. ASSUME NEW m \in Hops PROVE Prompt(m)'
    BY <1>1, <1>3 DEF Before, IInv, Parts, Prompt
  <1>6. ASSUME NEW m \in Hops, m # h, m + 1 # h PROVE Parts(m)'
    <2>1. m < N => cond'[m + 1] = cond[m + 1] /\ half'[m + 1] = half[m + 1]
      BY <1>3, <1>6
    <2> QED
      BY <1>1, <1>3, <1>5, <1>6, <2>1, Frame DEF Before, IInv
  <1>7. ASSUME NEW m \in Hops, m + 1 = h PROVE Parts(m)'
    <2>1. Parts(m) /\ m # h /\ m < N
      BY <1>7 DEF Before, IInv
    <2>2. cond'[m] = cond[m] /\ chan'[m] = chan[m] /\ cond'[m + 1] # "open"
          /\ (cond'[m + 1] = "none" <=> cond[m + 1] = "none")
          /\ (cond'[m + 1] = "paid" <=> cond[m + 1] = "paid")
      BY <1>2, <1>3, <1>7, <2>1
    <2>3. Timed(m)' /\ Unreached(m)' /\ Learnt(m)' /\ Live(m)'
      BY <1>1, <2>1, <2>2, Names DEF Parts, Timed, Forever, Unreached, Learnt, Live
    <2>4. Owed(m)'
      BY <1>1, <2>1, <2>2, Names DEF Parts, Owed, Claim
    <2> QED
      BY <1>5, <2>3, <2>4 DEF Parts
  <1>8. Parts(h)'
    <2>1. h < N => cond'[h + 1] = cond[h + 1]
      BY <1>3
    <2>2. (cond'[h] = "none" <=> cond[h] = "none") /\ (cond'[h] = "paid" <=> cond[h] = "paid")
      BY <1>2, <1>3
    <2>3. Timed(h)' /\ Unreached(h)' /\ Learnt(h)'
      BY <1>1, <1>2, <2>1, <2>2, Names DEF Parts, Timed, Forever, Unreached, Learnt
    <2>4. Live(h)'
      BY <1>1, <1>2, <2>1, Names DEF Parts, Live
    <2>5. Owed(h)'
      BY <1>1, <1>2, <2>1, <2>2 DEF Parts, Owed
    <2> QED
      BY <1>5, <2>3, <2>4, <2>5 DEF Parts
  <1> QED
    BY <1>4, <1>6, <1>7, <1>8 DEF IInv

\* Time moves on only when nothing urgent is left, so every claim stays in time.
LEMMA TickStep ==
  ASSUME Before, Tick
  PROVE  IInv'
  <1>1. now < MaxTime /\ ~Urgent /\ now' = now + 1
        /\ UNCHANGED <<transfer, cond, half, chan, since, news, meta, task>>
    BY DEF Tick
  <1>2. now \in Nat /\ TypeOK
    BY DEF Before, IInv, TypeOK
  <1>3. /\ \A n \in Hops : half[n] = "none" /\ ~news[n] /\ ~Ready(n, "uncoop")
        /\ \A n \in Hops : chan[n] = "closing" => ~(now >= since[n] + SafePeriod)
        /\ \A n \in Nodes : task[n]["open"].st # "saved"
    BY <1>1 DEF Urgent, Before
  <1>4. TypeOK'
    BY <1>1, <1>2 DEF TypeOK
  <1>5. ASSUME NEW n \in Hops PROVE Parts(n)'
    <2>1. /\ Parts(n) /\ Deadline[n] \in Nat /\ since[n] \in Nat
          /\ n < N => n + 1 \in Hops /\ Deadline[n + 1] \in Nat
          /\ task[n]["uncoop"].due \in Nat
      BY Values, Names DEF Before
    <2>2. Timed(n)' /\ Unreached(n)' /\ Learnt(n)'
      BY <1>1, <2>1, Names DEF Parts, Timed, Forever, Unreached, Learnt
    <2>3. Prompt(n)'
      BY <1>1, <1>3, Names DEF Prompt
    <2>4. Live(n)'
      <3>1. n < N /\ now' <= Deadline[n + 1] => now <= Deadline[n + 1]
        BY <1>1, <1>2, <2>1
      <3>2. n < N /\ Opening(n) => Opening(n)'
        BY <1>1, <1>3, <2>1, Names DEF Opening
      <3> QED
        BY <1>1, <2>1, <3>1, <3>2, Names DEF Parts, Live
    <2>5. ASSUME n < N, cond[n + 1] = "paid", cond[n] # "paid"
          PROVE  /\ cond[n] = "open" /\ task[n]["open"].st = "done" /\ task[n]["remove"].st = "none"
                 /\ meta[n].st = "wantclose" /\ meta[n].res /\ now <= Deadline[n] /\ Claim(n)
      BY <1>3, <2>1, <2>5 DEF Parts, Owed
    <2>6. ASSUME Claim(n) PROVE Claim(n)' /\ now' <= Deadline[n]
      <3>1. CASE chan[n] = "closing"
        <4>1. now < since[n] + SafePeriod
          BY <1>2, <1>3, <2>1, <3>1
        <4> QED
          BY <1>1, <1>2, <2>1, <2>6, <3>1, <4>1 DEF Claim
      <3>2. CASE chan[n] # "closing"
        <4>1. /\ chan[n] = "active" /\ task[n]["uncoop"].st = "todo" /\ now <= task[n]["uncoop"].due
              /\ task[n]["uncoop"].due + SafePeriod <= Deadline[n] /\ task[n]["uncoop"].till = Forever
          BY <2>1, <2>6, <3>2 DEF Claim, Parts, Timed
        <4>2. ~(task[n]["uncoop"].due <= now)
          BY <1>1, <1>2, <1>3, <4>1 DEF Ready, Forever
        <4> QED
          BY <1>1, <1>2, <2>1, <4>1, <4>2 DEF Claim
      <3> QED
        BY <3>1, <3>2
    <2>7. Owed(n)'
      BY <1>1, <2>5, <2>6 DEF Owed
    <2> QED
      BY <2>2, <2>3, <2>4, <2>7 DEF Parts
  <1> QED
    BY <1>4, <1>5 DEF IInv

-----------------------------------------------------------------------------
(* The theorems.                                                           *)

\* The invariant holds at the start.
LEMMA InitInv == Init => IInv
  <1> SUFFICES ASSUME Init PROVE IInv
    OBVIOUS
  <1>1. TypeOK
    BY TunnelAssumption DEF Init, TypeOK, NoTask, Kinds
  <1>2. ASSUME NEW n \in Hops PROVE Parts(n)
    <2>1. /\ \A m \in Nodes, k \in Kinds : task[m][k].st = "none"
          /\ cond[n] = "none" /\ (n < N => cond[n + 1] = "none") /\ chan[n] = "active"
          /\ meta[n].st = "none" /\ ~meta[n].res /\ ~news[n]
      BY Names DEF Init, NoTask
    <2>2. Timed(n) /\ Unreached(n) /\ Prompt(n) /\ Learnt(n)
      BY <2>1, Names DEF Timed, Unreached, Prompt, Learnt
    <2>3. Live(n) /\ Owed(n)
      BY <2>1, Names DEF Live, Owed
    <2> QED
      BY <2>2, <2>3 DEF Parts
  <1> QED
    BY <1>1, <1>2 DEF IInv

\* Tasks that end, expire or are tried again without any other effect.
LEMMA TaskEndStep ==
  ASSUME Before,
         \/ \E n \in 0..(N - 1) : OpenSkipped(n) \/ RevertFailed(n)
         \/ \E n \in Hops : CloseSkipped(n) \/ \E k \in Removers : RemoveSkipped(n, k)
         \/ \E n \in Nodes, k \in Kinds : Expire(n, k)
  PROVE  IInv'
  <1>1. ASSUME NEW n \in 0..(N - 1), OpenSkipped(n) PROVE IInv'
    <2>1. /\ n \in Nodes /\ task' = Set(task, n, "open", "done") /\ task[n]["open"].st = "todo"
          /\ half[n + 1] # "add" /\ UNCHANGED <<now, transfer, cond, half, chan, since, news, meta>>
      BY <1>1 DEF OpenSkipped, Ready, Lost, Done, Before
    <2> QED
      BY <2>1, StatusStep, Names
  <1>2. ASSUME NEW n \in 0..(N - 1), RevertFailed(n) PROVE IInv'
    <2>1. /\ n \in Nodes /\ task' = Set(task, n, "open", "todo") /\ task[n]["open"].st = "revert"
          /\ UNCHANGED <<now, transfer, cond, half, chan, since, news, meta>>
      BY <1>2 DEF RevertFailed
    <2> QED
      BY <2>1, StatusStep, Names
  <1>3. ASSUME NEW n \in Hops, CloseSkipped(n) PROVE IInv'
    <2>1. /\ n \in Nodes /\ task' = Set(task, n, "close", "done") /\ task[n]["close"].st = "todo"
          /\ UNCHANGED <<now, transfer, cond, half, chan, since, news, meta>>
      BY <1>3 DEF CloseSkipped, Ready, Done
    <2> QED
      BY <2>1, StatusStep, Names
  <1>4. ASSUME NEW n \in Hops, NEW k \in Removers, RemoveSkipped(n, k) PROVE IInv'
    <2>1. /\ n \in Nodes /\ k \in Kinds /\ k # "open" /\ k # "uncoop"
          /\ task' = Set(task, n, k, "done") /\ task[n][k].st = "todo"
          /\ UNCHANGED <<now, transfer, cond, half, chan, since, news, meta>>
      BY <1>4 DEF RemoveSkipped, Ready, Done, Removers, Kinds
    <2> QED
      BY <2>1, StatusStep
  <1>5. ASSUME NEW n \in Nodes, NEW k \in Kinds, Expire(n, k) PROVE IInv'
    <2>1. /\ task' = Set(task, n, k, "done") /\ task[n][k].st = "todo" /\ now > task[n][k].till
          /\ UNCHANGED <<now, transfer, cond, half, chan, since, news, meta>>
      BY <1>5 DEF Expire, Done
    <2>2. CASE k = "uncoop" /\ n \in Hops
      <3>1. task[n][k].till = Forever /\ now \in Nat /\ now <= MaxTime
        BY <2>1, <2>2, Values DEF Before, Parts, Timed
      <3> QED
        BY <2>1, <3>1 DEF Forever
    <2>3. CASE k = "open" /\ n \in Hops /\ n < N
      <3>1. now > Deadline[n + 1]
        BY <2>1, <2>3, Values DEF Before, Parts, Timed
      <3> QED
        BY <2>1, <2>3, <3>1, StatusStep
    <2>4. CASE ~(k = "uncoop") /\ ~(k = "open" /\ n \in Hops /\ n < N)
      BY <2>1, <2>4, StatusStep
    <2>5. CASE k = "uncoop" /\ n = 0
      BY <2>1, <2>5, StatusStep
    <2> QED
      BY <2>2, <2>3, <2>4, <2>5
  <1> QED
    BY <1>1, <1>2, <1>3, <1>4, <1>5

\* Tasks that are created without any other effect.
LEMMA TaskCreateStep ==
  ASSUME Before,
         \/ CreateSendConditional
         \/ \E n \in Hops : RemoveConditional(n) \/ \E k \in Removers : RemoveFailed(n, k)
  PROVE  IInv'
  <1>1. now \in Nat /\ Forever \in Nat /\ now + 1 \in Nat /\ 0 \in Nodes
    BY DEF Before, IInv, TypeOK, Forever
  <1>2. ASSUME CreateSendConditional PROVE IInv'
    <2>1. /\ task' = Created(task, 0, "open", now, Forever)
          /\ UNCHANGED <<now, transfer, cond, half, chan, since, news, meta>>
      BY <1>2 DEF CreateSendConditional
    <2> QED
      BY <1>1, <2>1, CreateStep, Names
  <1>3. ASSUME NEW n \in Hops, RemoveConditional(n) PROVE IInv'
    <2>1. /\ n \in Nodes /\ n # 0 /\ meta[n].st \in {"active", "pending"} /\ MayRemove(n)
          /\ task' = Created(task, n, "remove", now, Forever)
          /\ UNCHANGED <<now, transfer, cond, half, chan, since, news, meta>>
      BY <1>3 DEF RemoveConditional
    <2>2. /\ Parts(n) /\ cond[n] \in {"none", "open", "paid", "removed"}
          /\ n < N => cond[n + 1] \in {"none", "open", "paid", "removed"} /\ Deadline[n + 1] \in Nat
      BY Values DEF Before
    <2>3. cond[n] # "none"
      BY <2>1, <2>2 DEF Parts, Unreached
    <2>4. n < N => now > Deadline[n + 1]
      BY <1>1, <2>1, <2>2 DEF MayRemove
    <2>5. n < N /\ cond[n + 1] = "paid" => cond[n] = "paid"
      BY <1>1, <2>1, <2>2, <2>4 DEF Parts, Owed
    <2>6. Undoable(n)
      BY <2>2, <2>4, <2>5 DEF Undoable
    <2> QED
      BY <1>1, <2>1, <2>3, <2>6, CreateStep, Names
  <1>4. ASSUME NEW n \in Hops, NEW k \in Removers, RemoveFailed(n, k) PROVE IInv'
    <2>1. /\ n \in Nodes /\ n # 0 /\ Ready(n, k)
          /\ task' = Created(task, n, "uncoop", now + 1, Forever)
          /\ UNCHANGED <<now, transfer, cond, half, chan, since, news, meta>>
      BY <1>4 DEF RemoveFailed
    <2>2. cond[n] # "none" /\ Undoable(n)
      BY <2>1, RemoverReady
    <2> QED
      BY <1>1, <2>1, <2>2, CreateStep, Names
  <1> QED
    BY <1>2, <1>3, <1>4

\* Every step preserves the invariant.
LEMMA NextInv ==
  ASSUME Before, [Next]_vars
  PROVE  IInv'
  <1>1. CASE CreateSendConditional
    BY <1>1, TaskCreateStep
  <1>2. CASE AddConditionalResolve \/ CloseConditional \/ CloseNext
    BY <1>2, ReceiverStep
  <1>3. ASSUME NEW n \in 0..(N - 1), OpenTask(n) PROVE IInv'
    <2>1. CASE OpenSkipped(n) \/ RevertFailed(n)
      BY <2>1, TaskEndStep
    <2>2. CASE OpenImpossible(n) \/ OpenDenied(n)
      BY <2>2, OpenRefusedStep
    <2>3. CASE OpenAgreed(n)
      BY <2>3, OpenAgreedStep
    <2>4. CASE OpenSaved(n)
      BY <2>4, OpenSavedStep
    <2>5. CASE OpenFinished(n)
      BY <2>5, OpenFinishedStep
    <2>6. CASE Reverted(n)
      BY <2>6, RevertedStep
    <2> QED
      BY <1>3, <2>1, <2>2, <2>3, <2>4, <2>5, <2>6 DEF OpenTask
  <1>4. ASSUME NEW n \in Hops, CloseSkipped(n) \/ CloseAgreed(n) \/ CloseSaved(n) PROVE IInv'
    BY <1>4, TaskEndStep, CloseAgreedStep, CloseSavedStep
  <1>5. ASSUME NEW n \in Hops, RemoveConditional(n) \/ UncooperativeClose(n) PROVE IInv'
    BY <1>5, TaskCreateStep, UncooperativeCloseStep
  <1>6. ASSUME NEW n \in Hops, NEW k \in Removers, RemoveTask(n, k) PROVE IInv'
    <2>1. CASE RemoveSkipped(n, k)
      BY <2>1, TaskEndStep
    <2>2. CASE RemoveAgreed(n, k)
      BY <2>2, RemoveAgreedStep
    <2>3. CASE RemoveFinished(n, k)
      BY <2>3, RemoveFinishedStep
    <2>4. CASE RemoveFailed(n, k)
      BY <2>4, TaskCreateStep
    <2> QED
      BY <1>6, <2>1, <2>2, <2>3, <2>4 DEF RemoveTask
  <1>7. ASSUME NEW n \in Hops, ClosedByOthers(n) \/ Settle(n) \/ ScanSettled(n) \/ Finalize(n) PROVE IInv'
    BY <1>7, ClosedByOthersStep, SettleStep, ScanSettledStep, FinalizeStep
  <1>8. ASSUME NEW n \in Nodes, NEW k \in Kinds, Expire(n, k) PROVE IInv'
    BY <1>8, TaskEndStep
  <1>9. CASE Tick
    BY <1>9, TickStep
  <1>10. CASE UNCHANGED vars
    <2>1. /\ now' = now /\ transfer' = transfer /\ cond' = cond /\ half' = half /\ chan' = chan
          /\ since' = since /\ news' = news /\ meta' = meta /\ task' = task
      BY <1>10 DEF vars
    <2>2. ASSUME NEW m \in Hops PROVE Parts(m)'
      <3>1. Prompt(m)'
        BY <2>1 DEF Before, IInv, Parts, Prompt
      <3> QED
        BY <2>1, <3>1, Frame DEF Before, IInv
    <2> QED
      BY <2>1, <2>2 DEF Before, IInv, TypeOK
  <1> QED
    BY <1>1, <1>2, <1>3, <1>4, <1>5, <1>6, <1>7, <1>8, <1>9, <1>10 DEF Next

\* For a tunnel of any length: the types, and Live and Owed at every node in the middle.  A
\* lost answer is made good before time moves on, and only the channel of the last hop is
\* closed for reasons of its own.
THEOREM Inductive ==
  ASSUME Reliable, Closing \subseteq {N}
  PROVE  Spec => []IInv
  <1>1. IInv /\ [Next]_vars => IInv'
    BY NextInv DEF Before
  <1> QED
    BY InitInv, <1>1, PTL DEF Spec

\* A node in the middle that has paid can claim what it is owed: it has the resolve and a
\* close that begins in time, or the news of the settlement (closeConditional,
\* scanSettledConditionals).
THEOREM CanClaimHolds ==
  ASSUME Reliable, Closing \subseteq {N}
  PROVE  Spec => []CanClaim
  <1>1. IInv => CanClaim
    <2> SUFFICES ASSUME IInv, NEW h \in Hops, h < N, cond[h + 1] = "paid", cond[h] = "open"
                 PROVE  \/ news[h + 1]
                        \/ /\ meta[h].res
                           /\ \/ chan[h] = "closing"
                              \/ /\ task[h]["uncoop"].st = "todo"
                                 /\ task[h]["uncoop"].due + SafePeriod <= Deadline[h]
      BY DEF CanClaim
    <2> QED
      BY DEF IInv, Parts, Owed, Claim
  <1> QED
    BY Inductive, <1>1, PTL

-----------------------------------------------------------------------------
(* The tunnel implements Payment.                                          *)

\* The hops as Payment sees them.
MappedHops == [h \in Hops |-> Hop(h)]

\* What a hop is to Payment.
LEMMA HopIs ==
  ASSUME IInv, NEW h \in Hops
  PROVE  /\ cond[h] = "none" => Hop(h) = "none"
         /\ cond[h] = "open" /\ now <= Deadline[h] => Hop(h) = "open"
         /\ cond[h] = "open" /\ now > Deadline[h] => Hop(h) = "void"
         /\ cond[h] = "paid" => Hop(h) = "paid"
         /\ cond[h] = "removed" => Hop(h) = "void"
  <1>1. now \in Nat /\ Deadline[h] \in Nat
    BY Values
  <1> QED
    BY <1>1 DEF Hop

\* A hop that may be undone is followed by none that is locked or paid.
LEMMA UndoableHop ==
  ASSUME IInv, NEW h \in Hops, h < N, Undoable(h), cond[h] = "open"
  PROVE  Hop(h + 1) \in {"none", "void"}
  <1>1. h + 1 \in Hops
    OBVIOUS
  <1> QED
    BY <1>1, HopIs DEF Undoable

\* A step that changes the conditional of one hop.
LEMMA OneHop ==
  ASSUME IInv, IInv', NEW g \in Hops, NEW c, cond' = [cond EXCEPT ![g] = c], now' = now
  PROVE  /\ MappedHops' = [MappedHops EXCEPT ![g] = Hop(g)'] /\ cond'[g] = c
         /\ \A h \in Hops : MappedHops[h] = Hop(h)
  <1>1. cond \in [Hops -> {"none", "open", "paid", "removed"}]
    BY DEF IInv, TypeOK
  <1>2. cond'[g] = c /\ \A h \in Hops : h # g => cond'[h] = cond[h]
    BY <1>1
  <1>3. \A h \in Hops : h # g => Hop(h)' = Hop(h)
    BY <1>2 DEF Hop
  <1> QED
    BY <1>2, <1>3 DEF MappedHops

\* The steps of Payment.
LEMMA OpenHop ==
  ASSUME IInv, IInv', NEW g \in Hops, cond' = [cond EXCEPT ![g] = "open"], now' = now,
         now <= Deadline[g], cond[g] = "none", g > 1 => cond[g - 1] = "open" /\ now <= Deadline[g - 1]
  PROVE  P!Next
  <1>1. /\ MappedHops' = [MappedHops EXCEPT ![g] = Hop(g)'] /\ cond'[g] = "open"
        /\ \A h \in Hops : MappedHops[h] = Hop(h)
    BY OneHop
  <1>2. Hop(g)' = "open"
    BY <1>1 DEF Hop, IInv, TypeOK
  <1>3. Hop(g) = "none" /\ (g > 1 => Hop(g - 1) = "open")
    <2>1. g > 1 => g - 1 \in Hops
      OBVIOUS
    <2> QED
      BY <2>1, HopIs
  <1>4. MappedHops[g] = "none" /\ (g > 1 => MappedHops[g - 1] = "open")
    BY <1>1, <1>3
  <1>5. P!Open(g)
    BY <1>1, <1>2, <1>4 DEF P!Open, MappedHops
  <1> QED
    BY <1>5 DEF P!Next, P!Hops

\* A step that pays a hop pays it in Payment.
LEMMA PayHop ==
  ASSUME IInv, IInv', NEW g \in Hops, cond' = [cond EXCEPT ![g] = "paid"], now' = now,
         now <= Deadline[g], cond[g] = "open", g < N => cond[g + 1] = "paid"
  PROVE  P!Next
  <1>1. /\ MappedHops' = [MappedHops EXCEPT ![g] = Hop(g)'] /\ cond'[g] = "paid"
        /\ \A h \in Hops : MappedHops[h] = Hop(h)
    BY OneHop
  <1>2. Hop(g)' = "paid"
    BY <1>1 DEF Hop
  <1>3. Hop(g) = "open" /\ (g < N => Hop(g + 1) = "paid")
    <2>1. g < N => g + 1 \in Hops
      OBVIOUS
    <2> QED
      BY <2>1, HopIs
  <1>4. MappedHops[g] = "open" /\ (g < N => MappedHops[g + 1] = "paid")
    BY <1>1, <1>3
  <1>5. P!Pay(g)
    BY <1>1, <1>2, <1>4 DEF P!Pay, MappedHops
  <1> QED
    BY <1>5 DEF P!Next, P!Hops

\* A step that removes an unpaid hop gives it up in Payment.
LEMMA VoidHop ==
  ASSUME IInv, IInv', NEW g \in Hops, cond' = [cond EXCEPT ![g] = "removed"], now' = now,
         cond[g] = "open", g < N => Hop(g + 1) \in {"none", "void"}
  PROVE  [P!Next]_MappedHops
  <1>1. /\ MappedHops' = [MappedHops EXCEPT ![g] = Hop(g)'] /\ cond'[g] = "removed"
        /\ \A h \in Hops : MappedHops[h] = Hop(h)
    BY OneHop
  <1>2. Hop(g)' = "void"
    BY <1>1 DEF Hop
  <1>3. now \in Nat /\ Deadline[g] \in Nat
    BY Values
  <1>4. CASE now > Deadline[g]
    <2>1. MappedHops[g] = "void"
      BY <1>1, <1>4, HopIs
    <2> QED
      BY <1>1, <1>2, <2>1 DEF MappedHops
  <1>5. CASE now <= Deadline[g]
    <2>1. MappedHops[g] = "open" /\ (g < N => MappedHops[g + 1] \in {"none", "void"})
      BY <1>1, <1>5, HopIs
    <2>2. P!Void(g)
      BY <1>1, <1>2, <2>1 DEF P!Void, MappedHops
    <2> QED
      BY <2>2 DEF P!Next, P!Hops
  <1> QED
    BY <1>3, <1>4, <1>5

\* The end of a channel gives back only what may be undone.
LEMMA FinalizeHop ==
  ASSUME Before, IInv', NEW h \in Hops, Finalize(h)
  PROVE  [P!Next]_MappedHops
  <1>1. /\ chan[h] = "closing" /\ ~(meta[h].res /\ cond[h] = "open" /\ now <= Deadline[h])
        /\ cond' = [cond EXCEPT ![h] = IF cond[h] = "open" THEN "removed" ELSE cond[h]] /\ now' = now
    BY DEF Finalize
  <1>2. /\ IInv /\ Parts(h) /\ now \in Nat
        /\ h < N => cond[h + 1] \in {"none", "open", "paid", "removed"} /\ Deadline[h + 1] \in Nat
    BY Values DEF Before
  <1>3. CASE cond[h] = "open"
    <2>1. h < N => cond[h + 1] # "paid"
      BY <1>1, <1>2, <1>3 DEF Parts, Owed
    <2>2. h < N /\ now <= Deadline[h + 1] =>
            cond[h + 1] # "open" /\ (cond[h + 1] = "none" => task[h]["open"].st \notin {"todo", "revert"})
      BY <1>1, <1>2 DEF Parts, Live
    <2>3. Undoable(h)
      BY <1>2, <2>1, <2>2 DEF Undoable
    <2>4. h < N => Hop(h + 1) \in {"none", "void"}
      BY <1>2, <1>3, <2>3, UndoableHop
    <2> QED
      BY <1>1, <1>2, <1>3, <2>4, VoidHop
  <1>4. CASE cond[h] # "open"
    <2>1. cond' = cond
      BY <1>1, <1>2, <1>4 DEF IInv, TypeOK
    <2> QED
      BY <1>1, <2>1 DEF MappedHops, Hop
  <1> QED
    BY <1>3, <1>4

\* Time voids at most one hop, the one whose deadline passes, and none that is owed.
LEMMA TickHop ==
  ASSUME Before, IInv', Tick
  PROVE  [P!Next]_MappedHops
  <1>1. now' = now + 1 /\ cond' = cond /\ IInv /\ now \in Nat
    BY DEF Tick, Before, IInv, TypeOK
  <1>2. \A h \in Hops : Deadline[h] \in Nat /\ MappedHops[h] = Hop(h) /\ MappedHops'[h] = Hop(h)'
    BY DEF MappedHops
  <1>3. ASSUME NEW h \in Hops, ~(cond[h] = "open" /\ now = Deadline[h]) PROVE Hop(h)' = Hop(h)
    BY <1>1, <1>2, <1>3 DEF Hop
  <1>4. CASE \E g \in Hops : cond[g] = "open" /\ now = Deadline[g]
    <2>1. PICK g \in Hops : cond[g] = "open" /\ now = Deadline[g]
      BY <1>4
    <2>2. MappedHops[g] = "open" /\ Hop(g)' = "void"
      BY <1>1, <1>2, <2>1 DEF Hop
    <2>3. g < N => MappedHops[g + 1] \in {"none", "void"}
      <3>1. SUFFICES ASSUME g < N PROVE Hop(g + 1) \in {"none", "void"}
        BY <1>2
      <3>2. /\ g + 1 \in Hops /\ Deadline[g + 1] \in Nat /\ Deadline[g + 1] < Deadline[g]
            /\ cond[g + 1] \in {"none", "open", "paid", "removed"}
        BY <1>1, <1>2, <3>1, Names, Values
      <3>3. cond[g + 1] # "paid"
        <4>1. SUFFICES ASSUME cond[g + 1] = "paid" PROVE FALSE
          OBVIOUS
        <4>2. Parts(g)' /\ cond'[g + 1] = "paid" /\ cond'[g] = "open"
          BY <1>1, <2>1, <4>1 DEF IInv
        <4>3. now' <= Deadline[g] \/ now' <= Deadline[g + 1]
          BY <3>1, <4>2 DEF Parts, Owed
        <4> QED
          BY <1>1, <1>2, <2>1, <3>2, <4>3
      <3> QED
        BY <1>1, <2>1, <3>2, <3>3, HopIs
    <2>4. ASSUME NEW h \in Hops, h # g PROVE Hop(h)' = Hop(h)
      <3>1. Deadline[h] # Deadline[g]
        BY <1>2, <2>1, <2>4, Falling
      <3> QED
        BY <1>3, <2>1, <3>1
    <2>5. MappedHops' = [MappedHops EXCEPT ![g] = "void"]
      BY <2>2, <2>4 DEF MappedHops
    <2>6. P!Void(g)
      BY <2>2, <2>3, <2>5 DEF P!Void, MappedHops
    <2> QED
      BY <2>6 DEF P!Next, P!Hops
  <1>5. CASE ~ \E g \in Hops : cond[g] = "open" /\ now = Deadline[g]
    BY <1>3, <1>5 DEF MappedHops
  <1> QED
    BY <1>4, <1>5

\* Every step of the tunnel is a step of Payment, or changes no hop.
LEMMA HopStep ==
  ASSUME Before, IInv', [Next]_vars
  PROVE  [P!Next]_MappedHops
  <1>1. IInv /\ now \in Nat
    BY DEF Before, IInv, TypeOK
  <1>2. CASE cond' = cond /\ now' = now
    BY <1>2 DEF MappedHops, Hop
  <1>3. ASSUME NEW n \in 0..(N - 1), OpenAgreed(n) PROVE [P!Next]_MappedHops
    <2>1. /\ n + 1 \in Hops /\ cond' = [cond EXCEPT ![n + 1] = "open"] /\ now' = now
          /\ cond[n + 1] = "none" /\ Safe(n + 1) /\ PrevFound(n)
      BY <1>3 DEF OpenAgreed
    <2>2. now <= Deadline[n + 1]
      BY <1>1, <2>1, Names DEF Safe
    <2>3. n + 1 > 1 => cond[(n + 1) - 1] = "open" /\ now <= Deadline[(n + 1) - 1]
      <3>1. SUFFICES ASSUME n > 0 PROVE cond[n] = "open" /\ now <= Deadline[n]
        OBVIOUS
      <3>2. n \in Hops /\ n < N
        BY <3>1
      <3> QED
        BY <1>1, <2>1, <2>2, <3>1, <3>2, Names DEF PrevFound
    <2> QED
      BY <1>1, <2>1, <2>2, <2>3, OpenHop
  <1>4. ASSUME NEW n \in Hops, CloseAgreed(n) \/ Settle(n) PROVE [P!Next]_MappedHops
    <2>1. /\ cond' = [cond EXCEPT ![n] = "paid"] /\ now' = now
          /\ cond[n] = "open" /\ meta[n].res /\ now <= Deadline[n]
      BY <1>4 DEF CloseAgreed, Settle
    <2>2. n < N => cond[n + 1] = "paid"
      BY <1>1, <2>1 DEF IInv, Parts, Learnt
    <2> QED
      BY <1>1, <2>1, <2>2, PayHop
  <1>5. ASSUME NEW n \in Hops, NEW k \in Removers, RemoveAgreed(n, k) PROVE [P!Next]_MappedHops
    <2>1. /\ cond' = [cond EXCEPT ![n] = "removed"] /\ now' = now /\ cond[n] = "open" /\ Ready(n, k)
      BY <1>5 DEF RemoveAgreed
    <2>2. Undoable(n)
      BY <2>1, RemoverReady
    <2>3. n < N => Hop(n + 1) \in {"none", "void"}
      BY <1>1, <2>1, <2>2, UndoableHop
    <2> QED
      BY <1>1, <2>1, <2>3, VoidHop
  <1>6. ASSUME NEW n \in Hops, Finalize(n) PROVE [P!Next]_MappedHops
    BY <1>6, FinalizeHop
  <1>7. CASE Tick
    BY <1>7, TickHop
  <1>8. CASE CreateSendConditional \/ AddConditionalResolve \/ CloseConditional \/ CloseNext
    BY <1>2, <1>8 DEF CreateSendConditional, AddConditionalResolve, CloseConditional, CloseNext
  <1>9. ASSUME NEW n \in 0..(N - 1), OpenTask(n) PROVE [P!Next]_MappedHops
    <2>1. CASE ~OpenAgreed(n)
      BY <1>2, <1>9, <2>1 DEF OpenTask, OpenSkipped, OpenImpossible, OpenDenied, OpenSaved,
                              OpenFinished, Reverted, RevertFailed
    <2> QED
      BY <1>3, <2>1
  <1>10. ASSUME NEW n \in Hops, CloseSkipped(n) \/ CloseSaved(n) \/ RemoveConditional(n)
                                \/ UncooperativeClose(n) \/ ClosedByOthers(n) \/ ScanSettled(n)
         PROVE  [P!Next]_MappedHops
    BY <1>2, <1>10 DEF CloseSkipped, CloseSaved, RemoveConditional, UncooperativeClose,
                       ClosedByOthers, ScanSettled
  <1>11. ASSUME NEW n \in Hops, NEW k \in Removers, RemoveTask(n, k) PROVE [P!Next]_MappedHops
    <2>1. CASE ~RemoveAgreed(n, k)
      BY <1>2, <1>11, <2>1 DEF RemoveTask, RemoveSkipped, RemoveFinished, RemoveFailed
    <2> QED
      BY <1>5, <2>1
  <1>12. ASSUME NEW n \in Nodes, NEW k \in Kinds, Expire(n, k) PROVE [P!Next]_MappedHops
    BY <1>2, <1>12 DEF Expire
  <1>13. CASE UNCHANGED vars
    BY <1>2, <1>13 DEF vars
  <1> QED
    BY <1>4, <1>6, <1>7, <1>8, <1>9, <1>10, <1>11, <1>12, <1>13 DEF Next

\* A tunnel of any length is a payment that is locked forward and paid or voided backward,
\* so no node in the middle pays its outgoing half and loses the incoming one: by removal,
\* by the end of a channel, or because the deadline passes.
THEOREM LockedForwardPaidBackwardHolds ==
  ASSUME Reliable, Closing \subseteq {N}
  PROVE  Spec => LockedForwardPaidBackward
  <1>1. Init => P!Init
    BY DEF Init, P!Init, P!Hops, Hop
  <1>2. IInv /\ IInv' /\ [Next]_vars => [P!Next]_MappedHops
    BY HopStep DEF Before
  <1> QED
    BY Inductive, <1>1, <1>2, PTL DEF Spec, LockedForwardPaidBackward, P!Spec, MappedHops
=============================================================================
