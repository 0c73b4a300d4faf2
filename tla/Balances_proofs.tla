--------------------------- MODULE Balances_proofs ---------------------------
(***************************************************************************)
(* Proofs about Balances, for any balances, debts, amounts and bounds: a   *)
(* node's picture of a contract is true once its events and jobs are       *)
(* through, and a channel is closed cooperatively only when nothing is     *)
(* owed, locked or signed.                                                 *)
(***************************************************************************)
EXTENDS Balances, SequenceTheorems, TLAPS

USE BalancesAssumption

Event == [cseq : Nat, wseq : Nat, open : BOOLEAN]
Message == [to : Sides, seq : Nat, amt : Int, back : Int, close : BOOLEAN]
Hold == [kind : {"commit", "wallet"}, id : Nat, amt : Int]
Job == [kind : {"commit", "wallet", "refresh"}, id : Nat]
Debt == [amt : Int, com : Int, cs : Nat]
Contract == [bal : Int, cseq : Nat, wseq : Nat, open : BOOLEAN]
Record ==
    [seq : 1..MaxSeq, owe : [Sides -> Debt], lock : [Sides -> Nat], hold : [Sides -> SUBSET Hold],
     pc : Nat, bal : [Sides -> Int], lc : [Sides -> Nat], lw : [Sides -> Nat],
     acc : BOOLEAN, status : {"active", "inactive"}]
Withdraw == [st : {"none", "todo", "asked", "done"}, amt : Nat, wseq : Nat]
Commit == [st : {"none", "todo", "done"}, fee : BOOLEAN, seq : Nat]
Execute == [st : {"none", "todo", "done"}, seq : Nat, at : Sides, pay : [Sides -> Int]]
External == [st : {"none", "todo", "done"}, amt : Nat, wseq : Nat]
Close == [st : {"none", "todo", "signed", "done"}, seq : Nat]
Deposit == [st : {"none", "todo", "sent", "fetched"}, val : Int, count : Nat]
Tasks == [withdraw : Withdraw, commit : Commit, execute : Execute, external : External, close : Close,
          deposit : Deposit]

\* The types of all variables.
Typed ==
    /\ chain \in [Sides -> Contract]
    /\ transit \subseteq Message
    /\ ev \in [Sides -> [Sides -> Seq(Event)]]
    /\ db \in [Sides -> Record]
    /\ half \in [by : 0..2, fee : BOOLEAN] /\ (half.by = 0 => half = NoHalf)
    /\ jobs \in [Sides -> [Sides -> Seq(Job)]]
    /\ task \in [Sides -> Tasks]

\* Both nodes have the same state, or the party is one commit ahead.
Sync ==
    /\ half = NoHalf =>
          db[1].seq = db[2].seq /\ db[1].owe = db[2].owe /\ db[1].lock = db[2].lock
    /\ \A n \in Sides : half.by = n =>
          /\ db[Other(n)].seq = db[n].seq + 1 /\ db[Other(n)].lock = db[n].lock
          /\ \A s \in Sides :
                db[Other(n)].owe[s] = Committed(db[n].owe[s], db[n].seq + 1, FeeOf(n, half.fee, s))

\* A debt is never less than the part of it that is committed.
Owes == \A n, s \in Sides : 0 <= db[n].owe[s].com /\ db[n].owe[s].com <= db[n].owe[s].amt

\* Events q of a contract c are in order, none is older than the seqnos the node
\* has recorded or newer than the contract, and the closing one is not undone.
InOrder(q, lc, lw, c) ==
    /\ lc <= c.cseq /\ lw <= c.wseq
    /\ \A i \in 1..Len(q) :
          /\ lc <= q[i].cseq /\ q[i].cseq <= c.cseq
          /\ lw <= q[i].wseq /\ q[i].wseq <= c.wseq
          /\ ~q[i].open => ~c.open
    /\ \A i, j \in 1..Len(q) : i <= j => q[i].cseq <= q[j].cseq /\ q[i].wseq <= q[j].wseq

Ordered == \A n, s \in Sides : InOrder(ev[n][s], db[n].lc[s], db[n].lw[s], chain[s])

\* Jobs are about transactions the node has seen, each about another one.
Behind(q, lc, lw) ==
    /\ \A i \in 1..Len(q) :
          /\ q[i].kind = "commit" => q[i].id <= lc
          /\ q[i].kind = "wallet" => q[i].id < lw
    /\ \A i, j \in 1..Len(q) : i # j /\ q[i].kind # "refresh" => q[i] # q[j]

Queued == \A n, s \in Sides : Behind(jobs[n][s], db[n].lc[s], db[n].lw[s])

\* A job finds the transfer it waits for still pending.
Waits(q, H) ==
    \A i \in 1..Len(q) : q[i].kind # "refresh" => \E h \in H : h.kind = q[i].kind /\ h.id = q[i].id

Awaited == \A n, s \in Sides : Waits(jobs[n][s], db[n].hold[s])

\* A deposit that was begun is counted.
Counted == \A n \in Sides : task[n].deposit.st # "none" => task[n].deposit.count > 0

\* A signed withdrawal that the contract of s would still accept.
Live(s) == task[Other(s)].external.st = "todo" /\ task[Other(s)].external.wseq = chain[s].wseq

\* A signed withdrawal is not ahead of the contract, and while it can be executed
\* the one that executes it holds its amount back.
Held ==
    \A s \in Sides :
        /\ task[Other(s)].external.st = "todo" => task[Other(s)].external.wseq <= chain[s].wseq
        /\ Live(s) => Pending(db[Other(s)], s, "wallet", chain[s].wseq)

\* The close is signed, on its way or executed.
Closing ==
    \/ \E n \in Sides : task[n].close.st = "signed"
    \/ \E m \in transit : m.close
    \/ \E s \in Sides : ~chain[s].open

PaidUp(s) ==
    LET o == db[1].owe[s] IN
    o.amt <= 0 \/ (o.amt <= o.com /\ \E k \in Sides : chain[k].cseq >= o.cs)

\* From then on nothing is proposed or signed any more, and nothing is open.
Quiet ==
    Closing =>
        /\ half = NoHalf
        /\ \A n \in Sides : ~db[n].acc
        /\ \A s \in Sides : PaidUp(s) /\ db[1].lock[s] = 0 /\ ~Live(s)

IInv == Typed /\ Sync /\ Owes /\ Ordered /\ Queued /\ Awaited /\ Counted /\ Held /\ Quiet /\ Known

-----------------------------------------------------------------------------
\* The other of two sides.
LEMMA OtherSide ==
  /\ Other(1) = 2 /\ Other(2) = 1
  /\ \A s \in Sides : Other(s) \in Sides /\ Other(s) # s /\ Other(Other(s)) = s
  /\ \A s, k \in Sides : k = s \/ k = Other(s)
  BY DEF Other, Sides

\* What the proofs use of the types, in one place.
LEMMA Parts ==
  ASSUME Typed
  PROVE  /\ \A s \in Sides : /\ chain[s] \in Contract /\ chain[s].bal \in Int /\ chain[s].cseq \in Nat
                             /\ chain[s].wseq \in Nat /\ chain[s].open \in BOOLEAN
         /\ \A n \in Sides : db[n] \in Record /\ task[n] \in Tasks
         /\ \A n \in Sides : /\ db[n].seq \in 1..MaxSeq /\ db[n].pc \in Nat /\ db[n].acc \in BOOLEAN
                             /\ db[n].status \in {"active", "inactive"}
         /\ \A n, s \in Sides : /\ db[n].owe[s] \in Debt /\ db[n].lock[s] \in Nat /\ db[n].hold[s] \subseteq Hold
                                /\ db[n].bal[s] \in Int /\ db[n].lc[s] \in Nat /\ db[n].lw[s] \in Nat
                                /\ ev[n][s] \in Seq(Event) /\ jobs[n][s] \in Seq(Job)
  <1>1. \A s \in Sides : /\ chain[s] \in Contract /\ chain[s].bal \in Int /\ chain[s].cseq \in Nat
                         /\ chain[s].wseq \in Nat /\ chain[s].open \in BOOLEAN
    BY DEF Typed, Contract
  <1>2. \A n \in Sides : db[n] \in Record /\ task[n] \in Tasks
    BY DEF Typed
  <1>3. \A n \in Sides : /\ db[n].seq \in 1..MaxSeq /\ db[n].pc \in Nat /\ db[n].acc \in BOOLEAN
                         /\ db[n].status \in {"active", "inactive"}
    BY <1>2 DEF Record
  <1>4. \A n \in Sides : /\ db[n].owe \in [Sides -> Debt] /\ db[n].lock \in [Sides -> Nat]
                         /\ db[n].hold \in [Sides -> SUBSET Hold] /\ db[n].bal \in [Sides -> Int]
                         /\ db[n].lc \in [Sides -> Nat] /\ db[n].lw \in [Sides -> Nat]
    BY <1>2 DEF Record
  <1>5. \A n, s \in Sides : ev[n][s] \in Seq(Event) /\ jobs[n][s] \in Seq(Job)
    BY DEF Typed
  <1>6. \A n, s \in Sides : /\ db[n].owe[s] \in Debt /\ db[n].lock[s] \in Nat /\ db[n].hold[s] \subseteq Hold
                            /\ db[n].bal[s] \in Int /\ db[n].lc[s] \in Nat /\ db[n].lw[s] \in Nat
    BY <1>4
  <1> QED
    BY <1>1, <1>2, <1>3, <1>5, <1>6

\* Two records are the same when their parts are.
LEMMA RecordParts ==
  \A d \in Record :
     d = [seq |-> d.seq, owe |-> d.owe, lock |-> d.lock, hold |-> d.hold, pc |-> d.pc, bal |-> d.bal,
          lc |-> d.lc, lw |-> d.lw, acc |-> d.acc, status |-> d.status]
  BY DEF Record

\* What a commit leaves of a debt.
LEMMA CommittedDebt ==
  ASSUME NEW o \in Debt, NEW q \in Nat, NEW f \in Int
  PROVE  /\ Committed(o, q, f) \in Debt
         /\ Committed(o, q, f).amt = o.amt + f - o.com /\ Committed(o, q, f).com = o.amt + f - o.com
         /\ Committed(o, q, f).cs = q
  BY DEF Committed, Debt

\* The fee is an amount.
LEMMA FeeNat ==
  ASSUME NEW n, NEW f, NEW s PROVE FeeOf(n, f, s) \in Nat
  BY DEF FeeOf

\* The record after a commit, part by part.
LEMMA AfterCommitParts ==
  ASSUME NEW d \in Record, NEW n \in Sides, NEW fee, d.seq < MaxSeq,
         NEW e, e = AfterCommit(d, n, fee)
  PROVE  /\ e \in Record
         /\ e.seq = d.seq + 1 /\ e.lock = d.lock /\ e.bal = d.bal /\ e.lc = d.lc /\ e.lw = d.lw
         /\ e.acc = d.acc /\ e.status = d.status
         /\ \A s \in Sides : e.owe[s] = Committed(d.owe[s], d.seq + 1, FeeOf(n, fee, s))
  <1> DEFINE o == [s \in Sides |-> Committed(d.owe[s], d.seq + 1, FeeOf(n, fee, s))]
             h == [s \in Sides |-> {[kind |-> "commit", id |-> d.seq + 1, amt |-> o[s].com]}]
  <1>1. d.seq \in 1..MaxSeq /\ d.seq + 1 \in 1..MaxSeq /\ d.seq + 1 \in Nat
    BY DEF Record
  <1>2. \A s \in Sides : Committed(d.owe[s], d.seq + 1, FeeOf(n, fee, s)) \in Debt
    BY <1>1, CommittedDebt, FeeNat DEF Record
  <1>3. o \in [Sides -> Debt]
    BY <1>2
  <1>4. h \in [Sides -> SUBSET Hold]
    BY <1>1, <1>3 DEF Hold, Debt
  <1>5. e = [d EXCEPT !.owe = o, !.pc = d.seq + 1, !.seq = d.seq + 1, !.hold = h]
    BY DEF AfterCommit
  <1> HIDE DEF o, h
  <1>6. /\ e \in Record
         /\ e.seq = d.seq + 1 /\ e.lock = d.lock /\ e.bal = d.bal /\ e.lc = d.lc /\ e.lw = d.lw
         /\ e.acc = d.acc /\ e.status = d.status /\ e.owe = o
    BY <1>1, <1>3, <1>4, <1>5 DEF Record
  <1> QED
    BY <1>6 DEF o

-----------------------------------------------------------------------------
(* What each step does to the records, part by part.                       *)

StateKept == \A k \in Sides : db'[k].seq = db[k].seq /\ db'[k].owe = db[k].owe /\ db'[k].lock = db[k].lock
HoldKept == \A k \in Sides : db'[k].hold = db[k].hold
SeenKept == \A k \in Sides : db'[k].lc = db[k].lc /\ db'[k].lw = db[k].lw
BalKept == \A k \in Sides : db'[k].bal = db[k].bal
AccKept == \A k \in Sides : db'[k].acc = db[k].acc /\ db'[k].status = db[k].status

\* A step that leaves the records alone.
LEMMA DbKept ==
  ASSUME UNCHANGED db
  PROVE  StateKept /\ HoldKept /\ SeenKept /\ BalKept /\ AccKept
  BY DEF StateKept, HoldKept, SeenKept, BalKept, AccKept

\* CreateSendConditional on both sides: one state on, the amount locked.
LEMMA OpenDb ==
  ASSUME Typed, Sync, NEW n \in Sides, NEW amt \in Payments, OpenConditional(n, amt)
  PROVE  /\ db' \in [Sides -> Record]
         /\ \A k \in Sides : /\ db'[k].seq = db[k].seq + 1 /\ db'[k].owe = db[k].owe
                             /\ db'[k].lock = [db[k].lock EXCEPT ![n] = @ + amt]
         /\ HoldKept /\ SeenKept /\ BalKept /\ AccKept
  <1> DEFINE g(d) == [[d EXCEPT !.lock = [d.lock EXCEPT ![n] = d.lock[n] + amt]] EXCEPT !.seq = d.seq + 1]
  <1>1. \A k \in Sides : db[k] \in Record /\ db[k].seq \in 1..MaxSeq /\ db[k].seq < MaxSeq
    <2>1. db[1].seq = db[2].seq /\ db[n].seq < MaxSeq
      BY DEF OpenConditional, MayPropose, Sync
    <2> QED
      BY <2>1, Parts DEF Sides
  <1>2. db' = [k \in Sides |-> g(db[k])]
    <2>1. db' = [k \in Sides |-> [[db[k] EXCEPT !.lock[n] = @ + amt] EXCEPT !.seq = @ + 1]]
      BY DEF OpenConditional, Agree
    <2>2. \A d \in Record : [[d EXCEPT !.lock[n] = @ + amt] EXCEPT !.seq = @ + 1] = g(d)
      BY DEF Record
    <2> HIDE DEF g
    <2> QED
      BY <2>1, <2>2, <1>1
  <1>3. ASSUME NEW d \in Record, d.seq < MaxSeq
        PROVE  /\ g(d) \in Record
               /\ g(d).seq = d.seq + 1 /\ g(d).owe = d.owe /\ g(d).lock = [d.lock EXCEPT ![n] = @ + amt]
               /\ g(d).hold = d.hold /\ g(d).lc = d.lc /\ g(d).lw = d.lw /\ g(d).bal = d.bal
               /\ g(d).acc = d.acc /\ g(d).status = d.status
    <2>1. [d.lock EXCEPT ![n] = d.lock[n] + amt] \in [Sides -> Nat]
      BY DEF Record
    <2>2. d.seq + 1 \in 1..MaxSeq
      BY <1>3 DEF Record
    <2> QED
      BY <2>1, <2>2 DEF Record
  <1> HIDE DEF g
  <1>4. \A k \in Sides : db'[k] = g(db[k])
    BY <1>2
  <1>5. \A k \in Sides : g(db[k]) \in Record
    BY <1>1, <1>3
  <1>6. db' \in [Sides -> Record]
    BY <1>2, <1>5
  <1>7. \A k \in Sides : /\ db'[k].seq = db[k].seq + 1 /\ db'[k].owe = db[k].owe
                         /\ db'[k].lock = [db[k].lock EXCEPT ![n] = @ + amt]
    BY <1>1, <1>3, <1>4
  <1>8. HoldKept /\ SeenKept /\ BalKept /\ AccKept
    BY <1>1, <1>3, <1>4 DEF HoldKept, SeenKept, BalKept, AccKept
  <1> QED
    BY <1>6, <1>7, <1>8

\* A conditional is closed on both sides: one state on, the lock gone, the debt
\* grown if it was paid.
LEMMA CloseDb ==
  ASSUME Typed, Sync, NEW n \in Sides, NEW paid \in BOOLEAN, CloseConditional(n, paid)
  PROVE  /\ db' \in [Sides -> Record]
         /\ \A k \in Sides :
               /\ db'[k].seq = db[k].seq + 1
               /\ db'[k].lock = [db[k].lock EXCEPT ![Other(n)] = 0]
               /\ \A s \in Sides : /\ db'[k].owe[s].com = db[k].owe[s].com /\ db'[k].owe[s].cs = db[k].owe[s].cs
                                   /\ db'[k].owe[s].amt >= db[k].owe[s].amt
         /\ db'[1].owe = db'[2].owe
         /\ HoldKept /\ SeenKept /\ BalKept /\ AccKept
  <1> DEFINE p == Other(n)
             a(d) == [d.owe[p] EXCEPT !.amt = d.owe[p].amt + (IF paid THEN d.lock[p] ELSE 0)]
             g(d) == [[d EXCEPT !.owe = [d.owe EXCEPT ![p] = a(d)], !.lock = [d.lock EXCEPT ![p] = 0]]
                         EXCEPT !.seq = d.seq + 1]
  <1>0. p \in Sides
    BY OtherSide
  <1>1. \A k \in Sides : db[k] \in Record /\ db[k].seq \in 1..MaxSeq /\ db[k].seq < MaxSeq
    <2>1. db[1].seq = db[2].seq /\ db[n].seq < MaxSeq
      BY DEF CloseConditional, MayPropose, Sync
    <2> QED
      BY <2>1, Parts DEF Sides
  <1>2. db' = [k \in Sides |-> g(db[k])]
    <2>1. db' = [k \in Sides |->
                   [[db[k] EXCEPT !.owe[p].amt = @ + (IF paid THEN db[k].lock[p] ELSE 0), !.lock[p] = 0]
                      EXCEPT !.seq = @ + 1]]
      BY DEF CloseConditional, Agree
    <2>2. \A d \in Record :
             [[d EXCEPT !.owe[p].amt = @ + (IF paid THEN d.lock[p] ELSE 0), !.lock[p] = 0] EXCEPT !.seq = @ + 1]
               = g(d)
      BY <1>0 DEF Record, Debt
    <2> HIDE DEF g
    <2> QED
      BY <2>1, <2>2, <1>1
  <1>3. ASSUME NEW d \in Record, d.seq < MaxSeq
        PROVE  /\ g(d) \in Record
               /\ g(d).seq = d.seq + 1 /\ g(d).owe = [d.owe EXCEPT ![p] = a(d)] /\ g(d).lock = [d.lock EXCEPT ![p] = 0]
               /\ g(d).hold = d.hold /\ g(d).lc = d.lc /\ g(d).lw = d.lw /\ g(d).bal = d.bal
               /\ g(d).acc = d.acc /\ g(d).status = d.status
               /\ a(d).amt >= d.owe[p].amt /\ a(d).com = d.owe[p].com /\ a(d).cs = d.owe[p].cs
    <2>1. [d.lock EXCEPT ![p] = 0] \in [Sides -> Nat]
      BY DEF Record
    <2>2. d.seq + 1 \in 1..MaxSeq
      BY <1>3 DEF Record
    <2>3. d.owe[p] \in Debt /\ d.lock[p] \in Nat
      BY <1>0 DEF Record
    <2>4. a(d) \in Debt /\ a(d).amt >= d.owe[p].amt /\ a(d).com = d.owe[p].com /\ a(d).cs = d.owe[p].cs
      BY <2>3 DEF Debt
    <2> HIDE DEF a
    <2>5. [d.owe EXCEPT ![p] = a(d)] \in [Sides -> Debt]
      BY <2>4 DEF Record
    <2> QED
      BY <2>1, <2>2, <2>4, <2>5 DEF Record
  <1>9. g(db[1]).owe = g(db[2]).owe
    <2>1. db[1].owe = db[2].owe /\ db[1].lock = db[2].lock
      BY DEF CloseConditional, MayPropose, Sync
    <2>2. a(db[1]) = a(db[2])
      BY <2>1
    <2>3. 1 \in Sides /\ 2 \in Sides
      BY DEF Sides
    <2> HIDE DEF a, g
    <2>4. \A k \in Sides : g(db[k]).owe = [db[k].owe EXCEPT ![p] = a(db[k])]
      BY <1>1, <1>3
    <2> QED
      BY <2>1, <2>2, <2>3, <2>4
  <1> HIDE DEF g, a
  <1>4. \A k \in Sides : db'[k] = g(db[k])
    BY <1>2
  <1>5. \A k \in Sides : g(db[k]) \in Record
    BY <1>1, <1>3
  <1>6. db' \in [Sides -> Record]
    BY <1>2, <1>5
  <1>7. ASSUME NEW k \in Sides
        PROVE  /\ db'[k].seq = db[k].seq + 1 /\ db'[k].lock = [db[k].lock EXCEPT ![Other(n)] = 0]
               /\ \A s \in Sides : /\ db'[k].owe[s].com = db[k].owe[s].com /\ db'[k].owe[s].cs = db[k].owe[s].cs
                                   /\ db'[k].owe[s].amt >= db[k].owe[s].amt
    <2>0. db[k] \in Record /\ db[k].seq < MaxSeq /\ db'[k] = g(db[k])
      BY <1>1, <1>4
    <2>7. g(db[k]).owe = [db[k].owe EXCEPT ![p] = a(db[k])]
      BY <2>0, <1>3
    <2>8. db[k].owe \in [Sides -> Debt]
      BY <2>0 DEF Record
    <2>1. db'[k].owe = [db[k].owe EXCEPT ![p] = a(db[k])] /\ db[k].owe \in [Sides -> Debt]
      BY <2>0, <2>7, <2>8
    <2>2. a(db[k]).amt >= db[k].owe[p].amt /\ a(db[k]).com = db[k].owe[p].com /\ a(db[k]).cs = db[k].owe[p].cs
      BY <1>1, <1>3
    <2>3. \A s \in Sides : db[k].owe[s].amt \in Int
      BY <2>1 DEF Debt
    <2>4. \A s \in Sides : db'[k].owe[s] = IF s = p THEN a(db[k]) ELSE db[k].owe[s]
      BY <2>1
    <2>5. \A s \in Sides : /\ db'[k].owe[s].com = db[k].owe[s].com /\ db'[k].owe[s].cs = db[k].owe[s].cs
                           /\ db'[k].owe[s].amt >= db[k].owe[s].amt
      BY <2>2, <2>3, <2>4
    <2>6. db'[k].seq = db[k].seq + 1 /\ db'[k].lock = [db[k].lock EXCEPT ![p] = 0]
      BY <1>1, <1>3, <1>4
    <2> QED
      BY <2>5, <2>6
  <1>8. HoldKept /\ SeenKept /\ BalKept /\ AccKept
    BY <1>1, <1>3, <1>4, ZenonT(30) DEF HoldKept, SeenKept, BalKept, AccKept
  <1>10. db'[1].owe = db'[2].owe
    BY <1>4, <1>9 DEF Sides
  <1> QED
    BY <1>6, <1>7, <1>8, <1>10

\* The party saves the commit, the proposer has nothing yet.
LEMMA CommitAgreedDb ==
  ASSUME Typed, Sync, NEW n \in Sides, CommitAgreed(n)
  PROVE  /\ db' \in [Sides -> Record]
         /\ db'[n] = db[n] /\ db'[Other(n)] = AfterCommit(db[Other(n)], n, task[n].commit.fee)
         /\ db[Other(n)].seq < MaxSeq /\ task[n].commit.fee \in BOOLEAN
         /\ SeenKept /\ BalKept /\ AccKept
  <1> DEFINE m == Other(n)
             d == AfterCommit(db[m], n, task[n].commit.fee)
  <1>1. m \in Sides /\ m # n /\ \A k \in Sides : k = n \/ k = m
    BY OtherSide
  <1>2. db[m] \in Record /\ db[m].seq < MaxSeq
    <2>1. db[1].seq = db[2].seq /\ db[n].seq < MaxSeq
      BY DEF CommitAgreed, MayPropose, Sync
    <2> QED
      BY <2>1, <1>1, Parts DEF Sides
  <1>3. task[n].commit.fee \in BOOLEAN
    BY DEF Typed, Tasks, Withdraw, Commit, External, Deposit
  <1>4. db' = [db EXCEPT ![m] = d]
    BY DEF CommitAgreed
  <1>5. /\ d \in Record
        /\ d.bal = db[m].bal /\ d.lc = db[m].lc /\ d.lw = db[m].lw /\ d.acc = db[m].acc /\ d.status = db[m].status
    <2>1. d = AfterCommit(db[m], n, task[n].commit.fee)
      OBVIOUS
    <2> HIDE DEF d, m
    <2> QED
      BY <1>2, <1>3, <2>1, AfterCommitParts
  <1> HIDE DEF d, m
  <1>6. db' \in [Sides -> Record] /\ db'[n] = db[n] /\ db'[m] = d
    BY <1>1, <1>4, <1>5 DEF Typed
  <1>7. SeenKept /\ BalKept /\ AccKept
    BY <1>1, <1>5, <1>6 DEF SeenKept, BalKept, AccKept
  <1> QED
    BY <1>2, <1>3, <1>6, <1>7 DEF d, m

\* The proposer saves the commit that the party has.
LEMMA CommitSavedDb ==
  ASSUME Typed, Sync, CommitSaved
  PROVE  /\ half.by \in Sides /\ half.fee \in BOOLEAN
         /\ db' \in [Sides -> Record]
         /\ db'[Other(half.by)] = db[Other(half.by)] /\ db'[half.by] = AfterCommit(db[half.by], half.by, half.fee)
         /\ db[half.by].seq < MaxSeq
         /\ SeenKept /\ BalKept /\ AccKept
  <1> DEFINE n == half.by
             d == AfterCommit(db[n], n, half.fee)
  <1>0. n \in Sides /\ half.fee \in BOOLEAN
    BY DEF Typed, CommitSaved, Sides
  <1>1. Other(n) \in Sides /\ Other(n) # n /\ \A k \in Sides : k = n \/ k = Other(n)
    BY <1>0, OtherSide
  <1>2. db[n] \in Record /\ db[n].seq < MaxSeq
    <2>1. db[Other(n)].seq = db[n].seq + 1 /\ db[Other(n)].seq \in 1..MaxSeq /\ db[n].seq \in 1..MaxSeq
      BY <1>0, <1>1, Parts DEF Sync
    <2> QED
      BY <1>0, <2>1, Parts
  <1>4. db' = [db EXCEPT ![n] = d]
    BY DEF CommitSaved
  <1>5. /\ d \in Record
        /\ d.bal = db[n].bal /\ d.lc = db[n].lc /\ d.lw = db[n].lw /\ d.acc = db[n].acc /\ d.status = db[n].status
    <2>1. d = AfterCommit(db[n], n, half.fee)
      OBVIOUS
    <2> HIDE DEF d, n
    <2> QED
      BY <1>0, <1>2, <2>1, AfterCommitParts
  <1> HIDE DEF d, n
  <1>6. db' \in [Sides -> Record] /\ db'[n] = d /\ db'[Other(n)] = db[Other(n)]
    BY <1>0, <1>1, <1>4, <1>5 DEF Typed
  <1>7. SeenKept /\ BalKept /\ AccKept
    BY <1>1, <1>5, <1>6 DEF SeenKept, BalKept, AccKept
  <1> QED
    BY <1>0, <1>2, <1>6, <1>7 DEF d, n

\* processSideUpdate on a record.
LEMMA ProcessedParts ==
  ASSUME NEW d \in Record, NEW n \in Sides, NEW s \in Sides, NEW e \in Event,
         NEW r, r = Processed(d, n, s, e)
  PROVE  /\ r \in Record
         /\ r.seq = d.seq /\ r.owe = d.owe /\ r.lock = d.lock /\ r.hold = d.hold /\ r.bal = d.bal
         /\ r.lc = [d.lc EXCEPT ![s] = e.cseq] /\ r.lw = [d.lw EXCEPT ![s] = e.wseq]
         /\ r.acc => d.acc
         /\ r.status = "active" => d.status = "active"
  <1> DEFINE c == IF e.open /\ CommitDone(d, s, e) THEN 0 ELSE d.pc
             b == d.acc /\ e.open
             t == IF ~e.open /\ s = n THEN "inactive" ELSE d.status
             lc == [d.lc EXCEPT ![s] = e.cseq]
             lw == [d.lw EXCEPT ![s] = e.wseq]
  <1>1. r = [d EXCEPT !.pc = c, !.acc = b, !.status = t, !.lc = lc, !.lw = lw]
    BY DEF Processed, Record
  <1>2. c \in Nat /\ lc \in [Sides -> Nat] /\ lw \in [Sides -> Nat] /\ t \in {"active", "inactive"}
    BY DEF Record, Event
  <1>3. t = "active" => d.status = "active"
    OBVIOUS
  <1>4. b \in BOOLEAN /\ (b => d.acc)
    BY Zenon
  <1> HIDE DEF c, b, t, lc, lw
  <1>5. /\ r \in Record
        /\ r.seq = d.seq /\ r.owe = d.owe /\ r.lock = d.lock /\ r.hold = d.hold /\ r.bal = d.bal
        /\ r.lc = lc /\ r.lw = lw /\ r.acc = b /\ r.status = t
    BY <1>1, <1>2, <1>4 DEF Record
  <1>6. r.acc => d.acc
    BY <1>4, <1>5, Zenon
  <1> QED
    BY <1>3, <1>5, <1>6 DEF lc, lw

\* processSideUpdate changes what the node knows of one contract.
LEMMA ProcessDb ==
  ASSUME Typed, NEW n \in Sides, NEW s \in Sides, ProcessEvent(n, s)
  PROVE  /\ ev[n][s] # <<>> /\ Head(ev[n][s]) \in Event
         /\ db' \in [Sides -> Record]
         /\ \A k \in Sides : k # n => db'[k] = db[k]
         /\ StateKept /\ HoldKept /\ BalKept
         /\ db'[n].lc = [db[n].lc EXCEPT ![s] = Head(ev[n][s]).cseq]
         /\ db'[n].lw = [db[n].lw EXCEPT ![s] = Head(ev[n][s]).wseq]
         /\ \A k \in Sides : (db'[k].acc => db[k].acc) /\ (db'[k].status = "active" => db[k].status = "active")
  <1> DEFINE e == Head(ev[n][s])
             r == Processed(db[n], n, s, e)
  <1>1. ev[n][s] # <<>> /\ ev[n][s] \in Seq(Event)
    BY Parts DEF ProcessEvent
  <1>2. e \in Event
    BY <1>1
  <1>3. db' = [db EXCEPT ![n] = r]
    BY DEF ProcessEvent
  <1>4. /\ r \in Record
        /\ r.seq = db[n].seq /\ r.owe = db[n].owe /\ r.lock = db[n].lock /\ r.hold = db[n].hold /\ r.bal = db[n].bal
        /\ r.lc = [db[n].lc EXCEPT ![s] = e.cseq] /\ r.lw = [db[n].lw EXCEPT ![s] = e.wseq]
        /\ r.acc => db[n].acc
        /\ r.status = "active" => db[n].status = "active"
    <2>1. db[n] \in Record
      BY Parts
    <2> QED
      BY <1>2, <2>1, ProcessedParts
  <1> HIDE DEF e, r
  <1>5. db' \in [Sides -> Record] /\ db'[n] = r /\ \A k \in Sides : k # n => db'[k] = db[k]
    BY <1>3, <1>4 DEF Typed
  <1>6. StateKept /\ HoldKept /\ BalKept
    BY <1>4, <1>5 DEF StateKept, HoldKept, BalKept
  <1>7. \A k \in Sides : (db'[k].acc => db[k].acc) /\ (db'[k].status = "active" => db[k].status = "active")
    BY <1>4, <1>5, Zenon
  <1> QED
    BY <1>1, <1>2, <1>4, <1>5, <1>6, <1>7 DEF e

\* A job that finds its transfer, or fetches the balance, writes both.
Gone(n, s, j) == {h \in db[n].hold[s] : h.kind = j.kind /\ h.id = j.id}
Skips(n, s, j) == ~Active(n) \/ (j.kind # "refresh" /\ Gone(n, s, j) = {})

\* refresh-onchain-balance and wait-pending-tx-completion.
LEMMA RunJobDb ==
  ASSUME Typed, NEW n \in Sides, NEW s \in Sides, RunJob(n, s), NEW j, j = Head(jobs[n][s])
  PROVE  /\ jobs[n][s] # <<>> /\ j \in Job
         /\ db' \in [Sides -> Record]
         /\ StateKept /\ SeenKept /\ AccKept
         /\ Skips(n, s, j) => db' = db
         /\ ~Skips(n, s, j) =>
               /\ \A k \in Sides : k # n => db'[k] = db[k]
               /\ db'[n].bal[s] = chain[s].bal
               /\ db'[n].hold[s] = db[n].hold[s] \ Gone(n, s, j)
               /\ \A t \in Sides : t # s => db'[n].bal[t] = db[n].bal[t] /\ db'[n].hold[t] = db[n].hold[t]
  <1> DEFINE bal == [db[n].bal EXCEPT ![s] = chain[s].bal]
             hold == [db[n].hold EXCEPT ![s] = db[n].hold[s] \ Gone(n, s, j)]
             r == [db[n] EXCEPT !.bal = bal, !.hold = hold]
  <1>1. jobs[n][s] # <<>> /\ jobs[n][s] \in Seq(Job)
    BY Parts DEF RunJob
  <1>2. j \in Job
    BY <1>1
  <1>4. CASE Skips(n, s, j)
    <2>1. db' = db
      BY <1>4 DEF RunJob, Skips, Gone
    <2> QED
      BY <1>1, <1>2, <1>4, <2>1, DbKept DEF Typed
  <1>5. CASE ~Skips(n, s, j)
    <2>1. db' = [db EXCEPT ![n].bal[s] = chain[s].bal, ![n].hold[s] = @ \ Gone(n, s, j)]
      BY <1>5 DEF RunJob, Skips, Gone
    <2>2. db \in [Sides -> Record] /\ db[n] \in Record /\ chain[s].bal \in Int
      BY Parts DEF Typed
    <2>3. db' = [db EXCEPT ![n] = r]
      BY <2>1, <2>2 DEF Record
    <2>4. bal \in [Sides -> Int]
      BY <2>2 DEF Record
    <2>5. hold \in [Sides -> SUBSET Hold]
      BY <2>2 DEF Record
    <2>6. r \in Record /\ r.bal = bal /\ r.hold = hold
      <3> HIDE DEF bal, hold
      <3> QED
        BY <2>2, <2>4, <2>5 DEF Record
    <2>7. /\ r.seq = db[n].seq /\ r.owe = db[n].owe /\ r.lock = db[n].lock /\ r.lc = db[n].lc /\ r.lw = db[n].lw
          /\ r.acc = db[n].acc /\ r.status = db[n].status
      <3> HIDE DEF bal, hold
      <3> QED
        BY <2>2 DEF Record
    <2> HIDE DEF r, bal, hold
    <2>8. db' \in [Sides -> Record] /\ db'[n] = r /\ \A k \in Sides : k # n => db'[k] = db[k]
      BY <2>2, <2>3, <2>6
    <2>9. StateKept /\ SeenKept /\ AccKept
      BY <2>7, <2>8 DEF StateKept, SeenKept, AccKept
    <2>10. /\ bal[s] = chain[s].bal /\ hold[s] = db[n].hold[s] \ Gone(n, s, j)
           /\ \A t \in Sides : t # s => bal[t] = db[n].bal[t] /\ hold[t] = db[n].hold[t]
      BY <2>2 DEF bal, hold, Record
    <2> QED
      BY <1>1, <1>2, <1>5, <2>6, <2>8, <2>9, <2>10
  <1> QED
    BY <1>4, <1>5

\* wait-deposit-completion writes the node's own balance.
LEMMA DepositSavedDb ==
  ASSUME Typed, NEW n \in Sides, DepositSaved(n)
  PROVE  /\ db' \in [Sides -> Record]
         /\ StateKept /\ SeenKept /\ HoldKept /\ AccKept
         /\ \A k \in Sides : k # n => db'[k] = db[k]
         /\ \A s \in Sides : s # n => db'[n].bal[s] = db[n].bal[s]
  <1> DEFINE bal == [db[n].bal EXCEPT ![n] = task[n].deposit.val]
             r == [db[n] EXCEPT !.bal = bal]
  <1>1. db \in [Sides -> Record] /\ db[n] \in Record
    BY Parts DEF Typed
  <1>7. task[n].deposit.val \in Int
    BY DEF Typed, Tasks, Withdraw, Commit, External, Deposit, Withdraw, Commit, External, Deposit
  <1>2. db' = [db EXCEPT ![n] = r]
    <2>1. db' = [db EXCEPT ![n].bal[n] = task[n].deposit.val]
      BY DEF DepositSaved
    <2> QED
      BY <1>1, <2>1 DEF Record
  <1>3. bal \in [Sides -> Int] /\ \A s \in Sides : s # n => bal[s] = db[n].bal[s]
    BY <1>1, <1>7 DEF Record
  <1> HIDE DEF bal
  <1>4. /\ r \in Record /\ r.hold = db[n].hold /\ r.bal = bal
        /\ r.seq = db[n].seq /\ r.owe = db[n].owe /\ r.lock = db[n].lock /\ r.lc = db[n].lc /\ r.lw = db[n].lw
        /\ r.acc = db[n].acc /\ r.status = db[n].status
    BY <1>1, <1>3 DEF Record
  <1> HIDE DEF r
  <1>5. db' \in [Sides -> Record] /\ db'[n] = r /\ \A k \in Sides : k # n => db'[k] = db[k]
    BY <1>1, <1>2, <1>4
  <1>6. StateKept /\ SeenKept /\ HoldKept /\ AccKept
    BY <1>4, <1>5 DEF StateKept, SeenKept, HoldKept, AccKept
  <1> QED
    BY <1>3, <1>4, <1>5, <1>6

\* A node stops accepting actions.
LEMMA NotAccepting ==
  ASSUME NEW d \in Record, NEW r, r = [d EXCEPT !.acc = FALSE]
  PROVE  /\ r \in Record /\ ~r.acc
         /\ r.seq = d.seq /\ r.owe = d.owe /\ r.lock = d.lock /\ r.hold = d.hold /\ r.bal = d.bal
         /\ r.lc = d.lc /\ r.lw = d.lw /\ r.status = d.status
  BY DEF Record

\* The steps of a close only stop the acceptance of actions.
LEMMA CloseDbs ==
  ASSUME Typed, NEW n \in Sides, RequestCooperativeClose(n) \/ CloseSigned(n)
  PROVE  /\ db' \in [Sides -> Record]
         /\ StateKept /\ SeenKept /\ HoldKept /\ BalKept
         /\ \A k \in Sides : (db'[k].acc => db[k].acc) /\ db'[k].status = db[k].status
         /\ CloseSigned(n) => \A k \in Sides : ~db'[k].acc
  <1> DEFINE c(d) == [d EXCEPT !.acc = FALSE]
             p == Other(n)
  <1>1. db \in [Sides -> Record] /\ p \in Sides /\ p # n /\ \A k \in Sides : k = n \/ k = p
    BY OtherSide DEF Typed
  <1>2. \A k \in Sides : db'[k] = db[k] \/ db'[k] = c(db[k])
    BY <1>1, ZenonT(30) DEF RequestCooperativeClose, CloseSigned, PartyCloses, Typed
  <1>3. CloseSigned(n) => \A k \in Sides : db'[k] = c(db[k])
    BY <1>1 DEF CloseSigned, PartyCloses
  <1>4. DOMAIN db' = Sides /\ db' = [k \in Sides |-> db'[k]]
    BY <1>1 DEF RequestCooperativeClose, CloseSigned
  <1>5. \A k \in Sides : /\ c(db[k]) \in Record /\ ~c(db[k]).acc
                         /\ c(db[k]).seq = db[k].seq /\ c(db[k]).owe = db[k].owe /\ c(db[k]).lock = db[k].lock
                         /\ c(db[k]).hold = db[k].hold /\ c(db[k]).bal = db[k].bal
                         /\ c(db[k]).lc = db[k].lc /\ c(db[k]).lw = db[k].lw /\ c(db[k]).status = db[k].status
    BY <1>1, NotAccepting
  <1> HIDE DEF c, p
  <1>6. \A k \in Sides : db'[k] \in Record
    BY <1>1, <1>2, <1>5
  <1>7. db' \in [Sides -> Record]
    BY <1>4, <1>6
  <1>8. StateKept /\ SeenKept /\ HoldKept /\ BalKept
    BY <1>2, <1>5 DEF StateKept, SeenKept, HoldKept, BalKept
  <1>9. \A k \in Sides : (db'[k].acc => db[k].acc) /\ db'[k].status = db[k].status
    BY <1>2, <1>5, Zenon
  <1>10. CloseSigned(n) => \A k \in Sides : ~db'[k].acc
    BY <1>3, <1>5
  <1> QED
    BY <1>7, <1>8, <1>9, <1>10

\* A withdrawal that is signed or saved is held back, nothing else is.
LEMMA WithdrawDb ==
  ASSUME Typed, NEW n \in Sides, WithdrawSigned(n) \/ WithdrawSaved(n)
  PROVE  /\ db' \in [Sides -> Record]
         /\ StateKept /\ SeenKept /\ BalKept /\ AccKept
         /\ \A k, s \in Sides : db[k].hold[s] \subseteq db'[k].hold[s]
  <1> DEFINE t == task[n].withdraw
             h == [kind |-> "wallet", id |-> t.wseq, amt |-> t.amt]
  <1>1. t.amt \in Nat /\ t.wseq \in Nat
    BY DEF Typed, Tasks, Withdraw, Commit, External, Deposit
  <1>2. h \in Hold
    BY <1>1 DEF Hold
  <1>3. Other(n) \in Sides /\ db \in [Sides -> Record]
    BY OtherSide DEF Typed
  <1>4. \A k, s \in Sides : db[k].hold[s] \subseteq Hold
    BY Parts
  <1>5. CASE UNCHANGED db
    BY <1>5, <1>3, DbKept DEF HoldKept
  <1>6. ASSUME NEW p \in Sides, NEW H \in SUBSET Hold, db[p].hold[n] \subseteq H,
               db' = [db EXCEPT ![p].hold[n] = H]
        PROVE  /\ db' \in [Sides -> Record] /\ StateKept /\ SeenKept /\ BalKept /\ AccKept
               /\ \A k, s \in Sides : db[k].hold[s] \subseteq db'[k].hold[s]
    <2> DEFINE hold == [db[p].hold EXCEPT ![n] = H]
               r == [db[p] EXCEPT !.hold = hold]
    <2>2. db[p] \in Record
      BY <1>3
    <2>1. db' = [db EXCEPT ![p] = r]
      BY <1>3, <1>6, <2>2 DEF Record
    <2>7. hold = [db[p].hold EXCEPT ![n] = H] /\ r = [db[p] EXCEPT !.hold = hold]
      OBVIOUS
    <2> HIDE DEF hold, r
    <2>3. /\ r \in Record /\ r.bal = db[p].bal /\ r.seq = db[p].seq /\ r.owe = db[p].owe /\ r.lock = db[p].lock
          /\ r.lc = db[p].lc /\ r.lw = db[p].lw /\ r.acc = db[p].acc /\ r.status = db[p].status
          /\ \A k \in Sides : r.hold[k] = IF k = n THEN H ELSE db[p].hold[k]
      <3>1. hold \in [Sides -> SUBSET Hold] /\ \A k \in Sides : hold[k] = IF k = n THEN H ELSE db[p].hold[k]
        BY <2>2, <2>7 DEF Record
      <3>2. r \in Record /\ r.bal = db[p].bal /\ r.seq = db[p].seq /\ r.owe = db[p].owe /\ r.lock = db[p].lock
            /\ r.lc = db[p].lc /\ r.lw = db[p].lw /\ r.acc = db[p].acc /\ r.status = db[p].status
            /\ r.hold = hold
        BY <2>2, <2>7, <3>1 DEF Record
      <3> QED
        BY <3>1, <3>2
    <2>4. db' \in [Sides -> Record] /\ db'[p] = r /\ \A k \in Sides : k # p => db'[k] = db[k]
      BY <2>1, <2>3, <1>3
    <2>5. StateKept /\ SeenKept /\ BalKept /\ AccKept
      BY <2>3, <2>4 DEF StateKept, SeenKept, BalKept, AccKept
    <2>6. \A k, s \in Sides : db[k].hold[s] \subseteq db'[k].hold[s]
      BY <2>3, <2>4, <1>6
    <2> QED
      BY <2>4, <2>5, <2>6
  <1>7. {h} \in SUBSET Hold /\ db[n].hold[n] \cup {h} \in SUBSET Hold
    BY <1>2, <1>4
  <1>8. \/ UNCHANGED db
        \/ db' = [db EXCEPT ![Other(n)].hold[n] = {h}] /\ db[Other(n)].hold[n] = {}
        \/ db' = [db EXCEPT ![n].hold[n] = db[n].hold[n] \cup {h}]
    BY <1>3 DEF WithdrawSigned, WithdrawSaved
  <1> HIDE DEF h
  <1>9. CASE db' = [db EXCEPT ![Other(n)].hold[n] = {h}] /\ db[Other(n)].hold[n] = {}
    BY <1>3, <1>6, <1>7, <1>9
  <1>10. CASE db' = [db EXCEPT ![n].hold[n] = db[n].hold[n] \cup {h}]
    <2>1. db[n].hold[n] \subseteq db[n].hold[n] \cup {h}
      OBVIOUS
    <2> QED
      BY <2>1, <1>6, <1>7, <1>10
  <1> QED
    BY <1>5, <1>8, <1>9, <1>10

-----------------------------------------------------------------------------
(* What the transactions do to the contracts and the events.               *)

\* No counter of a contract goes back, and a closed contract stays closed.
Forward ==
    \A s \in Sides :
        /\ chain[s].cseq <= chain'[s].cseq /\ chain[s].wseq <= chain'[s].wseq
        /\ chain'[s].open => chain[s].open

\* A transaction of the contracts of S, of which both nodes get the event.
Transaction(S) ==
    /\ chain' \in [Sides -> Contract] /\ Forward
    /\ \A s \in Sides : s \notin S => chain'[s] = chain[s]
    /\ ev' \in [Sides -> [Sides -> Seq(Event)]]
    /\ \A n, s \in Sides : s \notin S => ev'[n][s] = ev[n][s]
    /\ \A n, s \in Sides : s \in S =>
          ev'[n][s] = Append(ev[n][s], [cseq |-> chain'[s].cseq, wseq |-> chain'[s].wseq, open |-> chain'[s].open])

\* A transaction is seen by both nodes.
LEMMA SeenEvents ==
  ASSUME Typed, chain' \in [Sides -> Contract], Forward, NEW S, Seen(S),
         \A s \in Sides : s \notin S => chain'[s] = chain[s]
  PROVE  Transaction(S)
  <1> DEFINE e(s) == [cseq |-> chain'[s].cseq, wseq |-> chain'[s].wseq, open |-> chain'[s].open]
  <1>1. \A s \in Sides : e(s) \in Event
    BY DEF Contract, Event
  <1>2. \A n, s \in Sides : ev[n][s] \in Seq(Event)
    BY Parts
  <1>3. ev' = [n \in Sides |-> [s \in Sides |-> IF s \notin S THEN ev[n][s] ELSE Append(ev[n][s], e(s))]]
    BY DEF Seen
  <1> HIDE DEF e
  <1>4. \A n, s \in Sides : Append(ev[n][s], e(s)) \in Seq(Event)
    BY <1>1, <1>2
  <1>5. \A n, s \in Sides : ev'[n][s] = IF s \notin S THEN ev[n][s] ELSE Append(ev[n][s], e(s))
    BY <1>3
  <1>6. \A n, s \in Sides : (IF s \notin S THEN ev[n][s] ELSE Append(ev[n][s], e(s))) \in Seq(Event)
    BY <1>2, <1>4
  <1>7. ev' \in [Sides -> [Sides -> Seq(Event)]]
    BY <1>3, <1>6
  <1> QED
    BY <1>5, <1>7 DEF Transaction, e

\* One contract changes.
LEMMA OneContract ==
  ASSUME Typed, NEW s \in Sides, NEW c \in Contract, chain' = [chain EXCEPT ![s] = c], Seen({s}),
         chain[s].cseq <= c.cseq, chain[s].wseq <= c.wseq, c.open => chain[s].open
  PROVE  Transaction({s}) /\ chain'[s] = c
  <1>1. chain \in [Sides -> Contract]
    BY DEF Typed
  <1>2. chain' \in [Sides -> Contract] /\ chain'[s] = c /\ \A k \in Sides : k # s => chain'[k] = chain[k]
    BY <1>1
  <1>3. Forward
    <2>1. \A k \in Sides : chain[k].cseq \in Nat /\ chain[k].wseq \in Nat
      BY Parts
    <2> QED
      BY <1>2, <2>1 DEF Forward
  <1>4. \A k \in Sides : k \notin {s} => chain'[k] = chain[k]
    BY <1>2
  <1>5. Transaction({s})
    BY <1>2, <1>3, <1>4, SeenEvents
  <1> QED
    BY <1>2, <1>5

\* A contract executes a commit.
LEMMA CommitTxStep ==
  ASSUME Typed, NEW s \in Sides, NEW q \in Nat, NEW pay \in [Sides -> Int], CommitTx(s, q, pay)
  PROVE  /\ Transaction({s}) /\ chain[s].open
         /\ \A k \in Sides : chain'[k].open = chain[k].open /\ chain'[k].wseq = chain[k].wseq
         /\ transit' \subseteq Message
         /\ \A m \in transit' : m.close => m \in transit
  <1> DEFINE net == pay[s] - pay[Other(s)]
             out == IF net > 0 THEN net ELSE 0
             b == chain[s].bal - out
             c == [chain[s] EXCEPT !.bal = b, !.cseq = q]
             m == [to |-> Other(s), seq |-> q, amt |-> out, back |-> out - net, close |-> FALSE]
  <1>1. Other(s) \in Sides /\ net \in Int /\ out \in Int /\ out - net \in Int
    BY OtherSide
  <1>2. chain[s].open /\ chain[s].cseq < q /\ Seen({s}) /\ transit' = transit \cup {m}
    BY DEF CommitTx
  <1>3. chain' = [chain EXCEPT ![s].bal = chain[s].bal - out, ![s].cseq = q]
    BY DEF CommitTx, Typed
  <1> HIDE DEF net, out
  <1>4. chain \in [Sides -> Contract] /\ chain[s] \in Contract
    BY DEF Typed
  <1>5. chain' = [chain EXCEPT ![s] = c]
    BY <1>3, <1>4 DEF Contract
  <1>6. c \in Contract /\ c.cseq = q /\ c.wseq = chain[s].wseq /\ c.open = chain[s].open
    <2>1. b \in Int
      BY <1>1, <1>4 DEF Contract
    <2> HIDE DEF b
    <2> QED
      BY <2>1, <1>4 DEF Contract
  <1>7. m \in Message /\ ~m.close
    BY <1>1 DEF Message
  <1> HIDE DEF c, m
  <1>8. chain[s].cseq <= c.cseq /\ chain[s].wseq <= c.wseq /\ (c.open => chain[s].open)
    BY <1>2, <1>6, Parts
  <1>9. Transaction({s}) /\ chain'[s] = c
    BY <1>2, <1>5, <1>6, <1>8, OneContract
  <1>10. \A k \in Sides : chain'[k].open = chain[k].open /\ chain'[k].wseq = chain[k].wseq
    BY <1>6, <1>9 DEF Transaction
  <1>11. transit' \subseteq Message /\ \A x \in transit' : x.close => x \in transit
    BY <1>2, <1>7 DEF Typed
  <1> QED
    BY <1>2, <1>9, <1>10, <1>11

\* What a contract sends back when it was asked for coins.
LEMMA SentBack ==
  ASSUME NEW m \in Message, NEW a \in Sides, NEW b \in Int, NEW r, r = [m EXCEPT !.to = a, !.amt = b, !.back = 0]
  PROVE  r \in Message /\ r.close = m.close
  <1>1. /\ r.to = a /\ r.seq = m.seq /\ r.amt = b /\ r.back = 0 /\ r.close = m.close
        /\ r = [to |-> r.to, seq |-> r.seq, amt |-> r.amt, back |-> r.back, close |-> r.close]
    BY DEF Message
  <1>2. m.seq \in Nat /\ m.close \in BOOLEAN
    BY DEF Message
  <1> QED
    BY <1>1, <1>2 DEF Message

\* A contract gets a message of the other one.
LEMMA DeliverStep ==
  ASSUME Typed, Deliver
  PROVE  \E m \in transit :
         /\ Transaction({m.to}) /\ m.to \in Sides
         /\ \A k \in Sides : /\ chain'[k].wseq = chain[k].wseq
                             /\ ~chain'[k].open => ~chain[k].open \/ m.close
         /\ transit' \subseteq Message
         /\ \A x \in transit' : x.close => x \in transit \/ m.close
  <1>1. PICK m \in transit :
          /\ chain' = [chain EXCEPT ![m.to].bal = @ + m.amt - m.back,
                                    ![m.to].cseq = IF m.seq > @ THEN m.seq ELSE @,
                                    ![m.to].open = @ /\ ~m.close]
          /\ transit' = (transit \ {m}) \cup
                (IF m.back > 0 THEN {[m EXCEPT !.to = Other(m.to), !.amt = m.back, !.back = 0]} ELSE {})
          /\ Seen({m.to})
    BY DEF Deliver
  <1> DEFINE s == m.to
             q == IF m.seq > chain[s].cseq THEN m.seq ELSE chain[s].cseq
             o == chain[s].open /\ ~m.close
             b == chain[s].bal + m.amt - m.back
             c == [chain[s] EXCEPT !.bal = b, !.cseq = q, !.open = o]
             a == Other(s)
             k0 == m.back
             r == [m EXCEPT !.to = a, !.amt = k0, !.back = 0]
  <1>2. m \in Message /\ s \in Sides /\ m.seq \in Nat /\ m.amt \in Int /\ m.back \in Int
    BY DEF Typed, Message
  <1>3. chain \in [Sides -> Contract] /\ chain[s] \in Contract /\ chain[s].cseq \in Nat /\ chain[s].wseq \in Nat
        /\ chain[s].bal \in Int
    BY <1>2, Parts DEF Typed
  <1>4. q \in Nat /\ chain[s].cseq <= q
    BY <1>2, <1>3
  <1>5. o \in BOOLEAN /\ (o => chain[s].open) /\ (~o => ~chain[s].open \/ m.close)
    BY Zenon
  <1>6. chain' = [chain EXCEPT ![s] = c]
    BY <1>1, <1>2, <1>3 DEF Contract
  <1>7. c \in Contract /\ c.cseq = q /\ c.wseq = chain[s].wseq /\ c.open = o
    <2>1. b \in Int
      BY <1>2, <1>3
    <2> HIDE DEF q, o, b, s
    <2> QED
      BY <2>1, <1>3, <1>4, <1>5 DEF Contract
  <1>8. r \in Message /\ r.close = m.close
    <2>1. Other(s) \in Sides
      BY <1>2, OtherSide
    <2> HIDE DEF s, a, k0
    <2>2. m.back = k0
      BY DEF k0
    <2>3. a \in Sides /\ k0 \in Int
      BY <1>2, <2>1, <2>2 DEF a
    <2>4. r = [m EXCEPT !.to = a, !.amt = k0, !.back = 0]
      OBVIOUS
    <2> HIDE DEF r
    <2> QED
      BY <1>2, <2>3, <2>4, SentBack, ZenonT(30)
  <1> HIDE DEF c, r, q, o
  <1>9. chain[s].cseq <= c.cseq /\ chain[s].wseq <= c.wseq
    BY <1>3, <1>4, <1>7
  <1>10. c.open => chain[s].open
    BY <1>5, <1>7, Zenon
  <1>11. Transaction({s}) /\ chain'[s] = c
    BY <1>1, <1>2, <1>6, <1>7, <1>9, <1>10, OneContract
  <1>12. \A k \in Sides : k # s => chain'[k] = chain[k]
    BY <1>11 DEF Transaction
  <1>13. \A k \in Sides : chain'[k].wseq = chain[k].wseq
    BY <1>7, <1>11, <1>12
  <1>14. \A k \in Sides : ~chain'[k].open => ~chain[k].open \/ m.close
    BY <1>5, <1>7, <1>11, <1>12, Zenon
  <1>15. transit' \subseteq transit \cup {r}
    BY <1>1 DEF r
  <1>16. transit' \subseteq Message
    BY <1>8, <1>15 DEF Typed
  <1>17. \A x \in transit' : x.close => x \in transit \/ m.close
    BY <1>8, <1>15, Zenon
  <1> QED
    BY <1>2, <1>11, <1>13, <1>14, <1>16, <1>17

\* The contract of the party executes a signed withdrawal.
LEMMA ExternalStep ==
  ASSUME Typed, NEW n \in Sides, ExecuteExternal(n), ~UNCHANGED <<chain, ev>>
  PROVE  /\ Transaction({Other(n)}) /\ UNCHANGED task
         /\ chain'[Other(n)].wseq = chain[Other(n)].wseq + 1
         /\ \A k \in Sides : chain'[k].open = chain[k].open
         /\ \A k \in Sides : k # Other(n) => chain'[k] = chain[k]
  <1> DEFINE p == Other(n)
             t == task[n].external
             b == chain[p].bal - t.amt
             w == chain[p].wseq + 1
             c == [chain[p] EXCEPT !.bal = b, !.wseq = w]
  <1>1. p \in Sides /\ t.amt \in Nat
    BY OtherSide DEF Typed, Tasks, External
  <1>2. chain \in [Sides -> Contract] /\ chain[p] \in Contract /\ chain[p].wseq \in Nat /\ chain[p].cseq \in Nat
    BY <1>1, Parts DEF Typed
  <1>3. chain' = [chain EXCEPT ![p].bal = @ - t.amt, ![p].wseq = @ + 1] /\ Seen({p}) /\ UNCHANGED task
    BY DEF ExecuteExternal
  <1>4. chain' = [chain EXCEPT ![p] = c]
    BY <1>1, <1>2, <1>3 DEF Contract
  <1>5. c \in Contract /\ c.cseq = chain[p].cseq /\ c.wseq = w /\ c.open = chain[p].open
    <2>1. b \in Int /\ w \in Nat
      BY <1>1, <1>2 DEF Contract
    <2> HIDE DEF b, w, p
    <2> QED
      BY <2>1, <1>2 DEF Contract
  <1> HIDE DEF c, p
  <1>6. chain[p].cseq <= c.cseq /\ chain[p].wseq <= c.wseq /\ (c.open => chain[p].open)
    BY <1>2, <1>5
  <1>7. Transaction({p}) /\ chain'[p] = c
    BY <1>1, <1>3, <1>4, <1>5, <1>6, OneContract
  <1>8. \A k \in Sides : k # p => chain'[k] = chain[k]
    BY <1>7 DEF Transaction
  <1>9. \A k \in Sides : chain'[k].open = chain[k].open
    BY <1>5, <1>7, <1>8
  <1> QED
    BY <1>3, <1>5, <1>7, <1>8, <1>9 DEF p

\* The owner withdraws from the closed channel.
LEMMA OwnerStep ==
  ASSUME Typed, NEW n \in Sides, WithdrawByOwner(n)
  PROVE  /\ Transaction({n})
         /\ chain'[n].wseq = chain[n].wseq + 1
         /\ \A k \in Sides : chain'[k].open = chain[k].open
         /\ \A k \in Sides : k # n => chain'[k] = chain[k]
  <1> DEFINE t == task[n].withdraw
             b == chain[n].bal - t.amt
             w == chain[n].wseq + 1
             c == [chain[n] EXCEPT !.bal = b, !.wseq = w]
  <1>1. t.amt \in Nat
    BY DEF Typed, Tasks, Withdraw, Commit, External, Deposit
  <1>2. chain \in [Sides -> Contract] /\ chain[n] \in Contract /\ chain[n].wseq \in Nat /\ chain[n].cseq \in Nat
    BY Parts DEF Typed
  <1>3. chain' = [chain EXCEPT ![n].bal = @ - t.amt, ![n].wseq = @ + 1] /\ Seen({n})
    BY DEF WithdrawByOwner
  <1>4. chain' = [chain EXCEPT ![n] = c]
    BY <1>1, <1>2, <1>3 DEF Contract
  <1>5. c \in Contract /\ c.cseq = chain[n].cseq /\ c.wseq = w /\ c.open = chain[n].open
    <2>1. b \in Int /\ w \in Nat
      BY <1>1, <1>2 DEF Contract
    <2> HIDE DEF b, w
    <2> QED
      BY <2>1, <1>2 DEF Contract
  <1> HIDE DEF c
  <1>6. chain[n].cseq <= c.cseq /\ chain[n].wseq <= c.wseq /\ (c.open => chain[n].open)
    BY <1>2, <1>5
  <1>7. Transaction({n}) /\ chain'[n] = c
    BY <1>1, <1>3, <1>4, <1>5, <1>6, OneContract
  <1>8. \A k \in Sides : k # n => chain'[k] = chain[k]
    BY <1>7 DEF Transaction
  <1>9. \A k \in Sides : chain'[k].open = chain[k].open
    BY <1>5, <1>7, <1>8
  <1> QED
    BY <1>3, <1>5, <1>7, <1>8, <1>9

\* A deposit arrives.
LEMMA TopupStep ==
  ASSUME Typed, NEW n \in Sides, ExecuteTopup(n), ~UNCHANGED <<chain, ev>>
  PROVE  /\ Transaction({n})
         /\ \A k \in Sides : chain'[k].open = chain[k].open /\ chain'[k].wseq = chain[k].wseq
         /\ task' = [task EXCEPT ![n].deposit.st = "sent", ![n].deposit.val = 0]
  <1> DEFINE t == task[n].deposit
             c == [chain[n] EXCEPT !.bal = chain[n].bal + t.val]
  <1>1. t.val \in Int
    BY DEF Typed, Tasks, Withdraw, Commit, External, Deposit
  <1>2. chain \in [Sides -> Contract] /\ chain[n] \in Contract /\ chain[n].wseq \in Nat /\ chain[n].cseq \in Nat
    BY Parts DEF Typed
  <1>3. /\ chain' = [chain EXCEPT ![n].bal = @ + t.val] /\ Seen({n})
        /\ task' = [task EXCEPT ![n].deposit.st = "sent", ![n].deposit.val = 0]
    BY DEF ExecuteTopup
  <1>4. chain' = [chain EXCEPT ![n] = c]
    BY <1>1, <1>2, <1>3 DEF Contract
  <1>5. c \in Contract /\ c.cseq = chain[n].cseq /\ c.wseq = chain[n].wseq /\ c.open = chain[n].open
    BY <1>1, <1>2 DEF Contract
  <1> HIDE DEF c
  <1>6. chain[n].cseq <= c.cseq /\ chain[n].wseq <= c.wseq /\ (c.open => chain[n].open)
    BY <1>2, <1>5
  <1>7. Transaction({n}) /\ chain'[n] = c
    BY <1>1, <1>3, <1>4, <1>5, <1>6, OneContract
  <1>8. \A k \in Sides : k # n => chain'[k] = chain[k]
    BY <1>7 DEF Transaction
  <1>9. \A k \in Sides : chain'[k].open = chain[k].open /\ chain'[k].wseq = chain[k].wseq
    BY <1>5, <1>7, <1>8
  <1> QED
    BY <1>3, <1>7, <1>9

\* The contract closes.
LEMMA CloseExecutedStep ==
  ASSUME Typed, NEW n \in Sides, CloseExecuted(n), ~UNCHANGED <<chain, transit, ev>>
  PROVE  /\ Transaction({n})
         /\ \A k \in Sides : chain'[k].wseq = chain[k].wseq
         /\ transit' \subseteq Message
  <1> DEFINE c == [chain[n] EXCEPT !.open = FALSE]
             m == [to |-> Other(n), seq |-> 0, amt |-> 0, back |-> 0, close |-> TRUE]
  <1>2. chain \in [Sides -> Contract] /\ chain[n] \in Contract /\ chain[n].wseq \in Nat /\ chain[n].cseq \in Nat
    BY Parts DEF Typed
  <1>3. chain' = [chain EXCEPT ![n].open = FALSE] /\ Seen({n}) /\ transit' = transit \cup {m}
    BY DEF CloseExecuted
  <1>4. chain' = [chain EXCEPT ![n] = c]
    BY <1>2, <1>3 DEF Contract
  <1>5. c \in Contract /\ c.cseq = chain[n].cseq /\ c.wseq = chain[n].wseq /\ ~c.open
    BY <1>2 DEF Contract
  <1>1. m \in Message
    BY OtherSide DEF Message
  <1> HIDE DEF c, m
  <1>6. chain[n].cseq <= c.cseq /\ chain[n].wseq <= c.wseq /\ (c.open => chain[n].open)
    BY <1>2, <1>5
  <1>7. Transaction({n}) /\ chain'[n] = c
    BY <1>3, <1>4, <1>5, <1>6, OneContract
  <1>8. \A k \in Sides : chain'[k].wseq = chain[k].wseq
    BY <1>5, <1>7 DEF Transaction
  <1>9. transit' \subseteq Message
    BY <1>1, <1>3 DEF Typed
  <1> QED
    BY <1>7, <1>8, <1>9

-----------------------------------------------------------------------------
(* What each step does to the tasks, part by part.                         *)

ExternalKept == \A k \in Sides : task'[k].external = task[k].external
CloseKept == \A k \in Sides : task'[k].close = task[k].close
DepositKept == \A k \in Sides : task'[k].deposit = task[k].deposit

\* A step that leaves the tasks alone.
LEMMA TaskKept ==
  ASSUME Typed, UNCHANGED task
  PROVE  task' \in [Sides -> Tasks] /\ ExternalKept /\ CloseKept /\ DepositKept
  BY DEF Typed, ExternalKept, CloseKept, DepositKept

\* One node's tasks change, and of these one part.
LEMMA OneTask ==
  ASSUME Typed, NEW n \in Sides, NEW t \in Tasks, task' = [task EXCEPT ![n] = t]
  PROVE  /\ task' \in [Sides -> Tasks] /\ task'[n] = t /\ \A k \in Sides : k # n => task'[k] = task[k]
         /\ t.external = task[n].external => ExternalKept
         /\ t.close = task[n].close => CloseKept
         /\ t.deposit = task[n].deposit => DepositKept
  BY DEF Typed, ExternalKept, CloseKept, DepositKept

SetCommit(n, c) == task' = [task EXCEPT ![n] = [task[n] EXCEPT !.commit = c]]

\* The commit task is written.
LEMMA SetCommitStep ==
  ASSUME Typed, NEW n \in Sides, NEW c \in Commit, SetCommit(n, c)
  PROVE  /\ task' \in [Sides -> Tasks] /\ ExternalKept /\ CloseKept /\ DepositKept
  <1> DEFINE t == [task[n] EXCEPT !.commit = c]
  <1>1. task[n] \in Tasks
    BY DEF Typed
  <1>2. task' = [task EXCEPT ![n] = t]
    BY DEF SetCommit
  <1>3. t \in Tasks /\ t.commit = c /\ t.external = task[n].external /\ t.close = task[n].close /\ t.deposit = task[n].deposit
    BY <1>1 DEF Tasks
  <1> HIDE DEF t
  <1> QED
    BY <1>2, <1>3, OneTask

SetWithdraw(n, c) == task' = [task EXCEPT ![n] = [task[n] EXCEPT !.withdraw = c]]

\* The withdrawal task is written.
LEMMA SetWithdrawStep ==
  ASSUME Typed, NEW n \in Sides, NEW c \in Withdraw, SetWithdraw(n, c)
  PROVE  /\ task' \in [Sides -> Tasks] /\ ExternalKept /\ CloseKept /\ DepositKept
  <1> DEFINE t == [task[n] EXCEPT !.withdraw = c]
  <1>1. task[n] \in Tasks
    BY DEF Typed
  <1>2. task' = [task EXCEPT ![n] = t]
    BY DEF SetWithdraw
  <1>3. t \in Tasks /\ t.withdraw = c /\ t.external = task[n].external /\ t.close = task[n].close /\ t.deposit = task[n].deposit
    BY <1>1 DEF Tasks
  <1> HIDE DEF t
  <1> QED
    BY <1>2, <1>3, OneTask

SetExecute(n, c) == task' = [task EXCEPT ![n] = [task[n] EXCEPT !.execute = c]]

\* The task that executes a commit is written.
LEMMA SetExecuteStep ==
  ASSUME Typed, NEW n \in Sides, NEW c \in Execute, SetExecute(n, c)
  PROVE  /\ task' \in [Sides -> Tasks] /\ ExternalKept /\ CloseKept /\ DepositKept
  <1> DEFINE t == [task[n] EXCEPT !.execute = c]
  <1>1. task[n] \in Tasks
    BY DEF Typed
  <1>2. task' = [task EXCEPT ![n] = t]
    BY DEF SetExecute
  <1>3. t \in Tasks /\ t.execute = c /\ t.external = task[n].external /\ t.close = task[n].close /\ t.deposit = task[n].deposit
    BY <1>1 DEF Tasks
  <1> HIDE DEF t
  <1> QED
    BY <1>2, <1>3, OneTask

SetExternal(n, c) == task' = [task EXCEPT ![n] = [task[n] EXCEPT !.external = c]]

\* The task that executes a withdrawal is written.
LEMMA SetExternalStep ==
  ASSUME Typed, NEW n \in Sides, NEW c \in External, SetExternal(n, c)
  PROVE  /\ task' \in [Sides -> Tasks] /\ CloseKept /\ DepositKept
         /\ task'[n].external = c /\ \A k \in Sides : k # n => task'[k] = task[k]
  <1> DEFINE t == [task[n] EXCEPT !.external = c]
  <1>1. task[n] \in Tasks
    BY DEF Typed
  <1>2. task' = [task EXCEPT ![n] = t]
    BY DEF SetExternal
  <1>3. t \in Tasks /\ t.external = c /\ t.close = task[n].close /\ t.deposit = task[n].deposit
    BY <1>1 DEF Tasks
  <1> HIDE DEF t
  <1> QED
    BY <1>2, <1>3, OneTask

SetClose(n, c) == task' = [task EXCEPT ![n] = [task[n] EXCEPT !.close = c]]

\* The close task is written.
LEMMA SetCloseStep ==
  ASSUME Typed, NEW n \in Sides, NEW c \in Close, SetClose(n, c)
  PROVE  /\ task' \in [Sides -> Tasks] /\ ExternalKept /\ DepositKept
         /\ task'[n].close = c /\ \A k \in Sides : k # n => task'[k] = task[k]
  <1> DEFINE t == [task[n] EXCEPT !.close = c]
  <1>1. task[n] \in Tasks
    BY DEF Typed
  <1>2. task' = [task EXCEPT ![n] = t]
    BY DEF SetClose
  <1>3. t \in Tasks /\ t.close = c /\ t.external = task[n].external /\ t.deposit = task[n].deposit
    BY <1>1 DEF Tasks
  <1> HIDE DEF t
  <1> QED
    BY <1>2, <1>3, OneTask

SetDeposit(n, c) == task' = [task EXCEPT ![n] = [task[n] EXCEPT !.deposit = c]]

\* The deposit task is written.
LEMMA SetDepositStep ==
  ASSUME Typed, NEW n \in Sides, NEW c \in Deposit, SetDeposit(n, c)
  PROVE  /\ task' \in [Sides -> Tasks] /\ ExternalKept /\ CloseKept
         /\ task'[n].deposit = c /\ \A k \in Sides : k # n => task'[k] = task[k]
  <1> DEFINE t == [task[n] EXCEPT !.deposit = c]
  <1>1. task[n] \in Tasks
    BY DEF Typed
  <1>2. task' = [task EXCEPT ![n] = t]
    BY DEF SetDeposit
  <1>3. t \in Tasks /\ t.deposit = c /\ t.external = task[n].external /\ t.close = task[n].close
    BY <1>1 DEF Tasks
  <1> HIDE DEF t
  <1> QED
    BY <1>2, <1>3, OneTask

\* The tasks as functions of their parts.
LEMMA TaskTypes ==
  ASSUME Typed
  PROVE  /\ task \in [Sides -> Tasks]
         /\ \A n \in Sides : /\ task[n] \in Tasks
                             /\ task[n].withdraw \in Withdraw /\ task[n].commit \in Commit
                             /\ task[n].execute \in Execute /\ task[n].external \in External
                             /\ task[n].close \in Close /\ task[n].deposit \in Deposit
  <1>1. task \in [Sides -> Tasks] /\ \A n \in Sides : task[n] \in Tasks
    BY DEF Typed
  <1> QED
    BY <1>1 DEF Tasks

\* requestCommitAction writes the commit task or nothing.
LEMMA CommitTaskedStep ==
  ASSUME Typed, NEW n \in Sides, NEW fee \in BOOLEAN, task' = [task EXCEPT ![n] = CommitTasked(n, fee, @)]
  PROVE  task' \in [Sides -> Tasks] /\ ExternalKept /\ CloseKept /\ DepositKept
  <1> DEFINE c == [st |-> "todo", fee |-> fee, seq |-> db[n].seq]
  <1>1. c \in Commit
    <2>1. db[n].seq \in Nat
      BY Parts
    <2> QED
      BY <2>1 DEF Commit
  <1>2. task \in [Sides -> Tasks]
    BY TaskTypes
  <1>3. UNCHANGED task \/ SetCommit(n, c)
    BY <1>2 DEF SetCommit, CommitTasked
  <1> HIDE DEF c
  <1> QED
    BY <1>1, <1>3, TaskKept, SetCommitStep

\* The steps that write the commit task.
LEMMA CommitSteps ==
  ASSUME Typed, NEW n \in Sides,
         \/ \E fee \in BOOLEAN : RequestCommitAction(n, fee)
         \/ CommitSkipped(n) \/ WithdrawCommits(n) \/ (CommitSaved /\ half.by = n)
  PROVE  task' \in [Sides -> Tasks] /\ ExternalKept /\ CloseKept /\ DepositKept
  <1> DEFINE c == [task[n].commit EXCEPT !.st = "done"]
  <1>1. task \in [Sides -> Tasks] /\ task[n] \in Tasks /\ task[n].commit \in Commit
    BY TaskTypes
  <1>2. c \in Commit
    BY <1>1 DEF Commit
  <1>3. CASE CommitSkipped(n) \/ (CommitSaved /\ half.by = n)
    <2>1. SetCommit(n, c)
      BY <1>1, <1>3 DEF CommitSkipped, CommitSaved, SetCommit
    <2> HIDE DEF c
    <2> QED
      BY <1>2, <2>1, SetCommitStep
  <1>4. CASE (\E fee \in BOOLEAN : RequestCommitAction(n, fee)) \/ WithdrawCommits(n)
    <2>1. PICK fee \in BOOLEAN : task' = [task EXCEPT ![n] = CommitTasked(n, fee, @)]
      BY <1>4 DEF RequestCommitAction, WithdrawCommits
    <2> QED
      BY <2>1, CommitTaskedStep
  <1> QED
    BY <1>3, <1>4

\* The party that agreed to a commit has a task to execute it.
LEMMA AgreedTask ==
  ASSUME Typed, Sync, NEW n \in Sides, CommitAgreed(n)
  PROVE  task' \in [Sides -> Tasks] /\ ExternalKept /\ CloseKept /\ DepositKept
  <1> DEFINE m == Other(n)
             d == AfterCommit(db[m], n, task[n].commit.fee)
             a == IF task[n].commit.fee THEN m ELSE n
             pay == [s \in Sides |-> d.owe[s].com]
             c == [st |-> "todo", seq |-> d.seq, at |-> a, pay |-> pay]
  <1>1. m \in Sides /\ a \in Sides
    BY OtherSide
  <1>2. d \in Record
    BY <1>1, CommitAgreedDb
  <1>3. task \in [Sides -> Tasks]
    BY TaskTypes
  <1>4. SetExecute(m, c)
    BY <1>3, <1>1 DEF CommitAgreed, SetExecute
  <1> HIDE DEF d, a, m
  <1>5. pay \in [Sides -> Int]
    BY <1>2 DEF Record, Debt
  <1>6. d.seq \in Nat
    BY <1>2 DEF Record
  <1> HIDE DEF pay
  <1>7. c \in Execute
    BY <1>1, <1>5, <1>6 DEF Execute
  <1> HIDE DEF c
  <1> QED
    BY <1>1, <1>4, <1>7, SetExecuteStep

\* commit-execute ends, or goes on.
LEMMA ExecuteTask ==
  ASSUME Typed, NEW n \in Sides, CommitExecute(n)
  PROVE  task' \in [Sides -> Tasks] /\ ExternalKept /\ CloseKept /\ DepositKept
  <1> DEFINE c == [task[n].execute EXCEPT !.st = "done"]
  <1>1. task \in [Sides -> Tasks] /\ task[n] \in Tasks /\ task[n].execute \in Execute
    BY TaskTypes
  <1>2. c \in Execute
    BY <1>1 DEF Execute
  <1>3. UNCHANGED task \/ SetExecute(n, c)
    BY <1>1 DEF CommitExecute, SetExecute
  <1> HIDE DEF c
  <1> QED
    BY <1>2, <1>3, TaskKept, SetExecuteStep

\* The steps that write the withdrawal task.
LEMMA WithdrawTasks ==
  ASSUME Typed, NEW n \in Sides,
         \/ \E amt \in Withdrawals : RequestWithdraw(n, amt)
         \/ WithdrawSkipped(n) \/ WithdrawSaved(n) \/ WithdrawFailed(n) \/ WithdrawByOwner(n)
  PROVE  task' \in [Sides -> Tasks] /\ ExternalKept /\ CloseKept /\ DepositKept
  <1> DEFINE w == task[n].withdraw
  <1>1. task \in [Sides -> Tasks] /\ task[n] \in Tasks /\ w \in Withdraw
    BY TaskTypes
  <1>2. [w EXCEPT !.st = "done"] \in Withdraw /\ [w EXCEPT !.st = "todo"] \in Withdraw
    BY <1>1 DEF Withdraw
  <1>3. CASE WithdrawSkipped(n) \/ WithdrawSaved(n) \/ WithdrawFailed(n) \/ WithdrawByOwner(n)
    <2>1. SetWithdraw(n, [w EXCEPT !.st = "done"]) \/ SetWithdraw(n, [w EXCEPT !.st = "todo"])
      BY <1>1, <1>3 DEF WithdrawSkipped, WithdrawSaved, WithdrawFailed, WithdrawByOwner, SetWithdraw
    <2>2. PICK c \in Withdraw : SetWithdraw(n, c)
      BY <1>2, <2>1, Zenon
    <2> QED
      BY <2>2, SetWithdrawStep
  <1>4. ASSUME NEW amt \in Withdrawals, RequestWithdraw(n, amt)
        PROVE  task' \in [Sides -> Tasks] /\ ExternalKept /\ CloseKept /\ DepositKept
    <2> DEFINE c == [st |-> "todo", amt |-> amt, wseq |-> db[n].lw[n]]
    <2>1. db[n].lw[n] \in Nat
      BY Parts
    <2>2. c \in Withdraw
      BY <2>1 DEF Withdraw
    <2>3. SetWithdraw(n, c)
      BY <1>1, <1>4 DEF RequestWithdraw, SetWithdraw
    <2> HIDE DEF c
    <2> QED
      BY <2>2, <2>3, SetWithdrawStep
  <1> QED
    BY <1>3, <1>4

\* The steps of a deposit: begun, it is counted.
LEMMA DepositTasks ==
  ASSUME Typed, NEW n \in Sides, Topup(n) \/ ExecuteTopup(n) \/ DepositFetched(n) \/ DepositSaved(n)
  PROVE  /\ task' \in [Sides -> Tasks] /\ ExternalKept /\ CloseKept
         /\ task'[n].deposit \in Deposit /\ \A k \in Sides : k # n => task'[k] = task[k]
         /\ task'[n].deposit.count >= task[n].deposit.count
         /\ task'[n].deposit.st # "none" => task[n].deposit.st # "none" \/ task'[n].deposit.count > task[n].deposit.count
  <1> DEFINE p == task[n].deposit
  <1>1. task \in [Sides -> Tasks] /\ task[n] \in Tasks /\ p \in Deposit /\ p.count \in Nat
    BY TaskTypes DEF Deposit
  <1>2. ASSUME NEW c \in Deposit, SetDeposit(n, c), c.count >= p.count,
               c.st # "none" => p.st # "none" \/ c.count > p.count
        PROVE  /\ task' \in [Sides -> Tasks] /\ ExternalKept /\ CloseKept
               /\ task'[n].deposit \in Deposit /\ \A k \in Sides : k # n => task'[k] = task[k]
               /\ task'[n].deposit.count >= p.count
               /\ task'[n].deposit.st # "none" => p.st # "none" \/ task'[n].deposit.count > p.count
    <2>1. task' \in [Sides -> Tasks] /\ ExternalKept /\ CloseKept /\ task'[n].deposit = c
          /\ \A k \in Sides : k # n => task'[k] = task[k]
      BY <1>2, SetDepositStep
    <2> QED
      BY <2>1, <1>2
  <1>3. CASE Topup(n)
    <2> DEFINE c == [st |-> "todo", val |-> UpTo - Owned(db[n], n), count |-> p.count + 1]
    <2>1. Owned(db[n], n) \in Int
      <3>1. Other(n) \in Sides
        BY OtherSide
      <3>2. db[n].bal[n] \in Int /\ db[n].owe[n] \in Debt /\ db[n].owe[Other(n)] \in Debt
        BY <3>1, Parts
      <3>3. db[n].owe[n].amt - db[n].owe[n].com \in Int /\ db[n].owe[Other(n)].amt - db[n].owe[Other(n)].com \in Int
        BY <3>2 DEF Debt
      <3> QED
        BY <3>2, <3>3 DEF Owned, Uncommitted
    <2>2. SetDeposit(n, c)
      BY <1>1, <1>3 DEF Topup, SetDeposit
    <2>3. UpTo - Owned(db[n], n) \in Int
      BY <2>1
    <2>4. c \in Deposit /\ c.count = p.count + 1
      BY <2>3, <1>1 DEF Deposit
    <2> HIDE DEF c
    <2> QED
      BY <1>1, <1>2, <2>2, <2>4
  <1>4. CASE ExecuteTopup(n)
    <2>1. CASE Active(n)
      <3> DEFINE z == 0
                 c == [p EXCEPT !.st = "sent", !.val = z]
      <3>0. task' = [task EXCEPT ![n].deposit.st = "sent", ![n].deposit.val = z] /\ p.st = "todo" /\ z \in Int
        BY <1>4, <2>1 DEF ExecuteTopup
      <3> HIDE DEF z
      <3>1. SetDeposit(n, c)
        BY <1>1, <3>0 DEF SetDeposit
      <3>2. c \in Deposit /\ c.count = p.count
        <4> HIDE DEF p
        <4> QED
          BY <1>1, <3>0 DEF Deposit
      <3> HIDE DEF c
      <3> QED
        BY <1>1, <1>2, <3>0, <3>1, <3>2
    <2>2. CASE ~Active(n)
      <3> DEFINE c == [p EXCEPT !.st = "none"]
      <3>1. SetDeposit(n, c)
        BY <1>1, <1>4, <2>2 DEF ExecuteTopup, SetDeposit, Tasks, Deposit
      <3>2. c \in Deposit /\ c.count = p.count /\ c.st = "none"
        BY <1>1 DEF Deposit
      <3> HIDE DEF c
      <3> QED
        BY <1>1, <1>2, <3>1, <3>2
    <2> QED
      BY <2>1, <2>2
  <1>5. CASE DepositFetched(n)
    <2> DEFINE b == chain[n].bal
               c == [p EXCEPT !.st = "fetched", !.val = b]
    <2>0. task' = [task EXCEPT ![n].deposit.st = "fetched", ![n].deposit.val = b] /\ p.st = "sent"
      BY <1>5 DEF DepositFetched
    <2>2. b \in Int
      BY Parts
    <2> HIDE DEF b
    <2>1. SetDeposit(n, c)
      BY <1>1, <2>0 DEF SetDeposit
    <2>3. c \in Deposit /\ c.count = p.count
      <3> HIDE DEF p
      <3> QED
        BY <1>1, <2>2 DEF Deposit
    <2> HIDE DEF c
    <2> QED
      BY <1>1, <1>2, <2>0, <2>1, <2>3
  <1>6. CASE DepositSaved(n)
    <2> DEFINE z == 0
               c == [p EXCEPT !.st = "none", !.val = z]
    <2>0. task' = [task EXCEPT ![n].deposit.st = "none", ![n].deposit.val = z] /\ z \in Int
      BY <1>6 DEF DepositSaved
    <2> HIDE DEF z
    <2>1. SetDeposit(n, c)
      BY <1>1, <2>0 DEF SetDeposit
    <2>2. c \in Deposit /\ c.count = p.count /\ c.st = "none"
      <3> HIDE DEF p
      <3> QED
        BY <1>1, <2>0 DEF Deposit
    <2> HIDE DEF c
    <2> QED
      BY <1>1, <1>2, <2>1, <2>2
  <1> QED
    BY <1>3, <1>4, <1>5, <1>6

\* The steps of a close: only one of them signs.
LEMMA CloseTasks ==
  ASSUME Typed, NEW n \in Sides, RequestCooperativeClose(n) \/ CloseSkipped(n) \/ CloseSigned(n) \/ CloseExecuted(n)
  PROVE  /\ task' \in [Sides -> Tasks] /\ ExternalKept /\ DepositKept
         /\ \A k \in Sides : k # n => task'[k] = task[k]
         /\ ~CloseSigned(n) => task'[n].close.st # "signed"
  <1> DEFINE p == task[n].close
  <1>1. task \in [Sides -> Tasks] /\ task[n] \in Tasks /\ p \in Close
    BY TaskTypes
  <1>2. PICK st \in {"todo", "signed", "done"} :
          SetClose(n, [p EXCEPT !.st = st]) /\ (~CloseSigned(n) => st # "signed")
    BY <1>1 DEF RequestCooperativeClose, CloseSkipped, CloseSigned, CloseExecuted, SetClose
  <1> DEFINE c == [p EXCEPT !.st = st]
  <1>3. c \in Close /\ c.st = st
    BY <1>1 DEF Close
  <1>4. SetClose(n, c)
    BY <1>2
  <1> HIDE DEF c
  <1>5. /\ task' \in [Sides -> Tasks] /\ ExternalKept /\ DepositKept
        /\ task'[n].close = c /\ \A k \in Sides : k # n => task'[k] = task[k]
    BY <1>3, <1>4, SetCloseStep
  <1> QED
    BY <1>2, <1>3, <1>5

\* exec-tx-external ends, or goes on.
LEMMA ExternalTask ==
  ASSUME Typed, NEW n \in Sides, ExecuteExternal(n)
  PROVE  /\ task' \in [Sides -> Tasks] /\ CloseKept /\ DepositKept
         /\ ExternalKept \/ (/\ task'[n].external.st = "done" /\ UNCHANGED <<chain, ev>>
                             /\ \A k \in Sides : k # n => task'[k] = task[k])
  <1> DEFINE c == [task[n].external EXCEPT !.st = "done"]
  <1>1. task \in [Sides -> Tasks] /\ task[n] \in Tasks /\ task[n].external \in External
    BY TaskTypes
  <1>2. c \in External /\ c.st = "done"
    BY <1>1 DEF External
  <1>3. CASE UNCHANGED task
    BY <1>3, TaskKept
  <1>4. CASE SetExternal(n, c) /\ UNCHANGED <<chain, ev>>
    <2> HIDE DEF c
    <2> QED
      BY <1>2, <1>4, SetExternalStep
  <1>5. UNCHANGED task \/ (SetExternal(n, c) /\ UNCHANGED <<chain, ev>>)
    BY <1>1 DEF ExecuteExternal, SetExternal
  <1> QED
    BY <1>3, <1>4, <1>5

\* The party that signed a withdrawal has a task to execute it, and holds it back.
LEMMA SignedTask ==
  ASSUME Typed, NEW n \in Sides, WithdrawSigned(n), NEW p, p = Other(n), NEW q, q = task[n].withdraw.wseq
  PROVE  /\ task' \in [Sides -> Tasks] /\ CloseKept /\ DepositKept
         /\ q = db[p].lw[n]
         /\ \/ ExternalKept /\ UNCHANGED db
            \/ /\ task'[p].external.wseq = q /\ task'[n].external = task[n].external
               /\ Pending(db'[p], n, "wallet", q) /\ db[p].hold[n] = {}
  <1> DEFINE t == task[n].withdraw
             w == [t EXCEPT !.st = "asked"]
             x == [st |-> "todo", amt |-> t.amt, wseq |-> t.wseq]
             h == [kind |-> "wallet", id |-> t.wseq, amt |-> t.amt]
  <1>1. p \in Sides /\ p # n /\ \A k \in Sides : k = n \/ k = p
    BY OtherSide
  <1>2. task \in [Sides -> Tasks] /\ task[n] \in Tasks /\ task[p] \in Tasks /\ t \in Withdraw
    BY <1>1, TaskTypes
  <1>3. w \in Withdraw /\ x \in External /\ x.wseq = q
    BY <1>2 DEF Withdraw, External
  <1>4. q = db[p].lw[n]
    BY DEF WithdrawSigned
  <1>5. CASE UNCHANGED db /\ task' = [task EXCEPT ![n].withdraw.st = "asked"]
    <2>1. SetWithdraw(n, w)
      BY <1>2, <1>5 DEF SetWithdraw
    <2> HIDE DEF w
    <2> QED
      BY <1>3, <1>4, <1>5, <2>1, SetWithdrawStep
  <1>6. CASE /\ db[p].hold[n] = {} /\ db' = [db EXCEPT ![p].hold[n] = {h}]
             /\ task' = [task EXCEPT ![n].withdraw.st = "asked", ![p].external = x]
    <2> DEFINE tn == [task[n] EXCEPT !.withdraw = w]
               tp == [task[p] EXCEPT !.external = x]
    <2>1. DOMAIN task' = Sides /\ task'[n] = tn /\ task'[p] = tp /\ task' = [k \in Sides |-> task'[k]]
      BY <1>1, <1>2, <1>6
    <2> HIDE DEF w, x
    <2>2. tn \in Tasks /\ tn.external = task[n].external /\ tn.close = task[n].close /\ tn.deposit = task[n].deposit
      BY <1>2, <1>3 DEF Tasks
    <2>3. tp \in Tasks /\ tp.external = x /\ tp.close = task[p].close /\ tp.deposit = task[p].deposit
      BY <1>2, <1>3 DEF Tasks
    <2> HIDE DEF tn, tp
    <2>4. \A k \in Sides : task'[k] \in Tasks
      BY <1>1, <2>1, <2>2, <2>3
    <2>5. task' \in [Sides -> Tasks]
      BY <2>1, <2>4
    <2>6. CloseKept /\ DepositKept
      BY <1>1, <2>1, <2>2, <2>3 DEF CloseKept, DepositKept
    <2>7. task'[p].external.wseq = q /\ task'[n].external = task[n].external
      BY <1>3, <2>1, <2>2, <2>3
    <2>8. h.kind = "wallet" /\ h.id = q
      OBVIOUS
    <2>9. h \in db'[p].hold[n]
      <3> HIDE DEF h
      <3>1. db \in [Sides -> Record] /\ db[p] \in Record
        BY <1>1, Parts DEF Typed
      <3>2. db[p].hold \in [Sides -> SUBSET Hold]
        BY <3>1 DEF Record
      <3>3. db'[p].hold[n] = {h}
        BY <1>1, <1>6, <3>1, <3>2 DEF Record
      <3> QED
        BY <3>3
    <2>10. Pending(db'[p], n, "wallet", q)
      BY <2>8, <2>9 DEF Pending
    <2> QED
      BY <1>4, <1>6, <2>5, <2>6, <2>7, <2>10
  <1>7. \/ UNCHANGED db /\ task' = [task EXCEPT ![n].withdraw.st = "asked"]
        \/ /\ db[p].hold[n] = {} /\ db' = [db EXCEPT ![p].hold[n] = {h}]
           /\ task' = [task EXCEPT ![n].withdraw.st = "asked", ![p].external = x]
    BY DEF WithdrawSigned
  <1> QED
    BY <1>5, <1>6, <1>7

-----------------------------------------------------------------------------
(* Types.                                                                  *)

\* A queue that lost its head or grew at its end.
LEMMA EventQueue ==
  ASSUME Typed, NEW n \in Sides, NEW s \in Sides, ProcessEvent(n, s), NEW e, e = Head(ev[n][s])
  PROVE  /\ ev' \in [Sides -> [Sides -> Seq(Event)]] /\ ev'[n][s] = Tail(ev[n][s])
         /\ \A k, r \in Sides : k # n \/ r # s => ev'[k][r] = ev[k][r] /\ jobs'[k][r] = jobs[k][r]
         /\ jobs' \in [Sides -> [Sides -> Seq(Job)]]
         /\ jobs'[n][s] = IF e.open THEN jobs[n][s] \o Jobs(db[n], s, e) ELSE jobs[n][s]
         /\ Jobs(db[n], s, e) \in Seq(Job)
  <1>1. ev[n][s] \in Seq(Event) /\ ev[n][s] # <<>> /\ e \in Event /\ Tail(ev[n][s]) \in Seq(Event)
    <2>1. ev[n][s] \in Seq(Event) /\ ev[n][s] # <<>>
      BY Parts DEF ProcessEvent
    <2> QED
      BY <2>1
  <1>2. Jobs(db[n], s, e) \in Seq(Job)
    <2> DEFINE a == IF CommitDone(db[n], s, e) THEN <<[kind |-> "commit", id |-> e.cseq]>> ELSE <<>>
               b == IF WalletDone(db[n], s, e) THEN <<[kind |-> "wallet", id |-> db[n].lw[s]]>> ELSE <<>>
               c == IF CommitDone(db[n], s, e) \/ WalletDone(db[n], s, e) THEN <<>> ELSE <<[kind |-> "refresh", id |-> 0]>>
    <2>1. e.cseq \in Nat /\ db[n].lw[s] \in Nat
      BY <1>1, Parts DEF Event
    <2>2. [kind |-> "commit", id |-> e.cseq] \in Job /\ [kind |-> "wallet", id |-> db[n].lw[s]] \in Job
          /\ [kind |-> "refresh", id |-> 0] \in Job
      BY <2>1 DEF Job
    <2>3. a \in Seq(Job) /\ b \in Seq(Job) /\ c \in Seq(Job)
      BY <2>2
    <2>4. Jobs(db[n], s, e) = a \o b \o c
      BY DEF Jobs
    <2> HIDE DEF a, b, c
    <2>5. a \o b \in Seq(Job)
      BY <2>3
    <2>6. (a \o b) \o c \in Seq(Job)
      BY <2>3, <2>5
    <2> QED
      BY <2>4, <2>6
  <1>3. ev' = [ev EXCEPT ![n][s] = Tail(ev[n][s])] /\ ev \in [Sides -> [Sides -> Seq(Event)]]
    BY DEF ProcessEvent, Typed
  <1>4. /\ ev' \in [Sides -> [Sides -> Seq(Event)]] /\ ev'[n][s] = Tail(ev[n][s])
        /\ \A k, r \in Sides : k # n \/ r # s => ev'[k][r] = ev[k][r]
    BY <1>1, <1>3
  <1>5. jobs \in [Sides -> [Sides -> Seq(Job)]] /\ jobs[n][s] \in Seq(Job)
    BY Parts DEF Typed
  <1>6. CASE e.open
    <2> DEFINE J == jobs[n][s] \o Jobs(db[n], s, e)
    <2>1. jobs' = [jobs EXCEPT ![n][s] = J]
      BY <1>5, <1>6 DEF ProcessEvent
    <2>2. J \in Seq(Job)
      BY <1>2, <1>5
    <2> HIDE DEF J
    <2>3. /\ jobs' \in [Sides -> [Sides -> Seq(Job)]] /\ jobs'[n][s] = J
          /\ \A k, r \in Sides : k # n \/ r # s => jobs'[k][r] = jobs[k][r]
      BY <2>1, <2>2, <1>5
    <2> QED
      BY <1>2, <1>4, <1>6, <2>3 DEF J
  <1>7. CASE ~e.open
    <2>1. jobs' = jobs
      BY <1>7 DEF ProcessEvent
    <2> QED
      BY <1>2, <1>4, <1>5, <1>7, <2>1
  <1> QED
    BY <1>6, <1>7

\* A job that ran leaves the queue.
LEMMA JobQueue ==
  ASSUME Typed, NEW n \in Sides, NEW s \in Sides, RunJob(n, s)
  PROVE  /\ jobs' \in [Sides -> [Sides -> Seq(Job)]] /\ jobs'[n][s] = Tail(jobs[n][s])
         /\ \A k, r \in Sides : k # n \/ r # s => jobs'[k][r] = jobs[k][r]
  <1>1. jobs[n][s] \in Seq(Job) /\ jobs[n][s] # <<>>
    BY Parts DEF RunJob
  <1>2. Tail(jobs[n][s]) \in Seq(Job)
    BY <1>1
  <1>3. jobs \in [Sides -> [Sides -> Seq(Job)]] /\ jobs' = [jobs EXCEPT ![n][s] = Tail(jobs[n][s])]
    BY DEF RunJob, Typed
  <1> QED
    BY <1>2, <1>3

-----------------------------------------------------------------------------
(* The kinds of steps.                                                     *)

\* What most steps do to the tasks: they sign no withdrawal and no close, and
\* forget no deposit.
Tasked ==
    /\ task' \in [Sides -> Tasks]
    /\ \A k \in Sides :
          /\ task'[k].external.st = "todo" => task'[k].external = task[k].external
          /\ task'[k].close.st = "signed" => task[k].close.st = "signed"
          /\ task'[k].deposit.count >= task[k].deposit.count
          /\ task'[k].deposit.st # "none" =>
                task[k].deposit.st # "none" \/ task'[k].deposit.count > task[k].deposit.count

\* Only the tasks change.
Local == UNCHANGED <<chain, transit, ev, db, half, jobs>> /\ Tasked

\* The contracts change, and no close begins.
Tx ==
    /\ UNCHANGED <<db, half, jobs>> /\ Tasked /\ transit' \subseteq Message
    /\ Closing' => Closing
    /\ \E S : Transaction(S)

\* Everything else is a step on the records.
Recorded(n) ==
    \/ \E amt \in Payments : OpenConditional(n, amt)
    \/ \E paid \in BOOLEAN : CloseConditional(n, paid)
    \/ CommitAgreed(n) \/ (CommitSaved /\ half.by = n)
    \/ \E s \in Sides : ProcessEvent(n, s) \/ RunJob(n, s)
    \/ WithdrawSigned(n) \/ WithdrawSaved(n) \/ DepositSaved(n)
    \/ RequestCooperativeClose(n) \/ CloseSigned(n)

\* Tasks of which the three parts are the same.
LEMMA TaskedKept ==
  ASSUME Typed, task' \in [Sides -> Tasks], ExternalKept, CloseKept, DepositKept
  PROVE  Tasked
  <1>1. \A k \in Sides : task[k].deposit.count \in Nat
    BY TaskTypes DEF Deposit
  <1> QED
    BY <1>1 DEF Tasked, ExternalKept, CloseKept, DepositKept

\* Steps on the tasks of deposits, closes and signed withdrawals.
LEMMA TaskedParts ==
  ASSUME Typed, NEW n \in Sides,
         \/ Topup(n) \/ ExecuteTopup(n) \/ DepositFetched(n) \/ DepositSaved(n)
         \/ RequestCooperativeClose(n) \/ CloseSkipped(n) \/ CloseExecuted(n) \/ ExecuteExternal(n)
  PROVE  Tasked
  <1>1. \A k \in Sides : task[k].deposit.count \in Nat
    BY TaskTypes DEF Deposit
  <1>2. CASE Topup(n) \/ ExecuteTopup(n) \/ DepositFetched(n) \/ DepositSaved(n)
    <2>1. /\ task' \in [Sides -> Tasks] /\ ExternalKept /\ CloseKept
          /\ \A k \in Sides : k # n => task'[k] = task[k]
          /\ task'[n].deposit.count >= task[n].deposit.count
          /\ task'[n].deposit.st # "none" =>
                task[n].deposit.st # "none" \/ task'[n].deposit.count > task[n].deposit.count
      BY <1>2, DepositTasks
    <2> QED
      BY <1>1, <2>1 DEF Tasked, ExternalKept, CloseKept
  <1>3. CASE RequestCooperativeClose(n) \/ CloseSkipped(n) \/ CloseExecuted(n)
    <2>1. ~CloseSigned(n) \/ CloseSigned(n)
      OBVIOUS
    <2>2. CASE CloseSigned(n) /\ RequestCooperativeClose(n)
      BY <2>2 DEF CloseSigned, RequestCooperativeClose
    <2>3. CASE CloseSigned(n) /\ CloseSkipped(n)
      BY <2>3 DEF CloseSigned, CloseSkipped
    <2>4. CASE CloseSigned(n) /\ CloseExecuted(n)
      BY <2>4 DEF CloseSigned, CloseExecuted
    <2>5. CASE ~CloseSigned(n)
      <3>1. /\ task' \in [Sides -> Tasks] /\ ExternalKept /\ DepositKept
            /\ \A k \in Sides : k # n => task'[k] = task[k]
            /\ task'[n].close.st # "signed"
        BY <1>3, <2>5, CloseTasks
      <3> QED
        BY <1>1, <3>1 DEF Tasked, ExternalKept, DepositKept
    <2> QED
      BY <1>3, <2>2, <2>3, <2>4, <2>5
  <1>4. CASE ExecuteExternal(n)
    <2>1. /\ task' \in [Sides -> Tasks] /\ CloseKept /\ DepositKept
          /\ ExternalKept \/ (task'[n].external.st = "done" /\ \A k \in Sides : k # n => task'[k] = task[k])
      BY <1>4, ExternalTask
    <2> QED
      BY <1>1, <2>1 DEF Tasked, ExternalKept, CloseKept, DepositKept
  <1> QED
    BY <1>2, <1>3, <1>4

\* A transaction that closes nothing and sends no new close.
LEMMA NotClosing ==
  ASSUME Tasked, NEW x, x => Closing,
         \A k \in Sides : ~chain'[k].open => ~chain[k].open \/ x,
         \A m \in transit' : m.close => m \in transit \/ x
  PROVE  Closing' => Closing
  <1>1. \A k \in Sides : task'[k].close.st = "signed" => task[k].close.st = "signed"
    BY DEF Tasked
  <1>2. CASE \E k \in Sides : task'[k].close.st = "signed"
    BY <1>1, <1>2 DEF Closing
  <1>3. CASE \E m \in transit' : m.close
    BY <1>3 DEF Closing
  <1>4. CASE \E k \in Sides : ~chain'[k].open
    BY <1>4 DEF Closing
  <1> QED
    BY <1>2, <1>3, <1>4 DEF Closing

\* Every step is of one of the kinds.
LEMMA Kinds ==
  ASSUME Typed, Next
  PROVE  Local \/ Tx \/ \E n \in Sides : Recorded(n)
  <1>1. CASE Deliver
    <2>1. PICK m \in transit :
          /\ Transaction({m.to})
          /\ \A k \in Sides : ~chain'[k].open => ~chain[k].open \/ m.close
          /\ transit' \subseteq Message
          /\ \A x \in transit' : x.close => x \in transit \/ m.close
      BY <1>1, DeliverStep
    <2>2. UNCHANGED <<db, half, jobs, task>>
      BY <1>1 DEF Deliver
    <2>3. Tasked
      BY <2>2, TaskKept, TaskedKept
    <2>4. m.close => Closing
      BY DEF Closing
    <2>5. Closing' => Closing
      BY <2>1, <2>3, <2>4, NotClosing
    <2> QED
      BY <2>1, <2>2, <2>3, <2>5 DEF Tx
  <1>2. CASE CommitSaved
    <2>1. half.by \in Sides
      BY <1>2 DEF Typed, CommitSaved, Sides
    <2> QED
      BY <1>2, <2>1 DEF Recorded
  <1>3. ASSUME NEW n \in Sides, NodeStep(n)
        PROVE  Local \/ Tx \/ Recorded(n)
    <2>1. CASE \/ \E fee \in BOOLEAN : RequestCommitAction(n, fee)
               \/ CommitSkipped(n) \/ WithdrawCommits(n)
      <3>1. Tasked
        BY <2>1, CommitSteps, TaskedKept
      <3>2. UNCHANGED <<chain, transit, ev, db, half, jobs>>
        BY <2>1 DEF RequestCommitAction, CommitSkipped, WithdrawCommits
      <3> QED
        BY <3>1, <3>2 DEF Local
    <2>2. CASE CommitExecute(n)
      <3>1. Tasked
        BY <2>2, ExecuteTask, TaskedKept
      <3>2. CASE UNCHANGED <<chain, transit, ev>>
        BY <2>2, <3>1, <3>2 DEF Local, CommitExecute
      <3>3. CASE CommitTx(task[n].execute.at, task[n].execute.seq, task[n].execute.pay)
        <4>1. /\ task[n].execute.at \in Sides /\ task[n].execute.seq \in Nat
              /\ task[n].execute.pay \in [Sides -> Int]
          BY TaskTypes DEF Execute
        <4>2. /\ Transaction({task[n].execute.at})
              /\ \A k \in Sides : chain'[k].open = chain[k].open
              /\ transit' \subseteq Message
              /\ \A m \in transit' : m.close => m \in transit
          BY <3>3, <4>1, CommitTxStep
        <4>3. Closing' => Closing
          <5> DEFINE x == FALSE
          <5>1. x => Closing
            OBVIOUS
          <5>2. \A k \in Sides : ~chain'[k].open => ~chain[k].open \/ x
            BY <4>2
          <5>3. \A m \in transit' : m.close => m \in transit \/ x
            BY <4>2
          <5> HIDE DEF x
          <5> QED
            BY <3>1, <5>1, <5>2, <5>3, NotClosing
        <4>4. UNCHANGED <<db, half, jobs>>
          BY <2>2 DEF CommitExecute
        <4> QED
          BY <3>1, <4>2, <4>3, <4>4 DEF Tx
      <3> QED
        BY <2>2, <3>2, <3>3 DEF CommitExecute
    <2>3. CASE \/ \E amt \in Withdrawals : RequestWithdraw(n, amt)
               \/ WithdrawSkipped(n) \/ WithdrawFailed(n)
      <3>1. Tasked
        BY <2>3, WithdrawTasks, TaskedKept
      <3>2. UNCHANGED <<chain, transit, ev, db, half, jobs>>
        BY <2>3 DEF RequestWithdraw, WithdrawSkipped, WithdrawFailed
      <3> QED
        BY <3>1, <3>2 DEF Local
    <2>4. CASE WithdrawByOwner(n)
      <3>1. Tasked
        BY <2>4, WithdrawTasks, TaskedKept
      <3>2. Transaction({n}) /\ \A k \in Sides : chain'[k].open = chain[k].open
        BY <2>4, OwnerStep
      <3>3. UNCHANGED <<transit, db, half, jobs>>
        BY <2>4 DEF WithdrawByOwner
      <3>4. Closing' => Closing
        <4> DEFINE x == FALSE
        <4>1. x => Closing
          OBVIOUS
        <4>2. \A k \in Sides : ~chain'[k].open => ~chain[k].open \/ x
          BY <3>2
        <4>3. \A m \in transit' : m.close => m \in transit \/ x
          BY <3>3
        <4> HIDE DEF x
        <4> QED
          BY <3>1, <4>1, <4>2, <4>3, NotClosing
      <3> QED
        BY <3>1, <3>2, <3>3, <3>4 DEF Tx, Typed
    <2>5. CASE ExecuteExternal(n)
      <3>1. Tasked
        BY <2>5, TaskedParts
      <3>2. UNCHANGED <<transit, db, half, jobs>>
        BY <2>5 DEF ExecuteExternal
      <3>3. CASE UNCHANGED <<chain, ev>>
        BY <3>1, <3>2, <3>3 DEF Local
      <3>4. CASE ~UNCHANGED <<chain, ev>>
        <4>1. Transaction({Other(n)}) /\ \A k \in Sides : chain'[k].open = chain[k].open
          BY <2>5, <3>4, ExternalStep
        <4>2. Closing' => Closing
          <5> DEFINE x == FALSE
          <5>1. x => Closing
            OBVIOUS
          <5>2. \A k \in Sides : ~chain'[k].open => ~chain[k].open \/ x
            BY <4>1
          <5>3. \A m \in transit' : m.close => m \in transit \/ x
            BY <3>2
          <5> HIDE DEF x
          <5> QED
            BY <3>1, <5>1, <5>2, <5>3, NotClosing
        <4> QED
          BY <3>1, <3>2, <4>1, <4>2 DEF Tx, Typed
      <3> QED
        BY <3>3, <3>4
    <2>6. CASE Topup(n) \/ DepositFetched(n) \/ CloseSkipped(n)
      <3>1. Tasked
        BY <2>6, TaskedParts
      <3>2. UNCHANGED <<chain, transit, ev, db, half, jobs>>
        BY <2>6 DEF Topup, DepositFetched, CloseSkipped
      <3> QED
        BY <3>1, <3>2 DEF Local
    <2>7. CASE ExecuteTopup(n)
      <3>1. Tasked
        BY <2>7, TaskedParts
      <3>2. UNCHANGED <<transit, db, half, jobs>>
        BY <2>7 DEF ExecuteTopup
      <3>3. CASE UNCHANGED <<chain, ev>>
        BY <3>1, <3>2, <3>3 DEF Local
      <3>4. CASE ~UNCHANGED <<chain, ev>>
        <4>1. Transaction({n}) /\ \A k \in Sides : chain'[k].open = chain[k].open
          BY <2>7, <3>4, TopupStep
        <4>2. Closing' => Closing
          <5> DEFINE x == FALSE
          <5>1. x => Closing
            OBVIOUS
          <5>2. \A k \in Sides : ~chain'[k].open => ~chain[k].open \/ x
            BY <4>1
          <5>3. \A m \in transit' : m.close => m \in transit \/ x
            BY <3>2
          <5> HIDE DEF x
          <5> QED
            BY <3>1, <5>1, <5>2, <5>3, NotClosing
        <4> QED
          BY <3>1, <3>2, <4>1, <4>2 DEF Tx, Typed
      <3> QED
        BY <3>3, <3>4
    <2>8. CASE CloseExecuted(n)
      <3>1. Tasked
        BY <2>8, TaskedParts
      <3>2. UNCHANGED <<db, half, jobs>> /\ Closing
        BY <2>8 DEF CloseExecuted, Closing
      <3>3. CASE UNCHANGED <<chain, transit, ev>>
        BY <3>1, <3>2, <3>3 DEF Local
      <3>4. CASE ~UNCHANGED <<chain, transit, ev>>
        <4>1. Transaction({n}) /\ transit' \subseteq Message
          BY <2>8, <3>4, CloseExecutedStep
        <4> QED
          BY <3>1, <3>2, <4>1 DEF Tx
      <3> QED
        BY <3>3, <3>4
    <2> QED
      BY <1>3, <2>1, <2>2, <2>3, <2>4, <2>5, <2>6, <2>7, <2>8 DEF NodeStep, Recorded
  <1> QED
    BY <1>1, <1>2, <1>3 DEF Next

\* What the steps on the records leave alone.
LEMMA RecordedFrame ==
  ASSUME NEW n \in Sides, Recorded(n)
  PROVE  /\ UNCHANGED <<chain, transit>>
         /\ (\A s \in Sides : ~ProcessEvent(n, s)) => UNCHANGED ev
         /\ (\A s \in Sides : ~ProcessEvent(n, s) /\ ~RunJob(n, s)) => UNCHANGED jobs
         /\ ~CommitAgreed(n) /\ ~CommitSaved => UNCHANGED half
  <1>1. CASE \E amt \in Payments : OpenConditional(n, amt)
    BY <1>1 DEF OpenConditional
  <1>2. CASE \E paid \in BOOLEAN : CloseConditional(n, paid)
    BY <1>2 DEF CloseConditional
  <1>3. CASE CommitAgreed(n)
    BY <1>3 DEF CommitAgreed
  <1>4. CASE CommitSaved
    BY <1>4 DEF CommitSaved
  <1>5. CASE \E s \in Sides : ProcessEvent(n, s)
    BY <1>5 DEF ProcessEvent
  <1>6. CASE \E s \in Sides : RunJob(n, s)
    BY <1>6 DEF RunJob
  <1>7. CASE WithdrawSigned(n)
    BY <1>7 DEF WithdrawSigned
  <1>8. CASE WithdrawSaved(n)
    BY <1>8 DEF WithdrawSaved
  <1>9. CASE DepositSaved(n)
    BY <1>9 DEF DepositSaved
  <1>10. CASE RequestCooperativeClose(n)
    BY <1>10 DEF RequestCooperativeClose
  <1>11. CASE CloseSigned(n)
    BY <1>11 DEF CloseSigned
  <1> QED
    BY <1>1, <1>2, <1>3, <1>4, <1>5, <1>6, <1>7, <1>8, <1>9, <1>10, <1>11 DEF Recorded

\* What a step on the records does to the tasks: unless it signs, nothing but
\* what Tasked allows.
LEMMA RecordedTasks ==
  ASSUME Typed, Sync, NEW n \in Sides, Recorded(n)
  PROVE  /\ task' \in [Sides -> Tasks]
         /\ ~WithdrawSigned(n) /\ ~CloseSigned(n) => Tasked
         /\ \A k \in Sides : /\ task'[k].deposit.count >= task[k].deposit.count
                             /\ task'[k].deposit.st # "none" =>
                                   task[k].deposit.st # "none" \/ task'[k].deposit.count > task[k].deposit.count
  <1>0. \A k \in Sides : task[k].deposit.count \in Nat
    BY TaskTypes DEF Deposit
  <1>1. CASE \/ \E amt \in Payments : OpenConditional(n, amt)
             \/ \E paid \in BOOLEAN : CloseConditional(n, paid)
             \/ \E s \in Sides : ProcessEvent(n, s) \/ RunJob(n, s)
    <2>1. UNCHANGED task
      BY <1>1 DEF OpenConditional, CloseConditional, ProcessEvent, RunJob
    <2>2. Tasked
      BY <2>1, TaskKept, TaskedKept
    <2> QED
      BY <2>2 DEF Tasked
  <1>2. CASE CommitAgreed(n)
    <2>1. Tasked
      BY <1>2, AgreedTask, TaskedKept
    <2> QED
      BY <2>1 DEF Tasked
  <1>3. CASE CommitSaved /\ half.by = n
    <2>1. Tasked
      BY <1>3, CommitSteps, TaskedKept
    <2> QED
      BY <2>1 DEF Tasked
  <1>4. CASE WithdrawSigned(n)
    <2> DEFINE p == Other(n)
               q == task[n].withdraw.wseq
    <2>1. p = Other(n) /\ q = task[n].withdraw.wseq
      OBVIOUS
    <2> HIDE DEF p, q
    <2>2. task' \in [Sides -> Tasks] /\ DepositKept
      BY <1>4, <2>1, SignedTask
    <2>3. WithdrawSigned(n)
      BY <1>4
    <2> QED
      BY <1>0, <2>2, <2>3 DEF DepositKept
  <1>5. CASE WithdrawSaved(n)
    <2>1. Tasked
      BY <1>5, WithdrawTasks, TaskedKept
    <2> QED
      BY <2>1 DEF Tasked
  <1>6. CASE DepositSaved(n) \/ RequestCooperativeClose(n)
    <2>1. Tasked
      BY <1>6, TaskedParts
    <2> QED
      BY <2>1 DEF Tasked
  <1>7. CASE CloseSigned(n)
    <2>2. task' \in [Sides -> Tasks] /\ DepositKept
      BY <1>7, CloseTasks
    <2> QED
      BY <1>0, <1>7, <2>2 DEF DepositKept
  <1> QED
    BY <1>1, <1>2, <1>3, <1>4, <1>5, <1>6, <1>7 DEF Recorded

\* The records stay typed, and of which steps they keep which parts.
LEMMA RecordedDb ==
  ASSUME Typed, Sync, NEW n \in Sides, Recorded(n)
  PROVE  /\ db' \in [Sides -> Record]
         /\ \A k \in Sides : (db'[k].acc => db[k].acc) /\ (db'[k].status = "active" => db[k].status = "active")
         /\ (\A s \in Sides : ~ProcessEvent(n, s)) => SeenKept
         /\ (\A s \in Sides : ~RunJob(n, s)) /\ ~DepositSaved(n) => BalKept
         /\ (\A s \in Sides : ~RunJob(n, s)) /\ ~CommitAgreed(n) /\ ~CommitSaved =>
               \A k, s \in Sides : db[k].hold[s] \subseteq db'[k].hold[s]
         /\ \/ StateKept \/ CommitAgreed(n) \/ (CommitSaved /\ half.by = n)
            \/ \E amt \in Payments : OpenConditional(n, amt)
            \/ \E paid \in BOOLEAN : CloseConditional(n, paid)
  <1>1. CASE \E amt \in Payments : OpenConditional(n, amt)
    <2>1. PICK amt \in Payments : OpenConditional(n, amt)
      BY <1>1
    <2>2. db' \in [Sides -> Record] /\ HoldKept /\ SeenKept /\ BalKept /\ AccKept
      BY <2>1, OpenDb
    <2> QED
      BY <1>1, <2>2 DEF HoldKept, AccKept
  <1>2. CASE \E paid \in BOOLEAN : CloseConditional(n, paid)
    <2>1. PICK paid \in BOOLEAN : CloseConditional(n, paid)
      BY <1>2
    <2>2. db' \in [Sides -> Record] /\ HoldKept /\ SeenKept /\ BalKept /\ AccKept
      BY <2>1, CloseDb
    <2> QED
      BY <1>2, <2>2 DEF HoldKept, AccKept
  <1>3. CASE CommitAgreed(n)
    <2>1. db' \in [Sides -> Record] /\ SeenKept /\ BalKept /\ AccKept
      BY <1>3, CommitAgreedDb
    <2> QED
      BY <1>3, <2>1 DEF AccKept
  <1>4. CASE CommitSaved /\ half.by = n
    <2>1. db' \in [Sides -> Record] /\ SeenKept /\ BalKept /\ AccKept
      BY <1>4, CommitSavedDb
    <2> QED
      BY <1>4, <2>1 DEF AccKept
  <1>5. CASE \E s \in Sides : ProcessEvent(n, s)
    <2>1. PICK s \in Sides : ProcessEvent(n, s)
      BY <1>5
    <2>2. /\ db' \in [Sides -> Record] /\ StateKept /\ HoldKept /\ BalKept
          /\ \A k \in Sides : (db'[k].acc => db[k].acc) /\ (db'[k].status = "active" => db[k].status = "active")
      BY <2>1, ProcessDb
    <2> QED
      BY <1>5, <2>2 DEF HoldKept
  <1>6. CASE \E s \in Sides : RunJob(n, s)
    <2>1. PICK s \in Sides : RunJob(n, s)
      BY <1>6
    <2>2. db' \in [Sides -> Record] /\ StateKept /\ SeenKept /\ AccKept
      BY <2>1, RunJobDb
    <2> QED
      BY <1>6, <2>2 DEF AccKept
  <1>7. CASE WithdrawSigned(n) \/ WithdrawSaved(n)
    <2>1. /\ db' \in [Sides -> Record] /\ StateKept /\ SeenKept /\ BalKept /\ AccKept
          /\ \A k, s \in Sides : db[k].hold[s] \subseteq db'[k].hold[s]
      BY <1>7, WithdrawDb
    <2> QED
      BY <2>1 DEF AccKept
  <1>8. CASE DepositSaved(n)
    <2>1. db' \in [Sides -> Record] /\ StateKept /\ SeenKept /\ HoldKept /\ AccKept
      BY <1>8, DepositSavedDb
    <2> QED
      BY <1>8, <2>1 DEF AccKept, HoldKept
  <1>9. CASE RequestCooperativeClose(n) \/ CloseSigned(n)
    <2>1. /\ db' \in [Sides -> Record] /\ StateKept /\ SeenKept /\ HoldKept /\ BalKept
          /\ \A k \in Sides : (db'[k].acc => db[k].acc) /\ db'[k].status = db[k].status
      BY <1>9, CloseDbs
    <2> QED
      BY <2>1 DEF HoldKept
  <1> QED
    BY <1>1, <1>2, <1>3, <1>4, <1>5, <1>6, <1>7, <1>8, <1>9 DEF Recorded

\* The types are preserved.
LEMMA TypedStep ==
  ASSUME Typed, Sync, Next
  PROVE  Typed'
  <1>1. CASE Local
    BY <1>1 DEF Local, Tasked, Typed, NoHalf
  <1>2. CASE Tx
    BY <1>2 DEF Tx, Tasked, Transaction, Typed, NoHalf
  <1>3. ASSUME NEW n \in Sides, Recorded(n) PROVE Typed'
    <2>1. chain' = chain /\ transit' = transit
      BY <1>3, RecordedFrame
    <2>2. task' \in [Sides -> Tasks]
      BY <1>3, RecordedTasks
    <2>3. db' \in [Sides -> Record]
      BY <1>3, RecordedDb
    <2>4. ev' \in [Sides -> [Sides -> Seq(Event)]]
      <3>1. CASE \E s \in Sides : ProcessEvent(n, s)
        <4>1. PICK s \in Sides : ProcessEvent(n, s)
          BY <3>1
        <4> DEFINE e == Head(ev[n][s])
        <4>2. e = Head(ev[n][s])
          OBVIOUS
        <4> HIDE DEF e
        <4> QED
          BY <4>1, <4>2, EventQueue
      <3>2. CASE \A s \in Sides : ~ProcessEvent(n, s)
        BY <1>3, <3>2, RecordedFrame DEF Typed
      <3> QED
        BY <3>1, <3>2
    <2>5. jobs' \in [Sides -> [Sides -> Seq(Job)]]
      <3>1. CASE \E s \in Sides : ProcessEvent(n, s)
        <4>1. PICK s \in Sides : ProcessEvent(n, s)
          BY <3>1
        <4> DEFINE e == Head(ev[n][s])
        <4>2. e = Head(ev[n][s])
          OBVIOUS
        <4> HIDE DEF e
        <4> QED
          BY <4>1, <4>2, EventQueue
      <3>2. CASE \E s \in Sides : RunJob(n, s)
        BY <3>2, JobQueue
      <3>3. CASE \A s \in Sides : ~ProcessEvent(n, s) /\ ~RunJob(n, s)
        BY <1>3, <3>3, RecordedFrame DEF Typed
      <3> QED
        BY <3>1, <3>2, <3>3
    <2>6. half' \in [by : 0..2, fee : BOOLEAN] /\ (half'.by = 0 => half' = NoHalf)
      <3>1. CASE CommitAgreed(n)
        <4>1. task[n].commit.fee \in BOOLEAN
          BY <3>1, CommitAgreedDb
        <4>2. half' = [by |-> n, fee |-> task[n].commit.fee]
          BY <3>1 DEF CommitAgreed
        <4> QED
          BY <4>1, <4>2 DEF Sides
      <3>2. CASE CommitSaved
        BY <3>2 DEF CommitSaved, NoHalf
      <3>3. CASE ~CommitAgreed(n) /\ ~CommitSaved
        BY <1>3, <3>3, RecordedFrame DEF Typed, NoHalf
      <3> QED
        BY <3>1, <3>2, <3>3
    <2> QED
      BY <2>1, <2>2, <2>3, <2>4, <2>5, <2>6 DEF Typed, NoHalf
  <1> QED
    BY <1>1, <1>2, <1>3, Kinds

-----------------------------------------------------------------------------
(* The signed state.                                                       *)

\* Two records with the same debts for both sides have the same debts.
LEMMA SameDebts ==
  ASSUME NEW d \in Record, NEW e \in Record, \A s \in Sides : d.owe[s] = e.owe[s]
  PROVE  d.owe = e.owe
  <1>1. d.owe \in [Sides -> Debt] /\ e.owe \in [Sides -> Debt]
    BY DEF Record
  <1> QED
    BY <1>1

\* Steps that leave the states of both nodes alone.
LEMMA SyncKept ==
  ASSUME Sync, Owes, StateKept, UNCHANGED half
  PROVE  Sync' /\ Owes'
  <1>1. 1 \in Sides /\ 2 \in Sides
    BY DEF Sides
  <1>2. Sync'
    BY <1>1, OtherSide DEF Sync, StateKept, NoHalf
  <1>3. Owes'
    BY DEF Owes, StateKept
  <1> QED
    BY <1>2, <1>3

\* A conditional is opened or closed in both states at once.
LEMMA SyncPay ==
  ASSUME Typed, Sync, Owes, NEW n \in Sides,
         \/ \E amt \in Payments : OpenConditional(n, amt)
         \/ \E paid \in BOOLEAN : CloseConditional(n, paid)
  PROVE  Sync' /\ Owes'
  <1>1. 1 \in Sides /\ 2 \in Sides
    BY DEF Sides
  <1>2. half = NoHalf /\ UNCHANGED half
    BY DEF OpenConditional, CloseConditional, MayPropose
  <1>3. db[1].seq = db[2].seq /\ db[1].owe = db[2].owe /\ db[1].lock = db[2].lock
    BY <1>2 DEF Sync
  <1>4. \A k, s \in Sides : db[k].owe[s].amt \in Int /\ db[k].owe[s].com \in Int
    BY Parts DEF Debt
  <1>5. /\ db'[1].seq = db'[2].seq /\ db'[1].owe = db'[2].owe /\ db'[1].lock = db'[2].lock
        /\ \A k, s \in Sides : /\ db'[k].owe[s].com = db[k].owe[s].com
                               /\ db'[k].owe[s].amt \in Int /\ db'[k].owe[s].amt >= db[k].owe[s].amt
    <2>1. CASE \E amt \in Payments : OpenConditional(n, amt)
      <3>1. PICK amt \in Payments : OpenConditional(n, amt)
        BY <2>1
      <3>2. \A k \in Sides : /\ db'[k].seq = db[k].seq + 1 /\ db'[k].owe = db[k].owe
                             /\ db'[k].lock = [db[k].lock EXCEPT ![n] = @ + amt]
        BY <3>1, OpenDb
      <3>3. db'[1].seq = db'[2].seq /\ db'[1].owe = db'[2].owe
        BY <1>1, <1>3, <3>2, ZenonT(30)
      <3>6. /\ db'[1].lock = [db[1].lock EXCEPT ![n] = @ + amt]
            /\ db'[2].lock = [db[2].lock EXCEPT ![n] = @ + amt]
        BY <1>1, <3>2, Zenon
      <3>4. db'[1].lock = db'[2].lock
        BY <1>3, <3>6
      <3>5. \A k, s \in Sides : db'[k].owe[s] = db[k].owe[s]
        BY <3>2
      <3> QED
        BY <1>4, <3>3, <3>4, <3>5
    <2>2. CASE \E paid \in BOOLEAN : CloseConditional(n, paid)
      <3>1. PICK paid \in BOOLEAN : CloseConditional(n, paid)
        BY <2>2
      <3>2. /\ db' \in [Sides -> Record]
            /\ \A k \in Sides :
               /\ db'[k].seq = db[k].seq + 1
               /\ db'[k].lock = [db[k].lock EXCEPT ![Other(n)] = 0]
               /\ \A s \in Sides : /\ db'[k].owe[s].com = db[k].owe[s].com
                                   /\ db'[k].owe[s].amt >= db[k].owe[s].amt
            /\ db'[1].owe = db'[2].owe
        BY <3>1, CloseDb
      <3>3. \A k, s \in Sides : db'[k].owe[s].amt \in Int
        BY <3>2 DEF Record, Debt
      <3>7. /\ db'[1].seq = db[1].seq + 1 /\ db'[1].lock = [db[1].lock EXCEPT ![Other(n)] = 0]
            /\ db'[2].seq = db[2].seq + 1 /\ db'[2].lock = [db[2].lock EXCEPT ![Other(n)] = 0]
        BY <1>1, <3>2, Zenon
      <3>4. db'[1].seq = db'[2].seq
        BY <1>3, <3>7
      <3>5. db'[1].lock = db'[2].lock
        BY <1>3, <3>7
      <3>6. \A k, s \in Sides : db'[k].owe[s].com = db[k].owe[s].com /\ db'[k].owe[s].amt >= db[k].owe[s].amt
        BY <3>2
      <3> QED
        BY <3>2, <3>3, <3>4, <3>5, <3>6
    <2> QED
      BY <2>1, <2>2
  <1>6. half'.by = 0
    BY <1>2 DEF NoHalf
  <1>7. Sync'
    BY <1>5, <1>6 DEF Sync, Sides
  <1>8. Owes'
    BY <1>4, <1>5 DEF Owes
  <1> QED
    BY <1>7, <1>8

\* The debts that a commit writes: all of them is committed.
LEMMA OwesCommitted ==
  ASSUME NEW o \in Debt, o.com <= o.amt, NEW q \in Nat, NEW f \in Nat, NEW c, c = Committed(o, q, f)
  PROVE  0 <= c.com /\ c.com <= c.amt
  <1>0. f \in Int
    OBVIOUS
  <1>1. c.com = o.amt + f - o.com /\ c.amt = o.amt + f - o.com
    BY <1>0, CommittedDebt
  <1>2. o.amt \in Int /\ o.com \in Int
    BY DEF Debt
  <1> QED
    BY <1>1, <1>2

\* The party agrees to a commit: it is one state ahead.
LEMMA SyncAgreed ==
  ASSUME Typed, Sync, Owes, NEW n \in Sides, CommitAgreed(n)
  PROVE  Sync' /\ Owes'
  <1> DEFINE m == Other(n)
             fee == task[n].commit.fee
  <1>1. m \in Sides /\ m # n /\ (\A k \in Sides : k = n \/ k = m) /\ Other(n) = m /\ Other(m) = n
    BY OtherSide
  <1>2. half = NoHalf /\ half' = [by |-> n, fee |-> fee]
    BY DEF CommitAgreed, MayPropose
  <1>3. db[m].seq = db[n].seq /\ db[m].owe = db[n].owe /\ db[m].lock = db[n].lock
    BY <1>1, <1>2 DEF Sync, Sides
  <1>4. /\ db'[n] = db[n] /\ db'[m] = AfterCommit(db[m], n, fee)
        /\ db[m].seq < MaxSeq /\ db[m] \in Record
    BY <1>1, CommitAgreedDb, Parts
  <1> HIDE DEF m, fee
  <1>5. /\ db'[m].seq = db[m].seq + 1 /\ db'[m].lock = db[m].lock
        /\ \A s \in Sides : db'[m].owe[s] = Committed(db[m].owe[s], db[m].seq + 1, FeeOf(n, fee, s))
    BY <1>4, AfterCommitParts
  <1>6. half'.by = n /\ half'.fee = fee /\ n # 0 /\ m # 0
    BY <1>1, <1>2 DEF Sides
  <1>7. half' # NoHalf
    BY <1>6 DEF NoHalf
  <1>8. Sync'
    <2>1. half' = NoHalf => db'[1].seq = db'[2].seq /\ db'[1].owe = db'[2].owe /\ db'[1].lock = db'[2].lock
      BY <1>7
    <2>2. ASSUME NEW k \in Sides, half'.by = k
          PROVE  /\ db'[Other(k)].seq = db'[k].seq + 1 /\ db'[Other(k)].lock = db'[k].lock
                 /\ \A s \in Sides :
                       db'[Other(k)].owe[s] = Committed(db'[k].owe[s], db'[k].seq + 1, FeeOf(k, half'.fee, s))
      <3>1. k = n /\ Other(k) = m
        BY <1>1, <1>6, <2>2
      <3> QED
        BY <1>3, <1>4, <1>5, <1>6, <3>1
    <2> QED
      BY <2>1, <2>2 DEF Sync, NoHalf
  <1>9. Owes'
    <2>1. ASSUME NEW s \in Sides
          PROVE  0 <= db'[m].owe[s].com /\ db'[m].owe[s].com <= db'[m].owe[s].amt
      <3>1. db[m].owe[s] \in Debt /\ db[m].owe[s].com <= db[m].owe[s].amt /\ db[m].seq + 1 \in Nat
        BY <1>1, Parts, SMTT(30) DEF Owes
      <3>2. FeeOf(n, fee, s) \in Nat
        BY FeeNat
      <3> QED
        BY <1>5, <3>1, <3>2, OwesCommitted
    <2> QED
      BY <1>1, <1>4, <2>1 DEF Owes
  <1> QED
    BY <1>8, <1>9

\* The proposer saves what the party has agreed to: both have the same state.
LEMMA SyncSaved ==
  ASSUME Typed, Sync, Owes, CommitSaved
  PROVE  Sync' /\ Owes'
  <1> DEFINE n == half.by
             m == Other(n)
  <1>0. n \in Sides
    BY CommitSavedDb
  <1>1. m \in Sides /\ m # n /\ (\A k \in Sides : k = n \/ k = m) /\ Other(n) = m
    BY <1>0, OtherSide
  <1>2. half' = NoHalf /\ half.by = n
    BY DEF CommitSaved
  <1>3. /\ db[m].seq = db[n].seq + 1 /\ db[m].lock = db[n].lock
        /\ \A s \in Sides : db[m].owe[s] = Committed(db[n].owe[s], db[n].seq + 1, FeeOf(n, half.fee, s))
    BY <1>0, <1>1, <1>2 DEF Sync
  <1>4. /\ db'[m] = db[m] /\ db'[n] = AfterCommit(db[n], n, half.fee)
        /\ db[n].seq < MaxSeq /\ db[n] \in Record /\ db' \in [Sides -> Record]
    BY <1>0, CommitSavedDb, Parts
  <1> HIDE DEF m, n
  <1>5. /\ db'[n].seq = db[n].seq + 1 /\ db'[n].lock = db[n].lock
        /\ \A s \in Sides : db'[n].owe[s] = Committed(db[n].owe[s], db[n].seq + 1, FeeOf(n, half.fee, s))
    BY <1>0, <1>4, AfterCommitParts
  <1>6. db'[n].owe = db'[m].owe
    <2>1. \A s \in Sides : db'[n].owe[s] = db'[m].owe[s]
      BY <1>3, <1>4, <1>5
    <2>2. db'[n] \in Record /\ db'[m] \in Record
      BY <1>0, <1>1, <1>4
    <2> QED
      BY <2>1, <2>2, SameDebts
  <1>7. db'[n].seq = db'[m].seq /\ db'[n].lock = db'[m].lock
    BY <1>3, <1>4, <1>5
  <1>8. Sync'
    <2>1. half'.by = 0
      BY <1>2 DEF NoHalf
    <2>2. db'[1].seq = db'[2].seq /\ db'[1].owe = db'[2].owe /\ db'[1].lock = db'[2].lock
      BY <1>0, <1>1, <1>6, <1>7 DEF Sides
    <2> QED
      BY <2>1, <2>2 DEF Sync, Sides
  <1>9. Owes'
    <2>1. ASSUME NEW s \in Sides
          PROVE  0 <= db'[n].owe[s].com /\ db'[n].owe[s].com <= db'[n].owe[s].amt
      <3>1. db[n].owe[s] \in Debt /\ db[n].owe[s].com <= db[n].owe[s].amt /\ db[n].seq + 1 \in Nat
        BY <1>0, Parts DEF Owes
      <3>2. FeeOf(n, half.fee, s) \in Nat
        BY FeeNat
      <3> QED
        BY <1>5, <3>1, <3>2, OwesCommitted
    <2> QED
      BY <1>1, <1>4, <2>1 DEF Owes
  <1> QED
    BY <1>8, <1>9

\* The states of the two nodes stay together.
LEMMA SyncStep ==
  ASSUME Typed, Sync, Owes, Next
  PROVE  Sync' /\ Owes'
  <1>1. CASE Local \/ Tx
    <2>1. UNCHANGED <<db, half>>
      BY <1>1 DEF Local, Tx
    <2>2. StateKept
      BY <2>1, DbKept
    <2> QED
      BY <2>1, <2>2, SyncKept
  <1>2. ASSUME NEW n \in Sides, Recorded(n) PROVE Sync' /\ Owes'
    <2>1. CASE \/ \E amt \in Payments : OpenConditional(n, amt)
               \/ \E paid \in BOOLEAN : CloseConditional(n, paid)
      BY <2>1, SyncPay
    <2>2. CASE CommitAgreed(n)
      BY <2>2, SyncAgreed
    <2>3. CASE CommitSaved
      BY <2>3, SyncSaved
    <2>4. CASE /\ ~\E amt \in Payments : OpenConditional(n, amt)
               /\ ~\E paid \in BOOLEAN : CloseConditional(n, paid)
               /\ ~CommitAgreed(n) /\ ~CommitSaved
      <3>1. UNCHANGED half
        BY <1>2, <2>4, RecordedFrame
      <3>2. StateKept
        BY <1>2, <2>4, RecordedDb
      <3> QED
        BY <3>1, <3>2, SyncKept
    <2> QED
      BY <2>1, <2>2, <2>3, <2>4
  <1> QED
    BY <1>1, <1>2, Kinds

-----------------------------------------------------------------------------
(* The queues of events and jobs.                                          *)

\* An event of the newest transaction is put at the end.
LEMMA InOrderAppend ==
  ASSUME NEW q \in Seq(Event), NEW lc \in Nat, NEW lw \in Nat, NEW c \in Contract, InOrder(q, lc, lw, c),
         NEW d \in Contract, c.cseq <= d.cseq, c.wseq <= d.wseq, ~c.open => ~d.open,
         NEW e \in Event, e.cseq = d.cseq, e.wseq = d.wseq, ~e.open => ~d.open
  PROVE  InOrder(Append(q, e), lc, lw, d)
  <1> DEFINE r == Append(q, e)
  <1>1. /\ Len(q) \in Nat /\ Len(r) = Len(q) + 1 /\ r[Len(q) + 1] = e
        /\ \A i \in 1..Len(q) : r[i] = q[i]
    OBVIOUS
  <1>2. /\ c.cseq \in Nat /\ c.wseq \in Nat /\ d.cseq \in Nat /\ d.wseq \in Nat
        /\ c.open \in BOOLEAN /\ d.open \in BOOLEAN
    BY DEF Contract
  <1>3. \A i \in 1..Len(q) : q[i].cseq \in Nat /\ q[i].wseq \in Nat
    <2>1. \A i \in 1..Len(q) : q[i] \in Event
      OBVIOUS
    <2> QED
      BY <2>1 DEF Event
  <1> HIDE DEF r
  <1>4. lc <= d.cseq /\ lw <= d.wseq
    BY <1>2 DEF InOrder
  <1>5. ASSUME NEW i \in 1..Len(r)
        PROVE  /\ lc <= r[i].cseq /\ r[i].cseq <= d.cseq
               /\ lw <= r[i].wseq /\ r[i].wseq <= d.wseq
               /\ ~r[i].open => ~d.open
    <2>1. CASE i \in 1..Len(q)
      <3>1. r[i] = q[i]
        BY <1>1, <2>1
      <3>2. /\ lc <= q[i].cseq /\ q[i].cseq <= c.cseq /\ lw <= q[i].wseq /\ q[i].wseq <= c.wseq
            /\ ~q[i].open => ~c.open
        BY <2>1 DEF InOrder
      <3>3. q[i].cseq \in Nat /\ q[i].wseq \in Nat
        BY <1>3, <2>1
      <3>4. /\ lc <= q[i].cseq /\ q[i].cseq <= d.cseq /\ lw <= q[i].wseq /\ q[i].wseq <= d.wseq
        <4> DEFINE x == q[i].cseq
                   y == q[i].wseq
                   u == c.cseq
                   v == c.wseq
                   z == d.cseq
                   w == d.wseq
        <4>1. x \in Nat /\ y \in Nat /\ u \in Nat /\ v \in Nat /\ z \in Nat /\ w \in Nat
          BY <1>2, <3>3
        <4>2. lc <= x /\ x <= u /\ lw <= y /\ y <= v
          BY <3>2
        <4>3. u <= z /\ v <= w
          OBVIOUS
        <4> HIDE DEF x, y, u, v, z, w
        <4>4. x <= z /\ y <= w
          BY <4>1, <4>2, <4>3
        <4> QED
          BY <4>2, <4>4 DEF x, y, z, w
      <3> QED
        BY <3>1, <3>2, <3>4
    <2>2. CASE i = Len(q) + 1
      BY <1>1, <1>2, <1>4, <2>2
    <2> QED
      BY <1>1, <2>1, <2>2
  <1>6. ASSUME NEW i \in 1..Len(r), NEW j \in 1..Len(r), i <= j
        PROVE  r[i].cseq <= r[j].cseq /\ r[i].wseq <= r[j].wseq
    <2>1. CASE j \in 1..Len(q)
      <3>1. i \in 1..Len(q) /\ r[i] = q[i] /\ r[j] = q[j]
        BY <1>1, <1>6, <2>1
      <3> QED
        BY <1>6, <2>1, <3>1 DEF InOrder
    <2>2. CASE j = Len(q) + 1
      <3>1. r[j].cseq = d.cseq /\ r[j].wseq = d.wseq
        BY <1>1, <2>2
      <3>2. r[i].cseq <= d.cseq /\ r[i].wseq <= d.wseq
        BY <1>5
      <3> QED
        BY <3>1, <3>2
    <2> QED
      BY <1>1, <2>1, <2>2
  <1> QED
    BY <1>4, <1>5, <1>6 DEF InOrder, r

\* The first event is taken and recorded.
LEMMA InOrderTail ==
  ASSUME NEW q \in Seq(Event), q # <<>>, NEW lc \in Nat, NEW lw \in Nat, NEW c \in Contract, InOrder(q, lc, lw, c),
         NEW e, e = Head(q)
  PROVE  /\ InOrder(Tail(q), e.cseq, e.wseq, c)
         /\ lc <= e.cseq /\ lw <= e.wseq /\ (~e.open => ~c.open)
  <1> DEFINE r == Tail(q)
  <1>1. /\ Len(q) \in Nat /\ Len(q) >= 1 /\ Len(r) = Len(q) - 1 /\ e = q[1]
        /\ \A i \in 1..Len(r) : r[i] = q[i + 1]
    OBVIOUS
  <1>2. /\ lc <= e.cseq /\ e.cseq <= c.cseq /\ lw <= e.wseq /\ e.wseq <= c.wseq /\ (~e.open => ~c.open)
    BY <1>1 DEF InOrder
  <1> HIDE DEF r
  <1>3. ASSUME NEW i \in 1..Len(r)
        PROVE  /\ i + 1 \in 1..Len(q) /\ r[i] = q[i + 1] /\ q[1].cseq <= q[i + 1].cseq /\ q[1].wseq <= q[i + 1].wseq
    <2>1. i + 1 \in 1..Len(q) /\ 1 \in 1..Len(q) /\ 1 <= i + 1 /\ r[i] = q[i + 1]
      BY <1>1
    <2> QED
      BY <2>1 DEF InOrder
  <1>4. \A i \in 1..Len(r) :
           /\ e.cseq <= r[i].cseq /\ r[i].cseq <= c.cseq /\ e.wseq <= r[i].wseq /\ r[i].wseq <= c.wseq
           /\ ~r[i].open => ~c.open
    BY <1>1, <1>3 DEF InOrder
  <1>5. ASSUME NEW i \in 1..Len(r), NEW j \in 1..Len(r), i <= j
        PROVE  r[i].cseq <= r[j].cseq /\ r[i].wseq <= r[j].wseq
    <2>1. i + 1 \in 1..Len(q) /\ j + 1 \in 1..Len(q) /\ r[i] = q[i + 1] /\ r[j] = q[j + 1] /\ i + 1 <= j + 1
      BY <1>1, <1>3, <1>5
    <2> QED
      BY <2>1 DEF InOrder
  <1> QED
    BY <1>2, <1>4, <1>5 DEF InOrder, r

\* Jobs about later transactions are put at the end.
LEMMA BehindConcat ==
  ASSUME NEW q \in Seq(Job), NEW r \in Seq(Job), NEW lc \in Nat, NEW lw \in Nat, Behind(q, lc, lw),
         NEW mc \in Nat, NEW mw \in Nat, lc <= mc, lw <= mw, Behind(r, mc, mw),
         \A i \in 1..Len(r) : /\ r[i].kind = "commit" => lc < r[i].id
                              /\ r[i].kind = "wallet" => lw <= r[i].id
  PROVE  Behind(q \o r, mc, mw)
  <1> DEFINE t == q \o r
  <1>1. /\ Len(q) \in Nat /\ Len(r) \in Nat /\ Len(t) = Len(q) + Len(r)
        /\ \A i \in 1..Len(q) : t[i] = q[i] /\ q[i] \in Job
        /\ \A i \in 1..Len(t) : i \notin 1..Len(q) =>
              i - Len(q) \in 1..Len(r) /\ t[i] = r[i - Len(q)] /\ r[i - Len(q)] \in Job
    OBVIOUS
  <1> HIDE DEF t
  <1>2. \A j \in Job : j.id \in Nat /\ j.kind \in {"commit", "wallet", "refresh"}
    BY DEF Job
  <1>3. ASSUME NEW i \in 1..Len(t)
        PROVE  (t[i].kind = "commit" => t[i].id <= mc) /\ (t[i].kind = "wallet" => t[i].id < mw)
    <2>1. CASE i \in 1..Len(q)
      <3>1. t[i] = q[i] /\ q[i].id \in Nat
        BY <1>1, <1>2, <2>1
      <3>2. (q[i].kind = "commit" => q[i].id <= lc) /\ (q[i].kind = "wallet" => q[i].id < lw)
        BY <2>1 DEF Behind
      <3>3. (q[i].kind = "commit" => q[i].id <= mc) /\ (q[i].kind = "wallet" => q[i].id < mw)
        BY <3>1, <3>2, SMTT(30)
      <3> QED
        BY <3>1, <3>3
    <2>2. CASE i \notin 1..Len(q)
      <3>1. i - Len(q) \in 1..Len(r) /\ t[i] = r[i - Len(q)]
        BY <1>1, <2>2
      <3> QED
        BY <3>1 DEF Behind
    <2> QED
      BY <2>1, <2>2
  <1>4. ASSUME NEW i \in 1..Len(q), NEW j \in 1..Len(t), j \notin 1..Len(q), t[i].kind # "refresh"
        PROVE  t[i] # t[j]
    <2>1. j - Len(q) \in 1..Len(r) /\ t[j] = r[j - Len(q)] /\ t[j].id \in Nat
      BY <1>1, <1>2, <1>4
    <2>2. t[i] = q[i] /\ t[i].id \in Nat /\ t[i].kind \in {"commit", "wallet"}
      BY <1>1, <1>2, <1>4
    <2>3. (t[i].kind = "commit" => t[i].id <= lc) /\ (t[i].kind = "wallet" => t[i].id < lw)
      BY <2>2 DEF Behind
    <2>4. (t[j].kind = "commit" => lc < t[j].id) /\ (t[j].kind = "wallet" => lw <= t[j].id)
      BY <2>1
    <2>5. CASE t[i].kind = "commit"
      BY <2>1, <2>2, <2>3, <2>4, <2>5, SMTT(30)
    <2>6. CASE t[i].kind = "wallet"
      <3> SUFFICES ASSUME t[i] = t[j] PROVE FALSE
        OBVIOUS
      <3> DEFINE x == t[i].id
      <3>1. x \in Nat /\ x < lw /\ lw <= x
        BY <2>2, <2>3, <2>4, <2>6
      <3> HIDE DEF x
      <3> QED
        BY <3>1
    <2> QED
      BY <2>2, <2>5, <2>6
  <1>5. ASSUME NEW i \in 1..Len(t), NEW j \in 1..Len(t), i # j, t[i].kind # "refresh"
        PROVE  t[i] # t[j]
    <2>1. CASE i \in 1..Len(q) /\ j \in 1..Len(q)
      <3>1. t[i] = q[i] /\ t[j] = q[j]
        BY <1>1, <2>1
      <3> QED
        BY <1>5, <2>1, <3>1 DEF Behind
    <2>2. CASE i \in 1..Len(q) /\ j \notin 1..Len(q)
      BY <1>4, <1>5, <2>2
    <2>3. CASE i \notin 1..Len(q) /\ j \in 1..Len(q)
      <3>1. CASE t[j].kind = "refresh"
        BY <1>5, <3>1
      <3>2. CASE t[j].kind # "refresh"
        BY <1>4, <2>3, <3>2
      <3> QED
        BY <3>1, <3>2
    <2>4. CASE i \notin 1..Len(q) /\ j \notin 1..Len(q)
      <3>1. /\ i - Len(q) \in 1..Len(r) /\ t[i] = r[i - Len(q)]
            /\ j - Len(q) \in 1..Len(r) /\ t[j] = r[j - Len(q)] /\ i - Len(q) # j - Len(q)
        BY <1>1, <1>5, <2>4, SMTT(30)
      <3> QED
        BY <1>5, <3>1 DEF Behind
    <2> QED
      BY <2>1, <2>2, <2>3, <2>4
  <1> QED
    BY <1>3, <1>5 DEF Behind, t

\* The first job is taken; the others are not about the same transaction.
LEMMA BehindTail ==
  ASSUME NEW q \in Seq(Job), q # <<>>, NEW lc, NEW lw, Behind(q, lc, lw)
  PROVE  /\ Behind(Tail(q), lc, lw)
         /\ \A i \in 1..Len(Tail(q)) : Tail(q)[i].kind # "refresh" => Tail(q)[i] # Head(q)
  <1> DEFINE r == Tail(q)
  <1>1. /\ Len(q) \in Nat /\ Len(q) >= 1 /\ Len(r) = Len(q) - 1 /\ Head(q) = q[1]
        /\ \A i \in 1..Len(r) : r[i] = q[i + 1] /\ i + 1 \in 1..Len(q) /\ i + 1 # 1
    OBVIOUS
  <1> HIDE DEF r
  <1>2. 1 \in 1..Len(q)
    BY <1>1
  <1>3. \A i \in 1..Len(r) : r[i].kind # "refresh" => r[i] # Head(q)
    BY <1>1, <1>2 DEF Behind
  <1>4. \A i \in 1..Len(r) : (r[i].kind = "commit" => r[i].id <= lc) /\ (r[i].kind = "wallet" => r[i].id < lw)
    BY <1>1 DEF Behind
  <1>5. ASSUME NEW i \in 1..Len(r), NEW j \in 1..Len(r), i # j, r[i].kind # "refresh"
        PROVE  r[i] # r[j]
    <2>1. i + 1 \in 1..Len(q) /\ j + 1 \in 1..Len(q) /\ i + 1 # j + 1 /\ r[i] = q[i + 1] /\ r[j] = q[j + 1]
      BY <1>1, <1>5
    <2> QED
      BY <1>5, <2>1 DEF Behind
  <1> QED
    BY <1>3, <1>4, <1>5 DEF Behind, r

\* The jobs that an event causes: at least one, and each about a transfer that
\* is pending and that no earlier event was about.
LEMMA NewJobs ==
  ASSUME NEW d \in Record, NEW s \in Sides, NEW e \in Event, NEW r, r = Jobs(d, s, e),
         d.lc[s] <= e.cseq, d.lw[s] <= e.wseq
  PROVE  /\ r \in Seq(Job) /\ r # <<>>
         /\ Behind(r, e.cseq, e.wseq) /\ Waits(r, d.hold[s])
         /\ \A i \in 1..Len(r) : /\ r[i].kind = "commit" => d.lc[s] < r[i].id
                                 /\ r[i].kind = "wallet" => d.lw[s] <= r[i].id
  <1> DEFINE C == CommitDone(d, s, e)
             W == WalletDone(d, s, e)
             a == [kind |-> "commit", id |-> e.cseq]
             b == [kind |-> "wallet", id |-> d.lw[s]]
             f == [kind |-> "refresh", id |-> 0]
  <1>1. e.cseq \in Nat /\ e.wseq \in Nat /\ d.lc[s] \in Nat /\ d.lw[s] \in Nat
    BY DEF Record, Event
  <1>2. /\ a \in Job /\ a.kind = "commit" /\ a.id = e.cseq
        /\ b \in Job /\ b.kind = "wallet" /\ b.id = d.lw[s]
        /\ f \in Job /\ f.kind = "refresh"
    BY <1>1 DEF Job
  <1>3. C => d.lc[s] < e.cseq /\ \E h \in d.hold[s] : h.kind = a.kind /\ h.id = a.id
    BY <1>2 DEF CommitDone, Pending
  <1>4. W => d.lw[s] < e.wseq /\ \E h \in d.hold[s] : h.kind = b.kind /\ h.id = b.id
    BY <1>2 DEF WalletDone, Pending
  <1>5. r = (IF C THEN <<a>> ELSE <<>>) \o (IF W THEN <<b>> ELSE <<>>) \o (IF C \/ W THEN <<>> ELSE <<f>>)
    BY DEF Jobs
  <1> HIDE DEF C, W, a, b, f
  <1>6. CASE C /\ W
    <2> DEFINE x == <<a>>
               y == <<b>>
    <2>1. /\ x \in Seq(Job) /\ Len(x) = 1 /\ x[1] = a
          /\ y \in Seq(Job) /\ Len(y) = 1 /\ y[1] = b
      BY <1>2
    <2>7. r = x \o y \o <<>>
      BY <1>5, <1>6
    <2> HIDE DEF x, y
    <2>8. x \o y \in Seq(Job)
      BY <2>1
    <2>9. r = x \o y
      BY <2>7, <2>8, ConcatEmptySeq
    <2>10. /\ Len(x \o y) = Len(x) + Len(y)
           /\ \A i \in 1..(Len(x) + Len(y)) : (x \o y)[i] = IF i <= Len(x) THEN x[i] ELSE y[i - Len(x)]
      BY <2>1, ConcatProperties
    <2>11. Len(r) = 2 /\ \A i \in 1..2 : r[i] = IF i <= 1 THEN x[i] ELSE y[i - 1]
      BY <2>1, <2>9, <2>10
    <2>12. r[1] = a /\ r[2] = b
      BY <2>1, <2>11
    <2>13. r \in Seq(Job) /\ r # <<>>
      BY <2>8, <2>9, <2>11
    <2>2. r \in Seq(Job) /\ r # <<>> /\ Len(r) = 2 /\ r[1] = a /\ r[2] = b
      BY <2>11, <2>12, <2>13
    <2>3. \A i \in 1..Len(r) : i = 1 \/ i = 2
      BY <2>2
    <2>4. a # b
      BY <1>2
    <2>5. Behind(r, e.cseq, e.wseq)
      BY <1>1, <1>2, <1>3, <1>4, <1>6, <2>2, <2>3, <2>4 DEF Behind
    <2>6. Waits(r, d.hold[s])
      BY <1>3, <1>4, <1>6, <2>2, <2>3 DEF Waits
    <2> QED
      BY <1>1, <1>2, <1>3, <1>4, <1>6, <2>2, <2>3, <2>5, <2>6
  <1>7. CASE C /\ ~W
    <2>1. r = <<a>>
      BY <1>5, <1>7
    <2>2. r \in Seq(Job) /\ r # <<>> /\ Len(r) = 1 /\ r[1] = a
      BY <1>2, <2>1
    <2>3. \A i \in 1..Len(r) : i = 1
      BY <2>2
    <2>5. Behind(r, e.cseq, e.wseq)
      BY <1>1, <1>2, <1>3, <1>7, <2>2, <2>3 DEF Behind
    <2>6. Waits(r, d.hold[s])
      BY <1>3, <1>7, <2>2, <2>3 DEF Waits
    <2> QED
      BY <1>1, <1>2, <1>3, <1>7, <2>2, <2>3, <2>5, <2>6
  <1>8. CASE ~C /\ W
    <2>1. r = <<b>>
      BY <1>5, <1>8
    <2>2. r \in Seq(Job) /\ r # <<>> /\ Len(r) = 1 /\ r[1] = b
      BY <1>2, <2>1
    <2>3. \A i \in 1..Len(r) : i = 1
      BY <2>2
    <2>5. Behind(r, e.cseq, e.wseq)
      BY <1>1, <1>2, <1>4, <1>8, <2>2, <2>3 DEF Behind
    <2>6. Waits(r, d.hold[s])
      BY <1>4, <1>8, <2>2, <2>3 DEF Waits
    <2> QED
      BY <1>1, <1>2, <1>4, <1>8, <2>2, <2>3, <2>5, <2>6
  <1>9. CASE ~C /\ ~W
    <2>1. r = <<f>>
      BY <1>5, <1>9
    <2>2. r \in Seq(Job) /\ r # <<>> /\ Len(r) = 1 /\ r[1] = f
      BY <1>2, <2>1
    <2>3. \A i \in 1..Len(r) : i = 1
      BY <2>2
    <2>5. Behind(r, e.cseq, e.wseq)
      BY <1>2, <2>2, <2>3 DEF Behind
    <2>6. Waits(r, d.hold[s])
      BY <1>2, <2>2, <2>3 DEF Waits
    <2> QED
      BY <1>2, <2>2, <2>3, <2>5, <2>6
  <1> QED
    BY <1>6, <1>7, <1>8, <1>9

\* Jobs that wait go on waiting.
LEMMA WaitsConcat ==
  ASSUME NEW q \in Seq(Job), NEW r \in Seq(Job), NEW H, Waits(q, H), Waits(r, H)
  PROVE  Waits(q \o r, H)
  <1> DEFINE t == q \o r
  <1>1. /\ Len(q) \in Nat /\ Len(r) \in Nat /\ Len(t) = Len(q) + Len(r)
        /\ \A i \in 1..Len(q) : t[i] = q[i]
        /\ \A i \in 1..Len(t) : i \notin 1..Len(q) => i - Len(q) \in 1..Len(r) /\ t[i] = r[i - Len(q)]
    OBVIOUS
  <1> HIDE DEF t
  <1>2. ASSUME NEW i \in 1..Len(t), t[i].kind # "refresh"
        PROVE  \E h \in H : h.kind = t[i].kind /\ h.id = t[i].id
    <2>1. CASE i \in 1..Len(q)
      <3>1. t[i] = q[i]
        BY <1>1, <2>1
      <3> QED
        BY <1>2, <2>1, <3>1 DEF Waits
    <2>2. CASE i \notin 1..Len(q)
      <3>1. i - Len(q) \in 1..Len(r) /\ t[i] = r[i - Len(q)]
        BY <1>1, <2>2
      <3> QED
        BY <1>2, <3>1 DEF Waits
    <2> QED
      BY <2>1, <2>2
  <1> QED
    BY <1>2 DEF Waits, t

\* A transaction: its event is behind all others.
LEMMA OrderedTx ==
  ASSUME Typed, Ordered, Tx
  PROVE  Ordered'
  <1>1. PICK S : Transaction(S)
    BY DEF Tx
  <1>2. db' = db
    BY DEF Tx
  <1>3. ASSUME NEW n \in Sides, NEW s \in Sides
        PROVE  InOrder(ev'[n][s], db'[n].lc[s], db'[n].lw[s], chain'[s])
    <2>1. InOrder(ev[n][s], db[n].lc[s], db[n].lw[s], chain[s])
      BY DEF Ordered
    <2>2. CASE s \notin S
      <3>1. ev'[n][s] = ev[n][s] /\ chain'[s] = chain[s]
        BY <1>1, <2>2 DEF Transaction
      <3> QED
        BY <1>2, <2>1, <3>1
    <2>3. CASE s \in S
      <3> DEFINE q == ev[n][s]
                 c == chain[s]
                 d == chain'[s]
                 e == [cseq |-> d.cseq, wseq |-> d.wseq, open |-> d.open]
                 lc == db[n].lc[s]
                 lw == db[n].lw[s]
      <3>1. ev'[n][s] = Append(q, e)
        BY <1>1, <2>3 DEF Transaction
      <3>2. q \in Seq(Event) /\ c \in Contract /\ lc \in Nat /\ lw \in Nat
        BY Parts
      <3>3. d \in Contract
        BY <1>1 DEF Transaction
      <3>4. c.cseq <= d.cseq /\ c.wseq <= d.wseq /\ (~c.open => ~d.open)
        BY <1>1 DEF Transaction, Forward
      <3>5. InOrder(q, lc, lw, c)
        BY <2>1
      <3> HIDE DEF d
      <3>6. e \in Event /\ e.cseq = d.cseq /\ e.wseq = d.wseq /\ (~e.open => ~d.open)
        BY <3>3 DEF Event, Contract
      <3> HIDE DEF q, c, e, lc, lw
      <3>7. InOrder(Append(q, e), lc, lw, d)
        BY <3>2, <3>3, <3>4, <3>5, <3>6, InOrderAppend
      <3> QED
        BY <1>2, <3>1, <3>7 DEF lc, lw, d
    <2> QED
      BY <2>2, <2>3
  <1> QED
    BY <1>3 DEF Ordered

\* processSideUpdate takes the oldest event; of an open contract it leaves a job.
LEMMA ProcessQueues ==
  ASSUME Typed, Ordered, Queued, Awaited, NEW n \in Sides, NEW s \in Sides, ProcessEvent(n, s)
  PROVE  /\ Ordered' /\ Queued' /\ Awaited'
         /\ jobs'[n][s] # <<>> \/ ~chain[s].open
  <1> DEFINE q == ev[n][s]
             e == Head(q)
             d == db[n]
             r == Jobs(d, s, e)
             b == jobs[n][s]
             lc == d.lc[s]
             lw == d.lw[s]
  <1>1. /\ q # <<>> /\ e \in Event
        /\ \A k \in Sides : k # n => db'[k] = db[k]
        /\ HoldKept
        /\ db'[n].lc = [db[n].lc EXCEPT ![s] = e.cseq]
        /\ db'[n].lw = [db[n].lw EXCEPT ![s] = e.wseq]
    BY ProcessDb
  <1>2. /\ ev'[n][s] = Tail(q)
        /\ \A k, t \in Sides : k # n \/ t # s => ev'[k][t] = ev[k][t] /\ jobs'[k][t] = jobs[k][t]
        /\ jobs'[n][s] = IF e.open THEN b \o r ELSE b
    <2> DEFINE x == e
    <2>1. x = Head(ev[n][s])
      OBVIOUS
    <2> HIDE DEF x
    <2>2. /\ ev'[n][s] = Tail(ev[n][s])
          /\ \A k, t \in Sides : k # n \/ t # s => ev'[k][t] = ev[k][t] /\ jobs'[k][t] = jobs[k][t]
          /\ jobs'[n][s] = IF x.open THEN jobs[n][s] \o Jobs(db[n], s, x) ELSE jobs[n][s]
      BY <2>1, EventQueue, SMTT(30)
    <2> QED
      BY <2>2 DEF x
  <1>3. q \in Seq(Event) /\ d \in Record /\ lc \in Nat /\ lw \in Nat /\ chain[s] \in Contract /\ b \in Seq(Job)
    BY Parts
  <1>4. chain' = chain
    BY DEF ProcessEvent
  <1>5. d.lc \in [Sides -> Nat] /\ d.lw \in [Sides -> Nat]
    BY <1>3 DEF Record
  <1>6. db'[n].lc[s] = e.cseq /\ db'[n].lw[s] = e.wseq
    BY <1>1, <1>5
  <1>7. \A k, t \in Sides : k # n \/ t # s => db'[k].lc[t] = db[k].lc[t] /\ db'[k].lw[t] = db[k].lw[t]
    <2>1. \A t \in Sides : t # s => db'[n].lc[t] = db[n].lc[t] /\ db'[n].lw[t] = db[n].lw[t]
      BY <1>1, <1>5
    <2> QED
      BY <1>1, <2>1
  <1>8. /\ InOrder(Tail(q), e.cseq, e.wseq, chain[s])
        /\ lc <= e.cseq /\ lw <= e.wseq /\ (~e.open => ~chain[s].open)
    <2>1. InOrder(q, lc, lw, chain[s]) /\ e = Head(q)
      BY DEF Ordered
    <2> HIDE DEF q, lc, lw, e
    <2> QED
      BY <1>1, <1>3, <2>1, InOrderTail
  <1>9. e.cseq \in Nat /\ e.wseq \in Nat
    BY <1>1 DEF Event
  <1>10. /\ r \in Seq(Job) /\ r # <<>>
         /\ Behind(r, e.cseq, e.wseq) /\ Waits(r, d.hold[s])
         /\ \A i \in 1..Len(r) : /\ r[i].kind = "commit" => lc < r[i].id
                                 /\ r[i].kind = "wallet" => lw <= r[i].id
    <2>1. r = Jobs(d, s, e)
      OBVIOUS
    <2> HIDE DEF r, e, d
    <2> QED
      BY <1>1, <1>3, <1>8, <2>1, NewJobs
  <1>11. Behind(b, lc, lw) /\ Waits(b, d.hold[s])
    BY DEF Queued, Awaited
  <1> HIDE DEF q, e, d, r, b, lc, lw
  <1>12. Ordered'
    <2>1. ASSUME NEW k \in Sides, NEW t \in Sides
          PROVE  InOrder(ev'[k][t], db'[k].lc[t], db'[k].lw[t], chain'[t])
      <3>1. CASE k = n /\ t = s
        BY <1>2, <1>4, <1>6, <1>8, <3>1
      <3>2. CASE k # n \/ t # s
        BY <1>2, <1>4, <1>7, <3>2 DEF Ordered
      <3> QED
        BY <3>1, <3>2
    <2> QED
      BY <2>1 DEF Ordered
  <1>13. Behind(b \o r, e.cseq, e.wseq)
    BY <1>3, <1>8, <1>9, <1>10, <1>11, BehindConcat
  <1>14. Behind(b, e.cseq, e.wseq)
    <2>1. \A i \in 1..Len(b) : b[i].id \in Nat
      <3>1. \A i \in 1..Len(b) : b[i] \in Job
        BY <1>3
      <3> QED
        BY <3>1 DEF Job
    <2> DEFINE mc == e.cseq
               mw == e.wseq
    <2>2. mc \in Nat /\ mw \in Nat /\ lc <= mc /\ lw <= mw
      BY <1>8, <1>9
    <2> HIDE DEF mc, mw
    <2>3. \A i \in 1..Len(b) : (b[i].kind = "commit" => b[i].id <= mc) /\ (b[i].kind = "wallet" => b[i].id < mw)
      BY <1>3, <1>11, <2>1, <2>2, SMTT(30) DEF Behind
    <2>4. Behind(b, mc, mw)
      BY <1>11, <2>3 DEF Behind
    <2> QED
      BY <2>4 DEF mc, mw
  <1>15. Waits(b \o r, d.hold[s])
    BY <1>3, <1>10, <1>11, WaitsConcat
  <1>16. Behind(jobs'[n][s], e.cseq, e.wseq) /\ Waits(jobs'[n][s], d.hold[s])
    BY <1>2, <1>11, <1>13, <1>14, <1>15
  <1>17. Queued'
    <2>1. ASSUME NEW k \in Sides, NEW t \in Sides
          PROVE  Behind(jobs'[k][t], db'[k].lc[t], db'[k].lw[t])
      <3>1. CASE k = n /\ t = s
        BY <1>6, <1>16, <3>1
      <3>2. CASE k # n \/ t # s
        BY <1>2, <1>7, <3>2 DEF Queued
      <3> QED
        BY <3>1, <3>2
    <2> QED
      BY <2>1 DEF Queued
  <1>18. Awaited'
    <2>1. ASSUME NEW k \in Sides, NEW t \in Sides
          PROVE  Waits(jobs'[k][t], db'[k].hold[t])
      <3>0. db'[k].hold = db[k].hold
        BY <1>1 DEF HoldKept
      <3>1. CASE k = n /\ t = s
        BY <1>16, <3>0, <3>1 DEF d
      <3>2. CASE k # n \/ t # s
        BY <1>2, <3>0, <3>2 DEF Awaited
      <3> QED
        BY <3>1, <3>2
    <2> QED
      BY <2>1 DEF Awaited
  <1>19. jobs'[n][s] # <<>> \/ ~chain[s].open
    <2>1. CASE e.open
      <3>1. b \o r # <<>>
        BY <1>3, <1>10
      <3> QED
        BY <1>2, <2>1, <3>1
    <2>2. CASE ~e.open
      BY <1>8, <2>2
    <2> QED
      BY <2>1, <2>2
  <1> QED
    BY <1>12, <1>17, <1>18, <1>19

\* A job of an active node finds its transfer and brings the balance up to date.
LEMMA JobQueues ==
  ASSUME Typed, Queued, Awaited, NEW n \in Sides, NEW s \in Sides, RunJob(n, s)
  PROVE  /\ Queued' /\ Awaited'
         /\ Active(n) => db'[n].bal[s] = chain[s].bal
         /\ \A k, t \in Sides : k # n \/ t # s => db'[k].bal[t] = db[k].bal[t]
  <1> DEFINE q == jobs[n][s]
             j == Head(q)
             H == db[n].hold[s]
  <1>1. /\ q # <<>> /\ j \in Job
        /\ SeenKept
        /\ Skips(n, s, j) => db' = db
        /\ ~Skips(n, s, j) =>
              /\ \A k \in Sides : k # n => db'[k] = db[k]
              /\ db'[n].bal[s] = chain[s].bal
              /\ db'[n].hold[s] = H \ Gone(n, s, j)
              /\ \A t \in Sides : t # s => db'[n].bal[t] = db[n].bal[t] /\ db'[n].hold[t] = db[n].hold[t]
    <2>1. j = Head(jobs[n][s])
      OBVIOUS
    <2> HIDE DEF j
    <2> QED
      BY <2>1, RunJobDb
  <1>2. /\ jobs'[n][s] = Tail(q)
        /\ \A k, t \in Sides : k # n \/ t # s => jobs'[k][t] = jobs[k][t]
    BY JobQueue
  <1>3. q \in Seq(Job) /\ db[n].hold \in [Sides -> SUBSET Hold] /\ db[n].bal \in [Sides -> Int]
    BY Parts DEF Record
  <1>4. Behind(q, db[n].lc[s], db[n].lw[s]) /\ Waits(q, H)
    BY DEF Queued, Awaited
  <1>5. /\ Behind(Tail(q), db[n].lc[s], db[n].lw[s])
        /\ \A i \in 1..Len(Tail(q)) : Tail(q)[i].kind # "refresh" => Tail(q)[i] # j
    <2> HIDE DEF q
    <2> QED
      BY <1>1, <1>3, <1>4, BehindTail
  <1>6. /\ Len(q) \in Nat /\ Len(q) >= 1 /\ j = q[1] /\ Len(Tail(q)) = Len(q) - 1
        /\ \A i \in 1..Len(Tail(q)) : Tail(q)[i] = q[i + 1] /\ i + 1 \in 1..Len(q) /\ Tail(q)[i] \in Job
    <2> HIDE DEF q
    <2>1. q \in Seq(Job) /\ q # <<>> /\ j = Head(q)
      BY <1>1, <1>3
    <2> HIDE DEF j
    <2> QED
      BY <2>1
  <1>7. Queued'
    <2>1. ASSUME NEW k \in Sides, NEW t \in Sides
          PROVE  Behind(jobs'[k][t], db'[k].lc[t], db'[k].lw[t])
      <3>0. db'[k].lc = db[k].lc /\ db'[k].lw = db[k].lw
        BY <1>1 DEF SeenKept
      <3>1. CASE k = n /\ t = s
        BY <1>2, <1>5, <3>0, <3>1
      <3>2. CASE k # n \/ t # s
        BY <1>2, <3>0, <3>2 DEF Queued
      <3> QED
        BY <3>1, <3>2
    <2> QED
      BY <2>1 DEF Queued
  <1> HIDE DEF q, j
  <1>8. ASSUME NEW i \in 1..Len(Tail(q)), Tail(q)[i].kind # "refresh"
        PROVE  \E h \in H \ Gone(n, s, j) : h.kind = Tail(q)[i].kind /\ h.id = Tail(q)[i].id
    <2> DEFINE x == Tail(q)[i]
    <2>1. x = q[i + 1] /\ i + 1 \in 1..Len(q) /\ x \in Job /\ x # j /\ x.kind # "refresh"
      BY <1>5, <1>6, <1>8
    <2>2. PICK h \in H : h.kind = x.kind /\ h.id = x.id
      BY <1>4, <2>1 DEF Waits
    <2> HIDE DEF x
    <2>3. x.kind # j.kind \/ x.id # j.id
      <3>1. x = [kind |-> x.kind, id |-> x.id] /\ j = [kind |-> j.kind, id |-> j.id]
        BY <1>1, <2>1 DEF Job
      <3> QED
        BY <2>1, <3>1
    <2>4. h \notin Gone(n, s, j)
      BY <2>2, <2>3 DEF Gone
    <2> QED
      BY <2>2, <2>4 DEF x
  <1>9. Waits(Tail(q), H \ Gone(n, s, j)) /\ Waits(Tail(q), H)
    BY <1>8 DEF Waits
  <1>10. Awaited'
    <2>1. ASSUME NEW k \in Sides, NEW t \in Sides
          PROVE  Waits(jobs'[k][t], db'[k].hold[t])
      <3>1. CASE k = n /\ t = s
        <4>1. db'[n].hold[s] = H \/ db'[n].hold[s] = H \ Gone(n, s, j)
          BY <1>1, <1>3
        <4> QED
          BY <1>2, <1>9, <3>1, <4>1
      <3>2. CASE k # n \/ t # s
        <4>1. db'[k].hold[t] = db[k].hold[t]
          BY <1>1, <1>3, <3>2
        <4> QED
          BY <1>2, <3>2, <4>1 DEF Awaited
      <3> QED
        BY <3>1, <3>2
    <2> QED
      BY <2>1 DEF Awaited
  <1>11. ASSUME Active(n) PROVE db'[n].bal[s] = chain[s].bal
    <2>1. ~Skips(n, s, j)
      <3>1. CASE j.kind = "refresh"
        BY <1>11, <3>1 DEF Skips
      <3>2. CASE j.kind # "refresh"
        <4>1. \E h \in H : h.kind = j.kind /\ h.id = j.id
          BY <1>4, <1>6, <3>2 DEF Waits
        <4>2. Gone(n, s, j) # {}
          BY <4>1 DEF Gone
        <4> QED
          BY <1>11, <4>2 DEF Skips
      <3> QED
        BY <3>1, <3>2
    <2> QED
      BY <1>1, <1>3, <2>1
  <1>12. \A k, t \in Sides : k # n \/ t # s => db'[k].bal[t] = db[k].bal[t]
    BY <1>1, <1>3
  <1> QED
    BY <1>7, <1>10, <1>11, <1>12

\* A commit is written only where no transfer is pending: no job waits there.
LEMMA ClearNoWait ==
  ASSUME NEW q, NEW H, Waits(q, {}) PROVE Waits(q, H)
  BY DEF Waits

\* Steps that change neither events nor what is recorded of them.
LEMMA OrderedKept ==
  ASSUME Ordered, SeenKept, UNCHANGED <<chain, ev>> PROVE Ordered'
  BY DEF Ordered, SeenKept

\* Steps that change neither jobs nor what is recorded of the contracts.
LEMMA QueuedKept ==
  ASSUME Queued, SeenKept, UNCHANGED jobs PROVE Queued'
  BY DEF Queued, SeenKept

\* The queues stay in order, and no job waits for what is not pending.
LEMMA QueueStep ==
  ASSUME Typed, Sync, Ordered, Queued, Awaited, Next
  PROVE  Ordered' /\ Queued' /\ Awaited'
  <1>1. CASE Local
    <2>1. UNCHANGED <<chain, ev, db, jobs>>
      BY <1>1 DEF Local
    <2>2. SeenKept
      BY <2>1, DbKept
    <2> QED
      BY <2>1, <2>2, OrderedKept, QueuedKept DEF Awaited
  <1>2. CASE Tx
    <2>1. UNCHANGED <<db, jobs>>
      BY <1>2 DEF Tx
    <2>2. SeenKept
      BY <2>1, DbKept
    <2> QED
      BY <1>2, <2>1, <2>2, OrderedTx, QueuedKept DEF Awaited
  <1>3. ASSUME NEW n \in Sides, Recorded(n) PROVE Ordered' /\ Queued' /\ Awaited'
    <2>1. CASE \E s \in Sides : ProcessEvent(n, s)
      BY <2>1, ProcessQueues
    <2>2. CASE \E s \in Sides : RunJob(n, s) /\ ~\E t \in Sides : ProcessEvent(n, t)
      <3>1. PICK s \in Sides : RunJob(n, s)
        BY <2>2
      <3>2. UNCHANGED <<chain, ev>> /\ SeenKept
        BY <1>3, <2>2, RecordedFrame, RecordedDb
      <3> QED
        BY <3>1, <3>2, JobQueues, OrderedKept
    <2>3. CASE \A s \in Sides : ~ProcessEvent(n, s) /\ ~RunJob(n, s)
      <3>1. UNCHANGED <<chain, ev, jobs>> /\ SeenKept
        BY <1>3, <2>3, RecordedFrame, RecordedDb
      <3>2. Ordered' /\ Queued'
        BY <3>1, OrderedKept, QueuedKept
      <3>3. Awaited'
        <4>1. CASE CommitAgreed(n) \/ CommitSaved
          <5>1. \A k, s \in Sides : db'[k] = db[k] \/ db[k].hold[s] = {}
            <6>1. CASE CommitAgreed(n)
              <7>1. \A k \in Sides : Clear(db[k])
                BY <6>1 DEF CommitAgreed
              <7> QED
                BY <7>1 DEF Clear, Sides
            <6>2. CASE CommitSaved
              <7>1. Clear(db[half.by]) /\ db'[Other(half.by)] = db[Other(half.by)] /\ half.by \in Sides
                BY <6>2, CommitSavedDb DEF CommitSaved
              <7>2. \A k \in Sides : k = half.by \/ k = Other(half.by)
                BY <7>1, OtherSide
              <7> QED
                BY <7>1, <7>2 DEF Clear, Sides
            <6> QED
              BY <4>1, <6>1, <6>2
          <5>2. ASSUME NEW k \in Sides, NEW s \in Sides
                PROVE  Waits(jobs'[k][s], db'[k].hold[s])
            <6>1. Waits(jobs'[k][s], db[k].hold[s])
              BY <3>1 DEF Awaited
            <6> QED
              BY <5>1, <6>1, ClearNoWait
          <5> QED
            BY <5>2 DEF Awaited
        <4>2. CASE ~CommitAgreed(n) /\ ~CommitSaved
          <5>1. \A k, s \in Sides : db[k].hold[s] \subseteq db'[k].hold[s]
            BY <1>3, <2>3, <4>2, RecordedDb
          <5>2. ASSUME NEW k \in Sides, NEW s \in Sides
                PROVE  Waits(jobs'[k][s], db'[k].hold[s])
            <6> DEFINE H == db[k].hold[s]
                       q == jobs[k][s]
                       I == db'[k].hold[s]
            <6>1. Waits(q, H) /\ H \subseteq I /\ jobs'[k][s] = q
              BY <3>1, <5>1 DEF Awaited
            <6> HIDE DEF H, q, I
            <6>2. Waits(q, I)
              BY <6>1 DEF Waits
            <6> QED
              BY <6>1, <6>2 DEF I
          <5> QED
            BY <5>2 DEF Awaited
        <4> QED
          BY <4>1, <4>2
      <3> QED
        BY <3>2, <3>3
    <2> QED
      BY <2>1, <2>2, <2>3
  <1> QED
    BY <1>1, <1>2, <1>3, Kinds

\* Deposits stay counted.
LEMMA CountedStep ==
  ASSUME Typed, Sync, Counted, Next
  PROVE  /\ Counted'
         /\ \A k \in Sides : task'[k].deposit.count = 0 => task[k].deposit.count = 0
  <1>1. task' \in [Sides -> Tasks] /\
        \A k \in Sides : /\ task'[k].deposit.count >= task[k].deposit.count
                         /\ task'[k].deposit.st # "none" =>
                               task[k].deposit.st # "none" \/ task'[k].deposit.count > task[k].deposit.count
    <2>1. CASE Local \/ Tx
      BY <2>1 DEF Local, Tx, Tasked
    <2>2. CASE \E n \in Sides : Recorded(n)
      BY <2>2, RecordedTasks
    <2> QED
      BY <2>1, <2>2, Kinds
  <1>2. \A k \in Sides : task[k].deposit.count \in Nat
    BY TaskTypes DEF Deposit
  <1>3. \A k \in Sides : task'[k].deposit.count \in Nat
    BY <1>1 DEF Tasks, Deposit
  <1>4. Counted'
    BY <1>1, <1>2, <1>3 DEF Counted
  <1> QED
    BY <1>1, <1>2, <1>3, <1>4

\* What a node knows of a contract stays true.
LEMMA KnownStep ==
  ASSUME Typed, Sync, Ordered, Queued, Awaited, Counted, Known, Next
  PROVE  Known'
  <1>0. \A k \in Sides : task'[k].deposit.count = 0 => task[k].deposit.count = 0
    BY CountedStep
  <1> DEFINE Ready(n, s) == /\ Active(n) /\ chain[s].open /\ ev[n][s] = <<>> /\ jobs[n][s] = <<>>
                            /\ s = n => task[n].deposit.count = 0
  <1>1. SUFFICES ASSUME NEW n \in Sides, NEW s \in Sides, db'[n].status = "active", chain'[s].open,
                        ev'[n][s] = <<>>, jobs'[n][s] = <<>>, s = n => task'[n].deposit.count = 0
                 PROVE  db'[n].bal[s] = chain'[s].bal
    BY DEF Known, Active
  <1>2. Ready(n, s) => db[n].bal[s] = chain[s].bal
    BY DEF Known
  <1>3. s = n => task[n].deposit.count = 0
    BY <1>0, <1>1
  <1>4. CASE Local
    <2>1. UNCHANGED <<chain, ev, db, jobs>>
      BY <1>4 DEF Local
    <2> QED
      BY <1>1, <1>2, <1>3, <2>1 DEF Active
  <1>5. CASE Tx
    <2>1. UNCHANGED <<db, jobs>>
      BY <1>5 DEF Tx
    <2>2. PICK S : Transaction(S)
      BY <1>5 DEF Tx
    <2>3. CASE s \in S
      <3> DEFINE e == [cseq |-> chain'[s].cseq, wseq |-> chain'[s].wseq, open |-> chain'[s].open]
      <3>1. ev'[n][s] = Append(ev[n][s], e)
        BY <2>2, <2>3 DEF Transaction
      <3>2. e \in Event
        BY <2>2 DEF Transaction, Contract, Event
      <3> HIDE DEF e
      <3>3. ev[n][s] \in Seq(Event)
        BY Parts
      <3>4. Append(ev[n][s], e) # <<>>
        <4> DEFINE q == ev[n][s]
        <4>1. q \in Seq(Event)
          BY <3>3
        <4> HIDE DEF q
        <4>2. Append(q, e) # <<>>
          BY <3>2, <4>1, AppendProperties, SMTT(30)
        <4> QED
          BY <4>2 DEF q
      <3> QED
        BY <1>1, <3>1, <3>4
    <2>4. CASE s \notin S
      <3>1. ev'[n][s] = ev[n][s] /\ chain'[s] = chain[s]
        BY <2>2, <2>4 DEF Transaction
      <3> QED
        BY <1>1, <1>2, <1>3, <2>1, <3>1 DEF Active
    <2> QED
      BY <2>3, <2>4
  <1>6. ASSUME NEW k \in Sides, Recorded(k)
        PROVE  db'[n].bal[s] = chain'[s].bal
    <2>1. chain' = chain /\ db[n].status = "active"
      BY <1>1, <1>6, RecordedFrame, RecordedDb
    <2>2. CASE \E t \in Sides : ProcessEvent(k, t)
      <3>1. PICK t \in Sides : ProcessEvent(k, t)
        BY <2>2
      <3>2. ~(k = n /\ t = s)
        BY <1>1, <2>1, <3>1, ProcessQueues
      <3> DEFINE e == Head(ev[k][t])
      <3>3. e = Head(ev[k][t])
        OBVIOUS
      <3> HIDE DEF e
      <3>4. ev'[n][s] = ev[n][s] /\ jobs'[n][s] = jobs[n][s]
        <4>1. \A x, y \in Sides : x # k \/ y # t => ev'[x][y] = ev[x][y] /\ jobs'[x][y] = jobs[x][y]
          BY <3>1, <3>3, EventQueue, SMTT(30)
        <4> QED
          BY <3>2, <4>1
      <3>5. db'[n].bal = db[n].bal
        BY <3>1, ProcessDb DEF BalKept
      <3> QED
        BY <1>1, <1>2, <1>3, <2>1, <3>4, <3>5 DEF Active
    <2>3. CASE \E t \in Sides : RunJob(k, t) /\ ~\E x \in Sides : ProcessEvent(k, x)
      <3>1. PICK t \in Sides : RunJob(k, t)
        BY <2>3
      <3>2. CASE k = n /\ t = s
        BY <2>1, <3>1, <3>2, JobQueues DEF Active
      <3>3. CASE k # n \/ t # s
        <4>1. jobs'[n][s] = jobs[n][s]
          BY <3>1, <3>3, JobQueue
        <4>2. ev' = ev
          BY <1>6, <2>3, RecordedFrame
        <4>3. db'[n].bal[s] = db[n].bal[s]
          BY <3>1, <3>3, JobQueues
        <4> QED
          BY <1>1, <1>2, <1>3, <2>1, <4>1, <4>2, <4>3 DEF Active
      <3> QED
        BY <3>2, <3>3
    <2>4. CASE \A t \in Sides : ~ProcessEvent(k, t) /\ ~RunJob(k, t)
      <3>1. UNCHANGED <<ev, jobs>>
        BY <1>6, <2>4, RecordedFrame
      <3>2. db'[n].bal[s] = db[n].bal[s]
        <4>1. CASE DepositSaved(k)
          <5>1. /\ \A x \in Sides : x # k => db'[x] = db[x]
                /\ \A x \in Sides : x # k => db'[k].bal[x] = db[k].bal[x]
            BY <4>1, DepositSavedDb
          <5>2. ~(n = k /\ s = k)
            BY <1>3, <4>1 DEF DepositSaved, Counted
          <5> QED
            BY <5>1, <5>2
        <4>2. CASE ~DepositSaved(k)
          BY <1>6, <2>4, <4>2, RecordedDb DEF BalKept
        <4> QED
          BY <4>1, <4>2
      <3> QED
        BY <1>1, <1>2, <1>3, <2>1, <3>1, <3>2 DEF Active
    <2> QED
      BY <2>2, <2>3, <2>4
  <1> QED
    BY <1>4, <1>5, <1>6, Kinds

-----------------------------------------------------------------------------
(* Signed withdrawals and the close.                                       *)

\* A step that signs no withdrawal makes none live again: the contract's seqno
\* only grows.
LEMMA LiveKept ==
  ASSUME Typed, Held, Tasked, Forward, chain' \in [Sides -> Contract], NEW s \in Sides
  PROVE  /\ task'[Other(s)].external.st = "todo" => task'[Other(s)].external.wseq <= chain'[s].wseq
         /\ Live(s)' => Live(s) /\ chain'[s].wseq = chain[s].wseq
  <1> DEFINE k == Other(s)
             w == task[k].external.wseq
             c == chain[s].wseq
             d == chain'[s].wseq
  <1>1. k \in Sides /\ w \in Nat /\ c \in Nat /\ d \in Nat
    BY OtherSide, Parts, TaskTypes DEF External, Contract
  <1>2. c <= d
    BY DEF Forward
  <1>3. task'[k].external.st = "todo" => task'[k].external = task[k].external
    BY <1>1 DEF Tasked
  <1>4. task[k].external.st = "todo" => w <= c
    BY DEF Held
  <1>5. Live(s) <=> task[k].external.st = "todo" /\ w = c
    BY DEF Live
  <1>6. Live(s)' <=> task'[k].external.st = "todo" /\ task'[k].external.wseq = d
    BY DEF Live
  <1>7. task'[k].external.st = "todo" => task[k].external.st = "todo" /\ task'[k].external.wseq = w
    BY <1>3
  <1> HIDE DEF w, c, d
  <1>8. task'[k].external.st = "todo" => task'[k].external.wseq <= d
    BY <1>1, <1>2, <1>4, <1>7
  <1>9. Live(s)' => Live(s) /\ d = c
    BY <1>1, <1>2, <1>4, <1>5, <1>6, <1>7
  <1> QED
    BY <1>8, <1>9 DEF c, d

\* Steps that keep the contracts.
LEMMA ForwardKept ==
  ASSUME Typed, UNCHANGED chain
  PROVE  Forward /\ chain' \in [Sides -> Contract]
  <1>1. \A s \in Sides : chain[s].cseq \in Nat /\ chain[s].wseq \in Nat
    BY Parts
  <1> QED
    BY <1>1 DEF Forward, Typed

\* A job that ran was not about a withdrawal that can still be executed.
LEMMA JobNotLive ==
  ASSUME Typed, Ordered, Queued, Awaited, NEW n \in Sides, NEW s \in Sides, RunJob(n, s), NEW k \in Sides, NEW t \in Sides,
         Pending(db[k], t, "wallet", chain[t].wseq)
  PROVE  Pending(db'[k], t, "wallet", chain[t].wseq)
  <1> DEFINE j == Head(jobs[n][s])
             w == chain[s].wseq
             b == db[n].lw[s]
             i == j.id
  <1>1. j = Head(jobs[n][s])
    OBVIOUS
  <1> HIDE DEF j
  <1>2. /\ jobs[n][s] # <<>> /\ j \in Job
        /\ Skips(n, s, j) => db' = db
        /\ ~Skips(n, s, j) =>
              /\ \A x \in Sides : x # n => db'[x] = db[x]
              /\ db'[n].hold[s] = db[n].hold[s] \ Gone(n, s, j)
              /\ \A x \in Sides : x # s => db'[n].hold[x] = db[n].hold[x]
    BY <1>1, RunJobDb
  <1>3. CASE Skips(n, s, j) \/ k # n \/ t # s
    <2>1. db'[k].hold[t] = db[k].hold[t]
      BY <1>2, <1>3
    <2> QED
      BY <2>1 DEF Pending
  <1>4. CASE ~Skips(n, s, j) /\ k = n /\ t = s
    <2>1. jobs[n][s] \in Seq(Job) /\ Behind(jobs[n][s], db[n].lc[s], b)
      BY Parts DEF Queued
    <2>2. 1 \in 1..Len(jobs[n][s]) /\ j = jobs[n][s][1]
      BY <1>1, <1>2, <2>1
    <2>3. j.kind = "wallet" => i < b
      BY <2>1, <2>2 DEF Behind
    <2>4. b <= w /\ b \in Nat /\ w \in Nat /\ i \in Nat
      BY <1>2, Parts DEF Ordered, InOrder, Job
    <2>5. PICK h \in db[n].hold[s] : h.kind = "wallet" /\ h.id = w
      BY <1>4 DEF Pending
    <2>6. j.kind = "wallet" => i # w
      <3> HIDE DEF b, w, i
      <3> QED
        BY <2>3, <2>4
    <2>7. h \notin Gone(n, s, j)
      BY <2>5, <2>6 DEF Gone
    <2> QED
      BY <1>2, <1>4, <2>5, <2>7 DEF Pending
  <1> QED
    BY <1>3, <1>4

\* A signed withdrawal stays held back while it can be executed.
LEMMA HeldStep ==
  ASSUME Typed, Sync, Ordered, Queued, Awaited, Held, Next
  PROVE  /\ Held'
         /\ (\A n \in Sides : ~WithdrawSigned(n)) => \A s \in Sides : Live(s)' => Live(s)
  <1>1. ASSUME Tasked, Forward, chain' \in [Sides -> Contract],
               \A k, s \in Sides : Live(s) /\ chain'[s].wseq = chain[s].wseq
                                     /\ Pending(db[k], s, "wallet", chain[s].wseq) /\ k = Other(s)
                                     => Pending(db'[k], s, "wallet", chain[s].wseq)
        PROVE  Held' /\ \A s \in Sides : Live(s)' => Live(s)
    <2>1. ASSUME NEW s \in Sides
          PROVE  /\ task'[Other(s)].external.st = "todo" => task'[Other(s)].external.wseq <= chain'[s].wseq
                 /\ Live(s)' => Live(s) /\ Pending(db'[Other(s)], s, "wallet", chain'[s].wseq)
      <3>1. /\ task'[Other(s)].external.st = "todo" => task'[Other(s)].external.wseq <= chain'[s].wseq
            /\ Live(s)' => Live(s) /\ chain'[s].wseq = chain[s].wseq
        BY <1>1, LiveKept
      <3>2. Other(s) \in Sides
        BY OtherSide
      <3>3. Live(s) => Pending(db[Other(s)], s, "wallet", chain[s].wseq)
        BY DEF Held
      <3>4. Live(s)' => Pending(db'[Other(s)], s, "wallet", chain[s].wseq)
        BY <1>1, <3>1, <3>2, <3>3
      <3> QED
        BY <3>1, <3>4
    <2> QED
      BY <2>1 DEF Held
  <1>2. CASE Local
    <2>1. Tasked /\ UNCHANGED <<chain, db>>
      BY <1>2 DEF Local
    <2>2. Forward /\ chain' \in [Sides -> Contract]
      BY <2>1, ForwardKept
    <2> QED
      BY <1>1, <2>1, <2>2
  <1>3. CASE Tx
    <2>1. Tasked /\ UNCHANGED db
      BY <1>3 DEF Tx
    <2>2. Forward /\ chain' \in [Sides -> Contract]
      BY <1>3 DEF Tx, Transaction
    <2> QED
      BY <1>1, <2>1, <2>2
  <1>4. ASSUME NEW n \in Sides, Recorded(n)
        PROVE  /\ Held'
               /\ (\A k \in Sides : ~WithdrawSigned(k)) => \A s \in Sides : Live(s)' => Live(s)
    <2>1. UNCHANGED chain
      BY <1>4, RecordedFrame
    <2>2. Forward /\ chain' \in [Sides -> Contract]
      BY <2>1, ForwardKept
    <2>3. CASE WithdrawSigned(n)
      <3> DEFINE p == Other(n)
                 q == task[n].withdraw.wseq
      <3>1. p = Other(n) /\ q = task[n].withdraw.wseq
        OBVIOUS
      <3> HIDE DEF p, q
      <3>2. /\ q = db[p].lw[n]
            /\ \/ ExternalKept /\ UNCHANGED db
               \/ /\ task'[p].external.wseq = q /\ task'[n].external = task[n].external
                  /\ Pending(db'[p], n, "wallet", q)
        BY <2>3, <3>1, SignedTask
      <3>3. p \in Sides /\ Other(p) = n /\ \A s \in Sides : s = n \/ s = p
        BY <3>1, OtherSide
      <3>4. q <= chain[n].wseq
        BY <3>2, <3>3 DEF Ordered, InOrder
      <3>5. \A k, s \in Sides : db[k].hold[s] \subseteq db'[k].hold[s]
        BY <2>3, WithdrawDb
      <3>6. Held'
        <4>1. CASE ExternalKept /\ UNCHANGED db
          BY <2>1, <4>1, OtherSide DEF Held, Live, ExternalKept
        <4>2. CASE /\ task'[p].external.wseq = q /\ task'[n].external = task[n].external
                   /\ Pending(db'[p], n, "wallet", q)
          <5>1. ASSUME NEW s \in Sides
                PROVE  /\ task'[Other(s)].external.st = "todo" => task'[Other(s)].external.wseq <= chain'[s].wseq
                       /\ Live(s)' => Pending(db'[Other(s)], s, "wallet", chain'[s].wseq)
            <6>1. CASE s = n
              BY <2>1, <3>1, <3>4, <4>2, <6>1 DEF Live
            <6>2. CASE s = p
              <7>1. Pending(db[n], p, "wallet", chain[p].wseq) => Pending(db'[n], p, "wallet", chain[p].wseq)
                BY <3>3, <3>5 DEF Pending
              <7>2. /\ task[n].external.st = "todo" => task[n].external.wseq <= chain[p].wseq
                    /\ Live(p) => Pending(db[n], p, "wallet", chain[p].wseq)
                BY <3>3 DEF Held
              <7>3. Live(p)' <=> Live(p)
                BY <2>1, <3>3, <4>2 DEF Live
              <7> QED
                BY <2>1, <3>3, <4>2, <6>2, <7>1, <7>2, <7>3
            <6> QED
              BY <3>3, <6>1, <6>2
          <5> QED
            BY <5>1 DEF Held
        <4> QED
          BY <3>2, <4>1, <4>2
      <3> QED
        BY <2>3, <3>6
    <2>4. CASE CloseSigned(n)
      <3>1. ExternalKept /\ HoldKept
        BY <2>4, CloseTasks, CloseDbs
      <3>2. \A s \in Sides : Live(s)' <=> Live(s)
        BY <2>1, <3>1, OtherSide DEF Live, ExternalKept
      <3> QED
        BY <2>1, <3>1, <3>2, OtherSide DEF Held, ExternalKept, HoldKept, Pending
    <2>5. CASE ~WithdrawSigned(n) /\ ~CloseSigned(n)
      <3>1. Tasked
        BY <1>4, <2>5, RecordedTasks
      <3>2. ASSUME NEW k \in Sides, NEW s \in Sides, Pending(db[k], s, "wallet", chain[s].wseq)
            PROVE  Pending(db'[k], s, "wallet", chain[s].wseq)
        <4>1. CASE \E t \in Sides : RunJob(n, t)
          BY <3>2, <4>1, JobNotLive
        <4>2. CASE CommitAgreed(n)
          <5>1. \A x \in Sides : Clear(db[x])
            BY <4>2 DEF CommitAgreed
          <5> QED
            BY <3>2, <5>1 DEF Clear, Sides, Pending
        <4>3. CASE CommitSaved
          <5>1. Clear(db[half.by]) /\ db'[Other(half.by)] = db[Other(half.by)] /\ half.by \in Sides
            BY <4>3, CommitSavedDb DEF CommitSaved
          <5>2. k = half.by \/ k = Other(half.by)
            BY <5>1, OtherSide
          <5>3. k # half.by
            BY <3>2, <5>1 DEF Clear, Sides, Pending
          <5> QED
            BY <3>2, <5>1, <5>2, <5>3
        <4>4. CASE (\A t \in Sides : ~RunJob(n, t)) /\ ~CommitAgreed(n) /\ ~CommitSaved
          <5>1. db[k].hold[s] \subseteq db'[k].hold[s]
            BY <1>4, <4>4, RecordedDb
          <5> QED
            BY <3>2, <5>1 DEF Pending
        <4> QED
          BY <4>1, <4>2, <4>3, <4>4
      <3> QED
        BY <1>1, <2>2, <3>1, <3>2
    <2> QED
      BY <2>3, <2>4, <2>5
  <1> QED
    BY <1>2, <1>3, <1>4, Kinds

\* What was paid stays paid.
LEMMA PaidUpKept ==
  ASSUME Typed, StateKept, Forward, chain' \in [Sides -> Contract], NEW s \in Sides, PaidUp(s)
  PROVE  PaidUp(s)'
  <1> DEFINE o == db[1].owe[s]
             q == o.cs
  <1>1. db'[1].owe[s] = o /\ o \in Debt
    BY Parts DEF StateKept, Sides
  <1>2. q \in Nat
    BY <1>1 DEF Debt
  <1>3. \A k \in Sides : /\ chain[k].cseq \in Nat /\ chain'[k].cseq \in Nat /\ chain[k].cseq <= chain'[k].cseq
    BY Parts DEF Forward, Contract
  <1> HIDE DEF q
  <1>4. (\E k \in Sides : chain[k].cseq >= q) => \E k \in Sides : chain'[k].cseq >= q
    BY <1>2, <1>3
  <1> QED
    BY <1>1, <1>4 DEF PaidUp, q

\* Steps that propose and sign nothing.
LEMMA QuietKept ==
  ASSUME Typed, Quiet, StateKept, UNCHANGED half, Forward, chain' \in [Sides -> Contract],
         \A k \in Sides : db'[k].acc => db[k].acc,
         \A s \in Sides : Live(s)' => Live(s),
         Closing' => Closing
  PROVE  Quiet'
  <1> SUFFICES ASSUME Closing' 
               PROVE  /\ half' = NoHalf
                      /\ \A n \in Sides : ~db'[n].acc
                      /\ \A s \in Sides : PaidUp(s)' /\ db'[1].lock[s] = 0 /\ ~Live(s)'
    BY DEF Quiet, NoHalf
  <1>1. /\ half = NoHalf
        /\ \A n \in Sides : ~db[n].acc
        /\ \A s \in Sides : PaidUp(s) /\ db[1].lock[s] = 0 /\ ~Live(s)
    BY DEF Quiet
  <1>2. \A s \in Sides : PaidUp(s)'
    BY <1>1, PaidUpKept
  <1>3. \A s \in Sides : db'[1].lock[s] = 0
    BY <1>1 DEF StateKept, Sides
  <1> QED
    BY <1>1, <1>2, <1>3

\* A step that leaves the contracts alone and signs no close begins none.
LEMMA ClosingKept ==
  ASSUME UNCHANGED <<chain, transit>>, \A k \in Sides : task'[k].close.st = "signed" => task[k].close.st = "signed"
  PROVE  Closing' => Closing
  BY DEF Closing

\* The party signs the close: both have found nothing owed, locked or pending,
\* in the same state.
LEMMA QuietSigned ==
  ASSUME Typed, Sync, Ordered, Held, NEW n \in Sides, CloseSigned(n)
  PROVE  Quiet'
  <1> DEFINE p == Other(n)
  <1>1. p \in Sides /\ \A k \in Sides : k = n \/ k = p
    BY OtherSide
  <1>2. /\ db[n].seq = db[p].seq /\ CloseAllowed(db[n]) /\ CloseAllowed(db[p])
        /\ UNCHANGED <<chain, half>>
    BY DEF CloseSigned
  <1>3. half = NoHalf
    <2>1. half.by \notin Sides
      <3> SUFFICES ASSUME NEW k \in Sides, half.by = k PROVE FALSE
        OBVIOUS
      <3>1. db[Other(k)].seq = db[k].seq + 1
        BY DEF Sync
      <3>3. db[Other(k)].seq = db[k].seq
        BY <1>1, <1>2, OtherSide
      <3>4. db[k].seq \in 1..MaxSeq
        BY Parts
      <3>2. db[Other(k)].seq = db[k].seq /\ db[k].seq \in Nat
        BY <3>3, <3>4
      <3> QED
        BY <3>1, <3>2
    <2> QED
      BY <2>1 DEF Typed, Sides
  <1>4. /\ \A k \in Sides : ~db'[k].acc
        /\ StateKept
    BY CloseDbs
  <1>5. ExternalKept
    BY CloseTasks
  <1>6. \A k \in Sides : CloseAllowed(db[k])
    BY <1>1, <1>2
  <1>7. ASSUME NEW s \in Sides PROVE PaidUp(s)'
    <2> DEFINE o == db[1].owe[s]
               a == o.amt
               m == o.com
               q == o.cs
               l == db[1].lc[s]
               c == chain[s].cseq
    <2>0. 1 \in Sides
      BY DEF Sides
    <2>1. o \in Debt /\ l \in Nat /\ c \in Nat /\ l <= c
      BY <2>0, Parts DEF Ordered, InOrder
    <2>2. a \in Int /\ m \in Int /\ q \in Nat
      BY <2>1 DEF Debt
    <2>3. a - (IF l >= q THEN m ELSE 0) <= 0
      BY <1>6, <2>0 DEF CloseAllowed, Settled
    <2>4. db'[1].owe[s] = o /\ chain'[s].cseq = c
      BY <1>2, <1>4, <2>0 DEF StateKept
    <2> HIDE DEF a, m, q, l, c
    <2>5. a <= 0 \/ (a <= m /\ c >= q)
      BY <2>1, <2>2, <2>3
    <2> QED
      BY <2>4, <2>5 DEF PaidUp, a, m, q
  <1>8. ASSUME NEW s \in Sides PROVE db'[1].lock[s] = 0
    BY <1>4, <1>6 DEF StateKept, CloseAllowed, Empty, Sides
  <1>9. ASSUME NEW s \in Sides PROVE ~Live(s)'
    <2>1. Live(s)' => Live(s)
      BY <1>2, <1>5, OtherSide DEF Live, ExternalKept
    <2>2. Live(s) => Pending(db[Other(s)], s, "wallet", chain[s].wseq)
      BY DEF Held
    <2>3. Clear(db[Other(s)])
      BY <1>6, OtherSide DEF CloseAllowed
    <2>4. ~Pending(db[Other(s)], s, "wallet", chain[s].wseq)
      BY <2>3 DEF Clear, Pending, Sides
    <2> QED
      BY <2>1, <2>2, <2>4
  <1> QED
    BY <1>2, <1>3, <1>4, <1>7, <1>8, <1>9 DEF Quiet, NoHalf

\* From a signed close on, nothing is proposed or signed.
LEMMA QuietStep ==
  ASSUME Typed, Sync, Ordered, Queued, Awaited, Held, Quiet, Next
  PROVE  Quiet'
  <1>1. CASE \E k \in Sides : WithdrawSigned(k)
    <2>1. PICK k \in Sides : WithdrawSigned(k)
      BY <1>1
    <2> DEFINE p == Other(k)
               q == task[k].withdraw.wseq
    <2>2. p = Other(k) /\ q = task[k].withdraw.wseq
      OBVIOUS
    <2> HIDE DEF p, q
    <2>3. CloseKept
      BY <2>1, <2>2, SignedTask
    <2>4. UNCHANGED <<chain, transit>> /\ db[Other(k)].acc
      BY <2>1 DEF WithdrawSigned
    <2>5. Closing' => Closing
      BY <2>3, <2>4, ClosingKept DEF CloseKept
    <2>6. ~Closing
      BY <2>4, OtherSide DEF Quiet
    <2> QED
      BY <2>5, <2>6 DEF Quiet
  <1>2. CASE \A k \in Sides : ~WithdrawSigned(k)
    <2>0. \A s \in Sides : Live(s)' => Live(s)
      BY <1>2, HeldStep
    <2>1. CASE Local
      <3>1. UNCHANGED <<chain, transit, db, half>> /\ Tasked
        BY <2>1 DEF Local
      <3>2. Forward /\ chain' \in [Sides -> Contract] /\ StateKept
        BY <3>1, ForwardKept, DbKept
      <3>3. Closing' => Closing
        BY <3>1, ClosingKept DEF Tasked
      <3> QED
        BY <2>0, <3>1, <3>2, <3>3, QuietKept
    <2>2. CASE Tx
      <3>1. UNCHANGED <<db, half>> /\ (Closing' => Closing)
        BY <2>2 DEF Tx
      <3>2. Forward /\ chain' \in [Sides -> Contract]
        BY <2>2 DEF Tx, Transaction
      <3>3. StateKept
        BY <3>1, DbKept
      <3> QED
        BY <2>0, <3>1, <3>2, <3>3, QuietKept
    <2>3. ASSUME NEW n \in Sides, Recorded(n) PROVE Quiet'
      <3>1. UNCHANGED <<chain, transit>>
        BY <2>3, RecordedFrame
      <3>2. CASE CloseSigned(n)
        BY <3>2, QuietSigned
      <3>3. CASE ~CloseSigned(n)
        <4>1. Tasked
          BY <1>2, <2>3, <3>3, RecordedTasks
        <4>2. Closing' => Closing
          BY <3>1, <4>1, ClosingKept DEF Tasked
        <4>3. CASE \/ \E amt \in Payments : OpenConditional(n, amt)
                   \/ \E paid \in BOOLEAN : CloseConditional(n, paid)
                   \/ CommitAgreed(n)
          <5>1. db[Other(n)].acc
            BY <4>3 DEF OpenConditional, CloseConditional, CommitAgreed, MayPropose
          <5>2. ~Closing
            BY <5>1, OtherSide DEF Quiet
          <5> QED
            BY <4>2, <5>2 DEF Quiet
        <4>4. CASE CommitSaved
          <5>1. ~Closing
            BY <4>4 DEF CommitSaved, Quiet
          <5> QED
            BY <4>2, <5>1 DEF Quiet
        <4>5. CASE /\ ~\E amt \in Payments : OpenConditional(n, amt)
                   /\ ~\E paid \in BOOLEAN : CloseConditional(n, paid)
                   /\ ~CommitAgreed(n) /\ ~CommitSaved
          <5>1. UNCHANGED half
            BY <2>3, <4>5, RecordedFrame
          <5>2. StateKept
            BY <2>3, <4>5, RecordedDb
          <5>3. \A k \in Sides : db'[k].acc => db[k].acc
            BY <2>3, RecordedDb
          <5>4. Forward /\ chain' \in [Sides -> Contract]
            BY <3>1, ForwardKept
          <5> QED
            BY <2>0, <4>2, <5>1, <5>2, <5>3, <5>4, QuietKept
        <4> QED
          BY <4>3, <4>4, <4>5
      <3> QED
        BY <3>2, <3>3
    <2> QED
      BY <2>1, <2>2, <2>3, Kinds
  <1> QED
    BY <1>1, <1>2

-----------------------------------------------------------------------------
(* The theorems.                                                           *)

\* The invariant holds at the beginning.
LEMMA Begins ==
  Init => IInv
  <1> SUFFICES ASSUME Init PROVE IInv
    OBVIOUS
  <1> DEFINE none == [s \in Sides |-> 0]
             free == [s \in Sides |-> {}]
             owe == [s \in Sides |-> [amt |-> Owed[s], com |-> 0, cs |-> 0]]
             d == [seq |-> 1, owe |-> owe, lock |-> none, hold |-> free, pc |-> 0, bal |-> Start, lc |-> none,
                   lw |-> none, acc |-> TRUE, status |-> "active"]
             w == [st |-> "none", amt |-> 0, wseq |-> 0]
             cm == [st |-> "none", fee |-> FALSE, seq |-> 0]
             ex == [st |-> "none", seq |-> 0, at |-> 1, pay |-> none]
             et == [st |-> "none", amt |-> 0, wseq |-> 0]
             cl == [st |-> "none", seq |-> 0]
             dp == [st |-> "none", val |-> 0, count |-> 0]
             t == [withdraw |-> w, commit |-> cm, execute |-> ex, external |-> et, close |-> cl, deposit |-> dp]
  <1>1. /\ chain = [s \in Sides |-> [bal |-> Start[s], cseq |-> 0, wseq |-> 0, open |-> TRUE]]
        /\ transit = {} /\ half = NoHalf
        /\ ev = [n \in Sides |-> [s \in Sides |-> <<>>]] /\ jobs = [n \in Sides |-> [s \in Sides |-> <<>>]]
        /\ db = [n \in Sides |-> d] /\ task = [n \in Sides |-> t]
    BY DEF Init, Empty
  <1>2. none \in [Sides -> Nat] /\ none \in [Sides -> Int] /\ free \in [Sides -> SUBSET Hold] /\ Start \in [Sides -> Int]
    OBVIOUS
  <1>3. owe \in [Sides -> Debt] /\ \A s \in Sides : owe[s].amt = Owed[s] /\ owe[s].com = 0
    BY DEF Debt
  <1>4. /\ w \in Withdraw /\ cm \in Commit /\ et \in External /\ cl \in Close /\ dp \in Deposit
        /\ et.st = "none" /\ cl.st = "none" /\ dp.st = "none"
    BY DEF Withdraw, Commit, External, Close, Deposit
  <1>5. ex \in Execute
    <2> HIDE DEF none
    <2> QED
      BY <1>2 DEF Execute, Sides
  <1>6. t \in Tasks /\ t.external = et /\ t.close = cl /\ t.deposit = dp
    <2> HIDE DEF w, cm, ex, et, cl, dp
    <2> QED
      BY <1>4, <1>5 DEF Tasks
  <1>7. /\ d \in Record /\ d.seq = 1 /\ d.owe = owe /\ d.lock = none /\ d.hold = free /\ d.bal = Start
        /\ d.lc = none /\ d.lw = none /\ d.acc = TRUE
    <2>1. 1 \in 1..MaxSeq
      OBVIOUS
    <2> HIDE DEF none, free, owe
    <2> QED
      BY <1>2, <1>3, <2>1 DEF Record
  <1>8. \A s \in Sides : none[s] = 0 /\ free[s] = {}
    OBVIOUS
  <1>9. chain \in [Sides -> Contract] /\ \A s \in Sides : chain[s].bal = Start[s] /\ chain[s].cseq = 0 /\ chain[s].wseq = 0 /\ chain[s].open
    BY <1>1 DEF Contract
  <1>10. \A n, s \in Sides : ev[n][s] = <<>> /\ jobs[n][s] = <<>>
    BY <1>1
  <1> HIDE DEF none, free, owe, d, w, cm, ex, et, cl, dp, t
  <1>11. \A n \in Sides : db[n] = d /\ task[n] = t
    BY <1>1
  <1>12. Typed
    <2>1. ev \in [Sides -> [Sides -> Seq(Event)]] /\ jobs \in [Sides -> [Sides -> Seq(Job)]]
      BY <1>1
    <2>2. db \in [Sides -> Record] /\ task \in [Sides -> Tasks]
      BY <1>1, <1>6, <1>7
    <2>3. half \in [by : 0..2, fee : BOOLEAN]
      BY <1>1 DEF NoHalf
    <2> QED
      BY <1>1, <1>9, <2>1, <2>2, <2>3 DEF Typed
  <1>13. Sync
    BY <1>1, <1>11 DEF Sync, NoHalf, Sides
  <1>14. Owes
    BY <1>3, <1>7, <1>11 DEF Owes
  <1>15. Ordered
    <2>1. \A n, s \in Sides : db[n].lc[s] = 0 /\ db[n].lw[s] = 0
      BY <1>7, <1>8, <1>11
    <2> QED
      BY <1>9, <1>10, <2>1 DEF Ordered, InOrder
  <1>16. Queued /\ Awaited
    BY <1>10, SMTT(30) DEF Queued, Awaited, Behind, Waits
  <1>17. Counted /\ Held
    BY <1>4, <1>6, <1>11, OtherSide DEF Counted, Held, Live
  <1>18. Quiet
    BY <1>1, <1>4, <1>6, <1>9, <1>11 DEF Quiet, Closing
  <1>19. Known
    BY <1>7, <1>9, <1>11 DEF Known
  <1> QED
    BY <1>12, <1>13, <1>14, <1>15, <1>16, <1>17, <1>18, <1>19 DEF IInv

\* A step that changes nothing.
LEMMA Stutters ==
  ASSUME IInv, UNCHANGED vars
  PROVE  IInv'
  <1>1. UNCHANGED <<chain, transit, ev, db, half, jobs, task>>
    BY DEF vars
  <1>2. Typed'
    BY <1>1 DEF IInv, Typed, NoHalf
  <1>3. Sync' /\ Owes'
    BY <1>1, DbKept, SyncKept DEF IInv
  <1>4. Ordered' /\ Queued' /\ Awaited'
    BY <1>1 DEF IInv, Ordered, Queued, Awaited
  <1>5. Counted' /\ Known'
    BY <1>1 DEF IInv, Counted, Known, Active
  <1>6. Held'
    BY <1>1 DEF IInv, Held, Live, Pending
  <1>7. Quiet'
    BY <1>1 DEF IInv, Quiet, Closing, PaidUp, Live, NoHalf
  <1> QED
    BY <1>2, <1>3, <1>4, <1>5, <1>6, <1>7 DEF IInv

\* Balances has the inductive invariant: typed, in step, in order, awaited, held,
\* quiet from a signed close on, and known.
THEOREM Inductive == Spec => []IInv
  <1>1. IInv /\ [Next]_vars => IInv'
    <2> SUFFICES ASSUME IInv, [Next]_vars PROVE IInv'
      OBVIOUS
    <2>1. CASE Next
      <3>1. Typed /\ Sync /\ Owes /\ Ordered /\ Queued /\ Awaited /\ Counted /\ Held /\ Quiet /\ Known
        BY DEF IInv
      <3>2. Typed'
        BY <2>1, <3>1, TypedStep
      <3>3. Sync' /\ Owes'
        BY <2>1, <3>1, SyncStep
      <3>4. Ordered' /\ Queued' /\ Awaited'
        BY <2>1, <3>1, QueueStep
      <3>5. Counted' /\ Known'
        BY <2>1, <3>1, CountedStep, KnownStep
      <3>6. Held' /\ Quiet'
        BY <2>1, <3>1, HeldStep, QuietStep
      <3> QED
        BY <3>2, <3>3, <3>4, <3>5, <3>6 DEF IInv
    <2>2. CASE UNCHANGED vars
      BY <2>2, Stutters
    <2> QED
      BY <2>1, <2>2
  <1> QED
    BY <1>1, Begins, PTL DEF Spec

\* The types hold, and a node's record is never ahead of a contract
\* (LatestCommitedSeqno and LatestWalletSeqno of processSideUpdate).
THEOREM TypeCorrect == Spec => []TypeOK
  <1>1. IInv => TypeOK
    <2> SUFFICES ASSUME IInv PROVE TypeOK
      OBVIOUS
    <2>1. Typed /\ Ordered
      BY DEF IInv
    <2>2. \A s \in Sides : chain[s] \in [bal : Int, cseq : Nat, wseq : Nat, open : BOOLEAN]
      BY <2>1 DEF Typed, Contract
    <2>3. \A n \in Sides : db[n].seq \in 1..MaxSeq /\ db[n].status \in {"active", "inactive"} /\ db[n].acc \in BOOLEAN
      BY <2>1, Parts
    <2>4. \A n, s \in Sides : db[n].lock[s] \in Nat /\ db[n].owe[s].amt \in Int
      BY <2>1, Parts DEF Debt
    <2>5. \A n, s \in Sides : db[n].lc[s] \in 0..chain[s].cseq /\ db[n].lw[s] \in 0..chain[s].wseq
      <3>1. \A n, s \in Sides : /\ db[n].lc[s] \in Nat /\ db[n].lw[s] \in Nat
                                /\ chain[s].cseq \in Nat /\ chain[s].wseq \in Nat
        BY <2>1, Parts
      <3>2. \A n, s \in Sides : db[n].lc[s] <= chain[s].cseq /\ db[n].lw[s] <= chain[s].wseq
        BY <2>1 DEF Ordered, InOrder
      <3> QED
        BY <3>1, <3>2
    <2> QED
      BY <2>2, <2>3, <2>4, <2>5 DEF TypeOK
  <1> QED
    BY <1>1, Inductive, PTL

\* What an active node believes of a contract is true once its events and jobs
\* are through, for any balances, amounts and number of transfers
\* (processSideUpdate and the queue of refresh-onchain-balance).
THEOREM KnownHolds == Spec => []Known
  <1>1. IInv => Known
    BY DEF IInv
  <1> QED
    BY <1>1, Inductive, PTL

\* A channel is closed cooperatively only when nothing is owed or locked and no
\* signed withdrawal can be executed (getCooperativeCloseRequest on both sides).
THEOREM NoDebtAtCloseHolds == Spec => []NoDebtAtClose
  <1>1. IInv => NoDebtAtClose
    <2> SUFFICES ASSUME IInv, NEW z \in Sides, ~chain[z].open
                 PROVE  Unpaid(1) <= 0 /\ Unpaid(2) <= 0 /\ Newest.lock = Empty(0) /\ Signed(1) = 0 /\ Signed(2) = 0
      BY DEF NoDebtAtClose
    <2>1. Typed /\ Sync /\ Owes /\ Quiet
      BY DEF IInv
    <2>2. /\ half = NoHalf
          /\ \A s \in Sides : PaidUp(s) /\ db[1].lock[s] = 0 /\ ~Live(s)
      BY <2>1 DEF Quiet, Closing
    <2>3. db[1].seq = db[2].seq /\ db[1].owe = db[2].owe /\ db[1].lock = db[2].lock
      BY <2>1, <2>2 DEF Sync
    <2>4. Newest.owe = db[1].owe /\ Newest.lock = db[1].lock
      <3> DEFINE n == CHOOSE n \in Sides : db[n].seq >= db[Other(n)].seq
      <3>5. 1 \in Sides /\ db[1].seq \in 1..MaxSeq
        BY <2>1, Parts DEF Sides
      <3>1. 1 \in Sides /\ db[1].seq \in Int
        BY <3>5
      <3>2. \E k \in Sides : db[k].seq >= db[Other(k)].seq
        BY <2>3, <3>1, OtherSide
      <3>3. n \in Sides
        BY <3>2
      <3>4. Newest = db[n]
        BY DEF Newest
      <3> HIDE DEF n
      <3> QED
        BY <2>3, <3>3, <3>4 DEF Sides
    <2>5. Newest.lock = Empty(0)
      <3>1. db[1].lock \in [Sides -> Nat]
        BY <2>1, Parts DEF Record, Sides
      <3>2. db[1].lock = [s \in Sides |-> 0]
        BY <2>2, <3>1
      <3> QED
        BY <2>4, <3>2 DEF Empty
    <2>6. ASSUME NEW s \in Sides PROVE Unpaid(s) <= 0
      <3> DEFINE o == db[1].owe[s]
                 a == o.amt
                 m == o.com
                 paid == \E k \in Sides : chain[k].cseq >= o.cs
      <3>1. a <= 0 \/ (a <= m /\ paid)
        BY <2>2 DEF PaidUp
      <3>2. Unpaid(s) = a - (IF paid THEN m ELSE 0)
        BY <2>4 DEF Unpaid
      <3>3. o \in Debt /\ 0 <= m
        BY <2>1, Parts DEF Owes, Sides
      <3>4. a \in Int /\ m \in Int
        BY <3>3 DEF Debt
      <3>5. a - (IF paid THEN m ELSE 0) <= 0
        <4> HIDE DEF a, m, paid
        <4> QED
          BY <3>1, <3>3, <3>4
      <3> QED
        BY <3>2, <3>5
    <2>7. ASSUME NEW s \in Sides PROVE Signed(s) = 0
      BY <2>2 DEF Signed, Live
    <2> QED
      BY <2>5, <2>6, <2>7 DEF Sides
  <1> QED
    BY <1>1, Inductive, PTL

=============================================================================
