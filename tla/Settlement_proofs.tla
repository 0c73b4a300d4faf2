------------------------- MODULE Settlement_proofs -------------------------
(***************************************************************************)
(* Proofs about Settlement: whatever states the party commits, in whatever *)
(* order, for any length of the phases and any number of conditionals, the *)
(* contract holds the newest state when the quarantine is over, and our    *)
(* database the data of it (NewestCounts), and every resolve we know is    *)
(* settled and every action executed when the time is over (AllPaid).      *)
(***************************************************************************)
EXTENDS Settlement, TLAPS, FiniteSetTheorems

\* A sequence, whatever is in it.
IsSeq(s) == s \in Seq({s[i] : i \in DOMAIN s})

Tasks == [Kinds -> [st : {"none", "todo", "done"}, due : Nat, till : Nat]]

ChainRecord(c) ==
    /\ c = [status |-> c.status, seqno |-> c.seqno, owner |-> c.owner, start |-> c.start, lt |-> c.lt,
            done |-> c.done, fin |-> c.fin, their |-> c.their, acts |-> c.acts]
    /\ c.status \in {"open", "closing", "gone"} /\ c.seqno \in Nat /\ c.start \in Nat /\ c.lt \in Nat
    /\ c.owner \in BOOLEAN

DbRecord(d) ==
    /\ d = [status |-> d.status, accepting |-> d.accepting, started |-> d.started, seqno |-> d.seqno, fin |-> d.fin,
            lt |-> d.lt, partyLt |-> d.partyLt, done |-> d.done, their |-> d.their]
    /\ d.started \in BOOLEAN /\ d.seqno \in {Newest, Newest + 1} /\ d.lt \in Nat

Shape ==
    /\ now \in Nat /\ ChainRecord(chain) /\ DbRecord(db) /\ task \in Tasks /\ IsSeq(ours)

\* What an event of our contract says of the contract as it is now.
Reported(e, c) ==
    /\ e.lt \in Nat /\ 0 < e.lt /\ e.lt <= c.lt
    /\ e.seqno \in Nat /\ e.seqno <= c.seqno /\ e.start = c.start
    /\ e.gone => c.status = "gone"
    /\ e.owner => e.seqno >= Newest
    /\ e.kind = "close" /\ e.seqno = Newest + 1 => ~e.ext

\* The events that are not processed are in the order of their times.
Reports ==
    /\ \A i \in 1 .. Len(ours) : Reported(ours[i], chain)
    /\ \A i, j \in 1 .. Len(ours) : i < j => ours[i].lt < ours[j].lt

\* The close has not begun, has begun, or is over: on the contract and in the database.
Begun ==
    /\ chain.status = "open" => chain.seqno = 0 /\ ours = <<>> /\ ~db.started
    /\ chain.status # "open" => chain.start <= now
    /\ chain.status # "gone" => db.status # "inactive"
    /\ chain.status # "gone" /\ ~db.started => db.lt = 0 /\ task["challenge"].st = "none"
    /\ chain.status = "closing" /\ ~db.started => ours # <<>>
    /\ db.lt <= chain.lt
    /\ task["challenge"].st # "none" =>
         task["challenge"].due <= now /\ task["challenge"].till = SettleAt(chain.start)

\* The states that can be committed, and the one our database has the data of.
States ==
    /\ chain.seqno <= Newest + 1 /\ (chain.seqno = Newest + 1 => Pending)
    /\ chain.owner => chain.seqno >= Newest
    /\ db.seqno = Newest + 1 => chain.seqno = Newest + 1

InQuarantine == chain.status = "closing" /\ now < SettleAt(chain.start)

\* An event that will make our database know the pending state.
Tells(e) == e.kind = "close" /\ ~e.ext /\ e.seqno = Newest + 1 /\ e.lt > db.lt

\* In the quarantine an older state is challenged, or is going to be, and a newer one is
\* known to the database, or is going to be.
Answered ==
    InQuarantine =>
        /\ chain.seqno < Newest /\ db.started => task["challenge"].st = "todo"
        /\ chain.seqno = Newest + 1 /\ db.seqno = Newest => \E i \in 1 .. Len(ours) : Tells(ours[i])

\* After it the newest state counts.
Counted == chain.status # "open" /\ ~InQuarantine => chain.seqno >= Newest /\ db.seqno = chain.seqno

\* The inductive invariant.
IInv == Shape /\ Reports /\ Begun /\ States /\ Answered /\ Counted

-----------------------------------------------------------------------------
(* Facts about the operators.                                              *)

\* What the proofs use of the constants all the time.
LEMMA Sizes ==
    /\ Newest \in Nat \ {0} /\ Quarantine \in Nat \ {0} /\ CondTime \in Nat \ {0} /\ ActTime \in Nat \ {0}
    /\ MaxTime \in Nat /\ Pending \in BOOLEAN
BY SettlementAssumption

USE Sizes

\* A sequence of anything is a sequence.
LEMMA SeqIs ==
    ASSUME NEW S, NEW s \in Seq(S)
    PROVE  IsSeq(s)
<1>1. s \in [1 .. Len(s) -> {s[i] : i \in DOMAIN s}] /\ Len(s) \in Nat
  OBVIOUS
<1>2. \A T : \A n \in Nat : \A f \in [1 .. n -> T] : f \in Seq(T)
  OBVIOUS
<1>3. QED
  BY <1>1, <1>2 DEF IsSeq

\* An event is appended.
LEMMA AppendIs ==
    ASSUME NEW s, NEW e, IsSeq(s)
    PROVE  LET r == Append(s, e)
           IN  /\ IsSeq(r) /\ Len(s) \in Nat /\ Len(r) = Len(s) + 1
               /\ \A i \in 1 .. Len(s) : r[i] = s[i]
               /\ r[Len(s) + 1] = e
<1> DEFINE T == {s[i] : i \in DOMAIN s} \cup {e}
<1>1. s \in Seq(T) /\ e \in T
  <2>1. \A A, B : A \subseteq B => Seq(A) \subseteq Seq(B)
    OBVIOUS
  <2>2. QED
    BY <2>1 DEF IsSeq
<1> HIDE DEF T
<1>2. Append(s, e) \in Seq(T)
  BY <1>1
<1>3. PICK r : r = Append(s, e)
  OBVIOUS
<1>4. IsSeq(r)
  BY <1>2, <1>3, SeqIs
<1>5. Len(s) \in Nat /\ Len(r) = Len(s) + 1 /\ (\A i \in 1 .. Len(s) : r[i] = s[i]) /\ r[Len(s) + 1] = e
  BY <1>1, <1>3
<1>6. QED
  BY <1>3, <1>4, <1>5

\* The first event is taken away.
LEMMA TailIs ==
    ASSUME NEW s, IsSeq(s), s # <<>>
    PROVE  /\ IsSeq(Tail(s)) /\ Len(s) \in Nat \ {0} /\ Len(Tail(s)) = Len(s) - 1 /\ Head(s) = s[1]
           /\ \A i \in 1 .. Len(Tail(s)) : Tail(s)[i] = s[i + 1] /\ i + 1 \in 1 .. Len(s)
<1>1. PICK T : s \in Seq(T)
  BY DEF IsSeq
<1>2. Tail(s) \in Seq(T)
  BY <1>1
<1>3. IsSeq(Tail(s))
  BY <1>2, SeqIs
<1>4. QED
  BY <1>1, <1>2, <1>3

\* The phases follow each other in time.
LEMMA PhaseIs ==
    ASSUME Shape
    PROVE  /\ Phase = "closure" <=> InQuarantine
           /\ Phase \in {"settling", "executing", "awaiting"} <=> chain.status = "closing" /\ ~InQuarantine
           /\ Phase = "gone" <=> chain.status = "gone"
           /\ Phase \in {"open", "closure", "settling", "executing", "awaiting", "gone"}
<1>1. now \in Nat /\ chain.start \in Nat /\ chain.status \in {"open", "closing", "gone"}
  BY DEF Shape, ChainRecord
<1>2. CASE chain.status = "closing"
  <2>1. /\ PhaseAt(chain.start, now) = "closure" <=> now < SettleAt(chain.start)
        /\ PhaseAt(chain.start, now) \in {"closure", "settling", "executing", "awaiting"}
    <3>1. PICK a, b, c \in Nat : a = SettleAt(chain.start) /\ b = ActAt(chain.start) /\ c = FinalizeAt(chain.start)
      BY <1>1 DEF SettleAt, ActAt, FinalizeAt
    <3>2. CASE now < a
      BY <3>1, <3>2 DEF PhaseAt
    <3>3. CASE ~(now < a) /\ now < b
      BY <3>1, <3>3 DEF PhaseAt
    <3>4. CASE ~(now < a) /\ ~(now < b) /\ now < c
      BY <3>1, <3>4 DEF PhaseAt
    <3>5. CASE ~(now < a) /\ ~(now < b) /\ ~(now < c)
      BY <3>1, <3>5 DEF PhaseAt
    <3>6. QED
      BY <3>2, <3>3, <3>4, <3>5
  <2>2. QED
    BY <1>2, <2>1 DEF Phase, InQuarantine
<1>3. CASE chain.status # "closing"
  BY <1>1, <1>3 DEF Phase, InQuarantine
<1>4. QED
  BY <1>2, <1>3

\* What a task that is done leaves of the others.
LEMMA DoneIs ==
    ASSUME NEW ts \in Tasks, NEW k \in Kinds
    PROVE  /\ [ts EXCEPT ![k].st = "done"] \in Tasks
           /\ \A j \in Kinds : j # k => [ts EXCEPT ![k].st = "done"][j] = ts[j]
           /\ [ts EXCEPT ![k].st = "done"][k] = [ts[k] EXCEPT !.st = "done"]
BY DEF Tasks

\* A task other than "challenge" that is done leaves that one alone.
LEMMA OtherDone ==
    ASSUME NEW ts \in Tasks, NEW k \in {"uncoop", "deploy", "settle", "act", "finalize"}
    PROVE  LET r == [ts EXCEPT ![k].st = "done"]
           IN  r \in Tasks /\ r["challenge"] = ts["challenge"]
<1>1. "challenge" \in Kinds /\ k \in Kinds /\ k # "challenge"
  BY DEF Kinds
<1>2. [ts EXCEPT ![k].st = "done"] \in Tasks
  BY <1>1, DoneIs, Zenon
<1>3. [ts EXCEPT ![k].st = "done"]["challenge"] = ts["challenge"]
  BY <1>1 DEF Tasks
<1>4. QED
  BY <1>2, <1>3

\* The names of the tasks.
LEMMA Names ==
    /\ "uncoop" \in Kinds /\ "deploy" \in Kinds /\ "challenge" \in Kinds /\ "settle" \in Kinds
    /\ "act" \in Kinds /\ "finalize" \in Kinds /\ Forever \in Nat
    /\ "uncoop" # "challenge" /\ "deploy" # "challenge" /\ "settle" # "challenge"
    /\ "act" # "challenge" /\ "finalize" # "challenge"
BY DEF Kinds, Forever

-----------------------------------------------------------------------------
(* The steps.                                                              *)

\* The database keeps what the invariant says of it.
SameDb ==
    /\ DbRecord(db') /\ db'.started = db.started /\ db'.seqno = db.seqno /\ db'.lt = db.lt
    /\ db'.status = "inactive" => db.status = "inactive"

\* Steps that touch neither the contract nor its events.
LEMMA QuietStep ==
    ASSUME IInv, chain' = chain, ours' = ours, now' = now, SameDb,
           task' \in Tasks, task'["challenge"] = task["challenge"]
    PROVE  IInv'
<1>1. Shape' /\ Reports'
  BY DEF IInv, Shape, Reports, SameDb
<1>2. Begun' /\ States'
  BY DEF IInv, Begun, States, SameDb
<1>3. Answered' /\ Counted'
  BY DEF IInv, Answered, Counted, InQuarantine, Tells, SameDb
<1>4. QED
  BY <1>1, <1>2, <1>3 DEF IInv

\* A transaction is reported.
LEMMA EmitReports ==
    ASSUME Shape, Reports, NEW c, NEW kind, NEW byUs \in BOOLEAN, NEW set, Emit(c, kind, byUs, set), ChainRecord(c),
           c.lt = chain.lt + 1, c.seqno >= chain.seqno, c.start = chain.start \/ ours = <<>>,
           chain.status # "gone", c.owner => c.seqno >= Newest,
           kind = "close" /\ c.seqno = Newest + 1 => ~byUs
    PROVE  /\ chain' = c /\ IsSeq(ours') /\ Reports' /\ Len(ours) \in Nat
           /\ \A i \in 1 .. Len(ours) : i \in 1 .. Len(ours') /\ ours'[i] = ours[i]
           /\ kind = "close" => \E i \in 1 .. Len(ours') : /\ ours'[i].lt = c.lt /\ ours'[i].kind = "close"
                                                          /\ ours'[i].seqno = c.seqno /\ ours'[i].ext = byUs
<1>1. PICK e : e = [kind |-> kind, lt |-> c.lt, ext |-> byUs, seqno |-> c.seqno, owner |-> c.owner,
                    start |-> c.start, gone |-> c.status = "gone", fin |-> c.fin, set |-> set,
                    done |-> c.done, their |-> c.their]
  OBVIOUS
<1>2. chain' = c /\ (ours' = IF kind \in {"close", "settle", "fin", "gone"} THEN Append(ours, e) ELSE ours)
  BY <1>1 DEF Emit
<1>3. IsSeq(ours) /\ Len(ours) \in Nat /\ ChainRecord(chain)
  BY AppendIs DEF Shape
<1>4. ASSUME NEW i \in 1 .. Len(ours)
      PROVE  Reported(ours[i], c) /\ ours[i].lt < c.lt
  <2>1. Reported(ours[i], chain) /\ ours # <<>>
    BY <1>3 DEF Reports
  <2>2. PICK x : x = ours[i] /\ Reported(x, chain)
    BY <2>1
  <2>3. /\ x.lt \in Nat /\ 0 < x.lt /\ x.lt <= chain.lt /\ x.seqno \in Nat /\ x.seqno <= chain.seqno
        /\ chain.lt \in Nat /\ chain.seqno \in Nat /\ c.seqno \in Nat
    BY <1>3, <2>2 DEF Reported, ChainRecord
  <2>4. x.lt < c.lt /\ x.lt <= c.lt /\ x.seqno <= c.seqno
    BY <2>3
  <2>5. x.start = c.start /\ ~x.gone
    BY <2>1, <2>2 DEF Reported
  <2>6. Reported(x, c)
    BY <2>2, <2>3, <2>4, <2>5 DEF Reported
  <2>7. QED
    BY <2>2, <2>4, <2>6
<1>5. Reported(e, c)
  <2>1. /\ e.kind = kind /\ e.lt = c.lt /\ e.ext = byUs /\ e.seqno = c.seqno /\ e.owner = c.owner
        /\ e.start = c.start /\ e.gone = (c.status = "gone")
    BY <1>1
  <2>2. e.lt \in Nat /\ 0 < e.lt /\ e.lt <= c.lt /\ e.seqno \in Nat /\ e.seqno <= c.seqno /\ e.start = c.start
    BY <1>3, <2>1 DEF ChainRecord
  <2>3. e.gone => c.status = "gone"
    BY <2>1
  <2>4. e.owner => e.seqno >= Newest
    BY <2>1
  <2>5. e.kind = "close" /\ e.seqno = Newest + 1 => ~e.ext
    BY <2>1
  <2>6. QED
    BY <2>2, <2>3, <2>4, <2>5 DEF Reported
<1>6. CASE kind \in {"close", "settle", "fin", "gone"}
  <2>1. ours' = Append(ours, e)
    BY <1>2, <1>6
  <2>2. /\ IsSeq(ours') /\ Len(ours') = Len(ours) + 1 /\ ours'[Len(ours) + 1] = e
        /\ \A i \in 1 .. Len(ours) : ours'[i] = ours[i]
    BY <1>3, <2>1, AppendIs
  <2>3. \A i \in 1 .. Len(ours') : i \in 1 .. Len(ours) \/ i = Len(ours) + 1
    BY <1>3, <2>2
  <2>4. \A i \in 1 .. Len(ours') : Reported(ours'[i], c)
    BY <1>4, <1>5, <2>2, <2>3
  <2>5. ASSUME NEW i \in 1 .. Len(ours'), NEW j \in 1 .. Len(ours'), i < j
        PROVE  ours'[i].lt < ours'[j].lt
    <3>1. i \in 1 .. Len(ours)
      BY <1>3, <2>2, <2>5
    <3>2. CASE j \in 1 .. Len(ours)
      BY <2>2, <2>5, <3>1, <3>2 DEF Reports
    <3>3. CASE j = Len(ours) + 1
      BY <1>1, <1>4, <2>2, <3>1, <3>3
    <3>4. QED
      BY <2>3, <3>2, <3>3
  <2>6. Reports'
    BY <1>2, <2>4, <2>5 DEF Reports
  <2>7. /\ Len(ours) + 1 \in 1 .. Len(ours')
        /\ e.kind = kind /\ e.lt = c.lt /\ e.ext = byUs /\ e.seqno = c.seqno
        /\ \A i \in 1 .. Len(ours) : i \in 1 .. Len(ours')
    BY <1>1, <1>3, <2>2
  <2>8. QED
    BY <1>2, <1>3, <2>2, <2>6, <2>7
<1>7. CASE kind \notin {"close", "settle", "fin", "gone"}
  <2>1. ours' = ours
    BY <1>2, <1>7
  <2>2. Reports'
    BY <1>2, <1>4, <2>1 DEF Reports
  <2>3. QED
    BY <1>2, <1>3, <1>7, <2>1, <2>2
<1>8. QED
  BY <1>6, <1>7

\* A transaction after the quarantine leaves the committed state.
LEMMA LaterTx ==
    ASSUME IInv, NEW c, NEW kind, NEW byUs \in BOOLEAN, NEW set, Emit(c, kind, byUs, set), ChainRecord(c), kind # "close",
           Phase \in {"settling", "executing", "awaiting"},
           c.lt = chain.lt + 1, c.seqno = chain.seqno, c.start = chain.start, c.owner = chain.owner,
           c.status \in {"closing", "gone"}, now' = now, db' = db, task' \in Tasks,
           task'["challenge"] = task["challenge"]
    PROVE  IInv'
<1>1. chain.status = "closing" /\ ~InQuarantine
  BY PhaseIs DEF IInv
<1>2. ChainRecord(chain) /\ DbRecord(db) /\ now \in Nat
  BY DEF IInv, Shape
<1>3. /\ chain' = c /\ IsSeq(ours') /\ Reports' /\ Len(ours) \in Nat
      /\ \A i \in 1 .. Len(ours) : i \in 1 .. Len(ours') /\ ours'[i] = ours[i]
  <2>1. c.seqno >= chain.seqno /\ (c.owner => c.seqno >= Newest) /\ chain.status # "gone" /\ Shape /\ Reports
    BY <1>1, <1>2 DEF IInv, States, ChainRecord
  <2>2. QED
    BY <2>1, EmitReports
<1>4. Shape'
  BY <1>3 DEF IInv, Shape
<1>5. ours # <<>> => ours' # <<>>
  <2>1. SUFFICES ASSUME ours # <<>>, ours' = <<>> PROVE FALSE
    OBVIOUS
  <2>2. 1 \in 1 .. Len(ours)
    BY <2>1, TailIs DEF IInv, Shape
  <2>3. QED
    BY <1>3, <2>1, <2>2
<1>6. Begun'
  BY <1>1, <1>2, <1>3, <1>5 DEF IInv, Begun, ChainRecord, DbRecord
<1>7. States' /\ Answered' /\ Counted'
  BY <1>1, <1>2, <1>3 DEF IInv, States, Answered, Counted, InQuarantine
<1>8. QED
  BY <1>3, <1>4, <1>6, <1>7 DEF IInv

\* A state is committed: by us the newest one, by the party any that we signed.
LEMMA CloseStep ==
    ASSUME IInv, NEW s \in 1 .. (Newest + 1), NEW byUs \in BOOLEAN, CloseTx(s, byUs), CloseAccepted(s),
           s = Newest + 1 => Pending /\ ~byUs, byUs => s >= Newest,
           now' = now, SameDb, task' \in Tasks,
           \/ task'["challenge"] = task["challenge"]
           \/ /\ s >= Newest /\ task["challenge"].st = "todo"
              /\ task'["challenge"] = [task["challenge"] EXCEPT !.st = "done"]
    PROVE  IInv'
<1>1. /\ ChainRecord(chain) /\ DbRecord(db) /\ now \in Nat /\ task["challenge"].due \in Nat
      /\ task["challenge"] = [st |-> task["challenge"].st, due |-> task["challenge"].due, till |-> task["challenge"].till]
  BY Names DEF IInv, Shape, Tasks
<1>2. PICK c : c = [chain EXCEPT !.status = "closing", !.seqno = s, !.owner = byUs, !.lt = @ + 1,
                                 !.start = IF chain.status = "open" THEN now ELSE @]
  OBVIOUS
<1>3. /\ ChainRecord(c) /\ c.status = "closing" /\ c.seqno = s /\ c.owner = byUs /\ c.lt = chain.lt + 1
      /\ c.start = IF chain.status = "open" THEN now ELSE chain.start
  <2>1. c = [status |-> "closing", seqno |-> s, owner |-> byUs, start |-> IF chain.status = "open" THEN now ELSE chain.start,
             lt |-> chain.lt + 1, done |-> chain.done, fin |-> chain.fin, their |-> chain.their, acts |-> chain.acts]
    BY <1>1, <1>2 DEF ChainRecord
  <2>2. QED
    BY <1>1, <2>1 DEF ChainRecord
<1>4. \/ chain.status = "open"
      \/ InQuarantine /\ s > chain.seqno
  BY PhaseIs DEF CloseAccepted, IInv
<1>5. chain.status # "gone" /\ chain.seqno < s
  BY <1>1, <1>4 DEF IInv, Begun, InQuarantine
<1>6. Emit(c, "close", byUs, {})
  BY <1>2 DEF CloseTx
<1>7. /\ chain' = c /\ IsSeq(ours') /\ Reports' /\ Len(ours) \in Nat
      /\ \A i \in 1 .. Len(ours) : i \in 1 .. Len(ours') /\ ours'[i] = ours[i]
      /\ \E i \in 1 .. Len(ours') : /\ ours'[i].lt = c.lt /\ ours'[i].kind = "close"
                                   /\ ours'[i].seqno = c.seqno /\ ours'[i].ext = byUs
  <2>1. c.seqno >= chain.seqno /\ (c.start = chain.start \/ ours = <<>>) /\ Shape /\ Reports
    BY <1>1, <1>3, <1>5 DEF IInv, Begun, ChainRecord
  <2>2. QED
    BY <1>3, <1>5, <1>6, <2>1, EmitReports
<1>8. ours' # <<>>
  BY <1>7
<1>9. Shape'
  BY <1>3, <1>7 DEF IInv, Shape, SameDb
<1>10. db.seqno = Newest
  BY <1>1, <1>5 DEF IInv, States, DbRecord
<1>11. Begun'
  <2>1. chain'.status = "closing" /\ chain'.start <= now /\ chain'.lt = chain.lt + 1
    BY <1>1, <1>3, <1>4, <1>7 DEF IInv, Begun, InQuarantine, ChainRecord
  <2>2. db'.status # "inactive" /\ db'.lt <= chain'.lt
    BY <1>1, <1>5, <2>1 DEF IInv, Begun, SameDb, ChainRecord, DbRecord
  <2>3. ~db'.started => db'.lt = 0 /\ task'["challenge"].st = "none"
    BY <1>1, <1>5 DEF IInv, Begun, SameDb
  <2>4. task'["challenge"].st # "none" => task["challenge"].st # "none" \/ db.started
    BY <1>1
  <2>5. task["challenge"].st # "none" => chain.status # "open"
    BY DEF IInv, Begun
  <2>6. task'["challenge"].due = task["challenge"].due /\ task'["challenge"].till = task["challenge"].till
    BY <1>1
  <2>7. db.started => chain.status # "open"
    BY DEF IInv, Begun
  <2>8. task'["challenge"].st # "none" =>
           task'["challenge"].due <= now /\ task'["challenge"].till = SettleAt(chain'.start)
    <3>1. CASE task'["challenge"] = task["challenge"]
      BY <1>3, <1>7, <2>5, <3>1 DEF IInv, Begun
    <3>2. CASE task'["challenge"] # task["challenge"]
      <4>1. task["challenge"].st # "none"
        BY <3>2
      <4>2. QED
        BY <1>3, <1>7, <2>5, <2>6, <4>1 DEF IInv, Begun
    <3>3. QED
      BY <3>1, <3>2
  <2>9. QED
    BY <1>8, <2>1, <2>2, <2>3, <2>8 DEF Begun
<1>12. States'
  BY <1>3, <1>7, <1>10 DEF States, SameDb
<1>13. InQuarantine'
  BY <1>1, <1>3, <1>4, <1>7 DEF InQuarantine, SettleAt
<1>14. Answered'
  <2>1. ASSUME chain'.seqno < Newest, db'.started
        PROVE  task'["challenge"].st = "todo"
    <3>1. s < Newest /\ db.started /\ task'["challenge"] = task["challenge"]
      BY <1>3, <1>7, <2>1 DEF SameDb
    <3>2. InQuarantine /\ chain.seqno < Newest
      BY <1>1, <1>4, <1>5, <3>1 DEF IInv, Begun, ChainRecord
    <3>3. QED
      BY <3>1, <3>2 DEF IInv, Answered
  <2>2. ASSUME chain'.seqno = Newest + 1
        PROVE  \E i \in 1 .. Len(ours') : Tells(ours[i])'
    <3>1. s = Newest + 1 /\ ~byUs
      BY <1>3, <1>7, <2>2
    <3>2. db'.lt < c.lt
      BY <1>1, <1>3 DEF IInv, Begun, SameDb, ChainRecord, DbRecord
    <3>3. QED
      BY <1>3, <1>7, <3>1, <3>2 DEF Tells
  <2>3. QED
    BY <2>1, <2>2 DEF Answered
<1>15. Counted'
  BY <1>13 DEF Counted
<1>16. QED
  BY <1>7, <1>9, <1>11, <1>12, <1>14, <1>15 DEF IInv

\* What stays in the database as it is, stays.
LEMMA SameDbs ==
    ASSUME Shape, db' = db \/ db' = [db EXCEPT !.accepting = FALSE]
    PROVE  SameDb
<1>1. DbRecord(db)
  BY DEF Shape
<1>2. CASE db' = db
  BY <1>1, <1>2 DEF SameDb
<1>3. CASE db' = [db EXCEPT !.accepting = FALSE]
  <2>1. PICK d, f : d = db /\ f = db' /\ f = [d EXCEPT !.accepting = FALSE] /\ DbRecord(d)
    BY <1>1, <1>3
  <2>2. f = [status |-> d.status, accepting |-> FALSE, started |-> d.started, seqno |-> d.seqno, fin |-> d.fin,
             lt |-> d.lt, partyLt |-> d.partyLt, done |-> d.done, their |-> d.their]
    BY <2>1 DEF DbRecord
  <2>3. DbRecord(f) /\ f.started = d.started /\ f.seqno = d.seqno /\ f.lt = d.lt /\ f.status = d.status
    BY <2>1, <2>2 DEF DbRecord
  <2>4. QED
    BY <2>1, <2>3 DEF SameDb
<1>4. QED
  BY <1>2, <1>3

\* Tasks that send nothing.
LEMMA TaskSteps ==
    ASSUME IInv, RequestUncooperativeClose \/ DeployResolvers \/ SettleConditionals \/ SettleActions
    PROVE  IInv'
<1>1. Shape /\ task \in Tasks /\ now \in Nat
  BY DEF IInv, Shape
<1>2. SameDb
  BY <1>1, SameDbs DEF RequestUncooperativeClose, DeployResolvers, SettleConditionals, SettleActions
<1>3. task' \in Tasks /\ task'["challenge"] = task["challenge"]
  <2>1. CASE RequestUncooperativeClose
    <3>1. task' = Created(task, "uncoop", now, Forever)
      BY <2>1 DEF RequestUncooperativeClose
    <3>2. /\ Created(task, "uncoop", now, Forever) \in Tasks
          /\ Created(task, "uncoop", now, Forever)["challenge"] = task["challenge"]
      BY <1>1, Names DEF Created, Tasks
    <3>3. QED
      BY <3>1, <3>2, Zenon
  <2>2. CASE DeployResolvers \/ SettleConditionals \/ SettleActions
    <3>1. PICK k \in {"deploy", "settle", "act"} : task' = [task EXCEPT ![k].st = "done"]
      BY <2>2 DEF DeployResolvers, SettleConditionals, SettleActions, Done
    <3>2. [task EXCEPT ![k].st = "done"] \in Tasks /\ [task EXCEPT ![k].st = "done"]["challenge"] = task["challenge"]
      BY <1>1, OtherDone
    <3>3. QED
      BY <3>1, <3>2, Zenon
  <2>3. QED
    BY <2>1, <2>2
<1>4. QED
  BY <1>2, <1>3, QuietStep DEF RequestUncooperativeClose, DeployResolvers, SettleConditionals, SettleActions

\* We commit the newest state, if the channel is open.
LEMMA UncooperativeCloseStep ==
    ASSUME IInv, UncooperativeClose
    PROVE  IInv'
<1>1. Shape /\ task \in Tasks /\ now \in Nat
  BY DEF IInv, Shape
<1>2. SameDb
  BY <1>1, SameDbs DEF UncooperativeClose
<1>3. task' \in Tasks /\ task'["challenge"] = task["challenge"]
  <2>0. /\ [task EXCEPT !["uncoop"].st = "done"] \in Tasks
        /\ [task EXCEPT !["uncoop"].st = "done"]["challenge"] = task["challenge"]
    BY <1>1, OtherDone
  <2>1. PICK t : t = [task EXCEPT !["uncoop"].st = "done"] /\ t \in Tasks /\ t["challenge"] = task["challenge"]
    BY <2>0, Zenon
  <2>2. task' = t \/ task' = Created(t, "deploy", now, Forever)
    BY <2>1 DEF UncooperativeClose, Done
  <2>3. Created(t, "deploy", now, Forever) \in Tasks /\ Created(t, "deploy", now, Forever)["challenge"] = t["challenge"]
    BY <1>1, <2>1, Names DEF Created, Tasks
  <2>4. QED
    BY <2>1, <2>2, <2>3, Zenon
<1>4. CASE UNCHANGED <<chain, ours>>
  BY <1>2, <1>3, <1>4, QuietStep DEF UncooperativeClose
<1>5. CASE ~UNCHANGED <<chain, ours>>
  <2>1. chain.status = "open" /\ CloseAccepted(db.seqno) /\ CloseTx(db.seqno, TRUE)
    BY <1>5 DEF UncooperativeClose
  <2>2. db.seqno = Newest
    BY <1>1, <2>1 DEF IInv, Begun, States, Shape, DbRecord
  <2>3. PICK s : s = db.seqno
    OBVIOUS
  <2>4. CloseAccepted(s) /\ CloseTx(s, TRUE)
    BY <2>1, <2>3, Zenon
  <2>5. s \in 1 .. (Newest + 1) /\ s # Newest + 1 /\ s >= Newest
    BY <2>2, <2>3
  <2>6. now' = now
    BY DEF UncooperativeClose
  <2>7. QED
    BY <1>2, <1>3, <2>4, <2>5, <2>6, CloseStep, Zenon
<1>6. QED
  BY <1>4, <1>5

\* An older state is challenged; when the contract refuses that, it has a state as new.
LEMMA ChallengeStep ==
    ASSUME IInv, Challenge
    PROVE  IInv'
<1>1. Shape /\ task \in Tasks /\ now \in Nat /\ DbRecord(db) /\ ChainRecord(chain)
  BY DEF IInv, Shape
<1>2. SameDb
  BY <1>1, SameDbs DEF Challenge
<1>3. /\ task' \in Tasks /\ task'["challenge"] = [task["challenge"] EXCEPT !.st = "done"]
      /\ task["challenge"].st = "todo"
  <2>0. /\ [task EXCEPT !["challenge"].st = "done"] \in Tasks
        /\ [task EXCEPT !["challenge"].st = "done"]["challenge"] = [task["challenge"] EXCEPT !.st = "done"]
    BY <1>1, Names, DoneIs, Zenon
  <2>1. PICK t : /\ t = [task EXCEPT !["challenge"].st = "done"] /\ t \in Tasks
                 /\ t["challenge"] = [task["challenge"] EXCEPT !.st = "done"]
    BY <2>0, Zenon
  <2>2. task' = Created(t, "deploy", now, Forever) /\ task["challenge"].st = "todo"
    BY <2>1 DEF Challenge, Ready
  <2>3. Created(t, "deploy", now, Forever) \in Tasks /\ Created(t, "deploy", now, Forever)["challenge"] = t["challenge"]
    BY <1>1, <2>1, Names DEF Created, Tasks
  <2>4. QED
    BY <2>1, <2>2, <2>3, Zenon
<1>4. CASE db.status # "inactive" /\ CloseAccepted(db.seqno)
  <2>1. CloseTx(db.seqno, TRUE)
    BY <1>4 DEF Challenge
  <2>2. chain.status = "open" \/ db.seqno > chain.seqno
    BY <1>4 DEF CloseAccepted
  <2>3. db.seqno = Newest
    BY <1>1, <2>2 DEF IInv, Begun, States, DbRecord, ChainRecord
  <2>4. PICK s : s = db.seqno
    OBVIOUS
  <2>5. CloseAccepted(s) /\ CloseTx(s, TRUE)
    BY <1>4, <2>1, <2>4, Zenon
  <2>6. s \in 1 .. (Newest + 1) /\ s # Newest + 1 /\ s >= Newest
    BY <2>3, <2>4
  <2>7. now' = now
    BY DEF Challenge
  <2>8. QED
    BY <1>2, <1>3, <2>5, <2>6, <2>7, CloseStep, Zenon
<1>5. CASE ~(db.status # "inactive" /\ CloseAccepted(db.seqno))
  <2>1. chain' = chain /\ ours' = ours /\ now' = now /\ db' = db
    BY <1>5 DEF Challenge
  <2>2. /\ task["challenge"] = [st |-> "todo", due |-> task["challenge"].due, till |-> task["challenge"].till]
        /\ task'["challenge"] = [st |-> "done", due |-> task["challenge"].due, till |-> task["challenge"].till]
    BY <1>1, <1>3, Names DEF Tasks
  <2>3. Shape' /\ Reports' /\ States' /\ Counted'
    BY <1>3, <2>1 DEF IInv, Shape, Reports, States, Counted, InQuarantine
  <2>4. Begun'
    BY <1>3, <2>1, <2>2 DEF IInv, Begun
  <2>5. Answered'
    <3>1. InQuarantine => ~(chain.seqno < Newest)
      <4>1. SUFFICES ASSUME InQuarantine, chain.seqno < Newest PROVE FALSE
        OBVIOUS
      <4>2. Phase = "closure" /\ db.status # "inactive" /\ db.seqno > chain.seqno
        BY <1>1, <4>1, PhaseIs DEF IInv, Begun, InQuarantine, DbRecord, ChainRecord
      <4>3. QED
        BY <1>5, <4>2 DEF CloseAccepted
    <3>2. QED
      BY <2>1, <3>1 DEF IInv, Answered, InQuarantine, Tells
  <2>6. QED
    BY <2>3, <2>4, <2>5 DEF IInv
<1>6. QED
  BY <1>4, <1>5

\* The party commits a state.
LEMMA PartyClosesStep ==
    ASSUME IInv, PartyCloses
    PROVE  IInv'
<1>1. PICK s \in 1 .. (IF Pending THEN Newest + 1 ELSE Newest) :
        CloseAccepted(s) /\ CloseTx(s, FALSE) /\ UNCHANGED <<now, db, task, settles, acts, resolver>>
  BY DEF PartyCloses
<1>2. s \in 1 .. (Newest + 1) /\ (s = Newest + 1 => Pending)
  OBVIOUS
<1>3. SameDb /\ task' \in Tasks /\ task'["challenge"] = task["challenge"] /\ now' = now
  BY <1>1, SameDbs DEF IInv, Shape
<1>4. QED
  BY <1>1, <1>2, <1>3, CloseStep

\* The other transactions: settlements, actions, the end.
LEMMA TxSteps ==
    ASSUME IInv, SettleStep \/ SettleFinalize \/ SettleActionStep \/ FinishClose \/ PartySettles \/ PartyFinishes
    PROVE  IInv'
<1>1. Shape /\ task \in Tasks /\ now \in Nat /\ DbRecord(db) /\ ChainRecord(chain)
  BY DEF IInv, Shape
<1>2. db' = db /\ now' = now
  BY DEF SettleStep, SettleFinalize, SettleActionStep, FinishClose, PartySettles, PartyFinishes
<1>3. task' \in Tasks /\ task'["challenge"] = task["challenge"]
  <2>1. CASE FinishClose
    BY <1>1, <2>1, OtherDone DEF FinishClose, Done
  <2>2. CASE ~FinishClose
    BY <1>1, <2>2 DEF SettleStep, SettleFinalize, SettleActionStep, PartySettles, PartyFinishes
  <2>3. QED
    BY <2>1, <2>2
<1>4. CASE UNCHANGED <<chain, ours>>
  BY <1>1, <1>2, <1>3, <1>4, SameDbs, QuietStep
<1>5. ASSUME NEW c, NEW kind, NEW byUs \in BOOLEAN, NEW set, Emit(c, kind, byUs, set), kind # "close",
             Phase \in {"settling", "executing", "awaiting"}, c.status \in {"closing", "gone"},
             c = [status |-> c.status, seqno |-> chain.seqno, owner |-> chain.owner, start |-> chain.start,
                  lt |-> chain.lt + 1, done |-> c.done, fin |-> c.fin, their |-> c.their, acts |-> c.acts]
      PROVE  IInv'
  <2>1. ChainRecord(c)
    BY <1>1, <1>5 DEF ChainRecord
  <2>2. c.lt = chain.lt + 1 /\ c.seqno = chain.seqno /\ c.start = chain.start /\ c.owner = chain.owner
    BY <1>5
  <2>3. QED
    BY <1>2, <1>3, <1>5, <2>1, <2>2, LaterTx
<1>6. Phase \in {"settling", "executing", "awaiting"} => chain.status = "closing"
  BY <1>1, PhaseIs
<1>7. CASE SettleStep /\ ~UNCHANGED <<chain, ours>>
  <2>1. PICK t : t = Head(settles)
    OBVIOUS
  <2>2. PICK c : c = [chain EXCEPT !.done = @ \cup t.set, !.lt = @ + 1]
    OBVIOUS
  <2>3. Emit(c, "settle", t.set \cap Derivatives = {}, t.set) /\ Phase = "settling"
    BY <1>7, <2>1, <2>2 DEF SettleStep, CanStep, StepAccepted
  <2>4. /\ c = [status |-> c.status, seqno |-> chain.seqno, owner |-> chain.owner, start |-> chain.start,
                lt |-> chain.lt + 1, done |-> c.done, fin |-> c.fin, their |-> c.their, acts |-> c.acts]
        /\ c.status = "closing"
    BY <1>1, <1>6, <2>2, <2>3 DEF ChainRecord
  <2>5. PICK b \in BOOLEAN : b = (t.set \cap Derivatives = {})
    OBVIOUS
  <2>6. QED
    BY <1>5, <2>3, <2>4, <2>5
<1>8. CASE SettleFinalize /\ ~UNCHANGED <<chain, ours>>
  <2>1. PICK c : c = [chain EXCEPT !.fin = TRUE, !.lt = @ + 1]
    OBVIOUS
  <2>2. Emit(c, "fin", TRUE, {}) /\ Phase = "settling"
    BY <1>8, <2>1 DEF SettleFinalize, CanFin
  <2>3. /\ c = [status |-> c.status, seqno |-> chain.seqno, owner |-> chain.owner, start |-> chain.start,
                lt |-> chain.lt + 1, done |-> c.done, fin |-> c.fin, their |-> c.their, acts |-> c.acts]
        /\ c.status = "closing"
    BY <1>1, <1>6, <2>1, <2>2 DEF ChainRecord
  <2>4. QED
    BY <1>5, <2>2, <2>3
<1>9. CASE SettleActionStep /\ ~UNCHANGED <<chain, ours>>
  <2>1. PICK c : c = [chain EXCEPT !.acts = @ + 1, !.lt = @ + 1]
    OBVIOUS
  <2>2. Emit(c, "act", TRUE, {}) /\ Phase = "executing"
    BY <1>9, <2>1 DEF SettleActionStep, CanActStep
  <2>3. /\ c = [status |-> c.status, seqno |-> chain.seqno, owner |-> chain.owner, start |-> chain.start,
                lt |-> chain.lt + 1, done |-> c.done, fin |-> c.fin, their |-> c.their, acts |-> c.acts]
        /\ c.status = "closing"
    BY <1>1, <1>6, <2>1, <2>2 DEF ChainRecord
  <2>4. QED
    BY <1>5, <2>2, <2>3
<1>10. CASE PartySettles
  <2>1. PICK c : c = [chain EXCEPT !.their = @ + 1, !.lt = @ + 1]
    OBVIOUS
  <2>2. Emit(c, "theirs", FALSE, {}) /\ Phase = "settling"
    BY <1>10, <2>1 DEF PartySettles
  <2>3. /\ c = [status |-> c.status, seqno |-> chain.seqno, owner |-> chain.owner, start |-> chain.start,
                lt |-> chain.lt + 1, done |-> c.done, fin |-> c.fin, their |-> c.their, acts |-> c.acts]
        /\ c.status = "closing"
    BY <1>1, <1>6, <2>1, <2>2 DEF ChainRecord
  <2>4. QED
    BY <1>5, <2>2, <2>3
<1>11. CASE (FinishClose \/ PartyFinishes) /\ ~UNCHANGED <<chain, ours>>
  <2>1. PICK c : c = [chain EXCEPT !.status = "gone", !.lt = @ + 1]
    OBVIOUS
  <2>2. Phase = "awaiting" /\ \E b \in BOOLEAN : Emit(c, "gone", b, {})
    BY <1>11, <2>1 DEF FinishClose, PartyFinishes, GoneTx
  <2>3. /\ c = [status |-> c.status, seqno |-> chain.seqno, owner |-> chain.owner, start |-> chain.start,
                lt |-> chain.lt + 1, done |-> c.done, fin |-> c.fin, their |-> c.their, acts |-> c.acts]
        /\ c.status = "gone"
    BY <1>1, <2>1 DEF ChainRecord
  <2>4. QED
    BY <1>5, <2>2, <2>3
<1>12. QED
  BY <1>4, <1>7, <1>8, <1>9, <1>10, <1>11

\* An event of the contract of the party leaves what counts here.
LEMMA TheirEventStep ==
    ASSUME IInv, NEW again \in BOOLEAN, TheirEvent(again)
    PROVE  IInv'
<1>1. DbRecord(db) /\ Shape /\ task \in Tasks
  BY DEF IInv, Shape
<1>2. PICK e : e = Head(theirs)
  OBVIOUS
<1>3. SameDb
  <2>1. CASE e.lt <= db.partyLt
    BY <1>1, <1>2, <2>1, SameDbs DEF TheirEvent
  <2>2. CASE ~(e.lt <= db.partyLt)
    <3>1. PICK st, th : st = (IF db.status = "active" /\ ~e.gone THEN "closing" ELSE db.status)
                        /\ th = (IF e.kind = "theirs" /\ db.their + 1 = e.their THEN e.their ELSE db.their)
      OBVIOUS
    <3>2. PICK d, f : d = db /\ f = db' /\ DbRecord(d)
                      /\ f = [d EXCEPT !.accepting = FALSE, !.partyLt = e.lt, !.status = st, !.their = th]
      BY <1>1, <1>2, <2>2, <3>1 DEF TheirEvent
    <3>3. f = [status |-> st, accepting |-> FALSE, started |-> d.started, seqno |-> d.seqno, fin |-> d.fin,
               lt |-> d.lt, partyLt |-> e.lt, done |-> d.done, their |-> th]
      BY <3>2 DEF DbRecord
    <3>4. DbRecord(f) /\ f.started = d.started /\ f.seqno = d.seqno /\ f.lt = d.lt /\ f.status = st
      BY <3>2, <3>3 DEF DbRecord
    <3>5. st = "inactive" => d.status = "inactive"
      BY <3>1, <3>2
    <3>6. QED
      BY <3>2, <3>4, <3>5 DEF SameDb
  <2>3. QED
    BY <2>1, <2>2
<1>4. chain' = chain /\ ours' = ours /\ now' = now /\ task' = task
  BY DEF TheirEvent
<1>5. QED
  BY <1>1, <1>3, <1>4, QuietStep

\* The clock: what is pressing is done before the quarantine ends.
LEMMA TickStep ==
    ASSUME IInv, Tick
    PROVE  IInv'
<1>1. /\ now \in Nat /\ now' = now + 1 /\ chain' = chain /\ ours' = ours /\ db' = db /\ task' = task
      /\ ChainRecord(chain) /\ DbRecord(db) /\ task["challenge"].due \in Nat
  BY Names DEF Tick, IInv, Shape, Tasks
<1>2. Shape' /\ Reports' /\ States'
  BY <1>1 DEF IInv, Shape, Reports, States
<1>3. Begun'
  <2>1. chain.start <= now => chain.start <= now + 1
    BY <1>1 DEF ChainRecord
  <2>2. task["challenge"].due <= now => task["challenge"].due <= now + 1
    BY <1>1
  <2>3. QED
    BY <1>1, <2>1, <2>2 DEF IInv, Begun
<1>4. InQuarantine' => InQuarantine
  BY <1>1 DEF InQuarantine, ChainRecord, SettleAt
<1>5. Answered'
  BY <1>1, <1>4 DEF IInv, Answered, Tells
<1>6. Counted'
  <2>1. CASE ~InQuarantine \/ InQuarantine'
    BY <1>1, <1>4, <2>1 DEF IInv, Counted
  <2>2. CASE InQuarantine /\ ~InQuarantine'
    <3>1. chain.status = "closing" /\ now < SettleAt(chain.start) /\ ~(now + 1 < SettleAt(chain.start))
      BY <1>1, <2>2 DEF InQuarantine
    <3>2. Phase = "closure"
      BY <2>2, PhaseIs DEF IInv
    <3>3. PhaseAt(chain.start, now + 1) # "closure"
      BY <3>1 DEF PhaseAt
    <3>4. ~Pressing
      BY <3>1, <3>2, <3>3 DEF Tick
    <3>5. ours = <<>> /\ ~Ready("challenge")
      BY <3>4 DEF Pressing
    <3>6. db.started
      BY <3>1, <3>5 DEF IInv, Begun
    <3>7. task["challenge"].st # "todo"
      <4>1. SUFFICES ASSUME task["challenge"].st = "todo" PROVE FALSE
        OBVIOUS
      <4>2. task["challenge"].due <= now /\ task["challenge"].till = SettleAt(chain.start)
        BY <4>1 DEF IInv, Begun
      <4>3. now <= task["challenge"].till
        BY <1>1, <3>1, <4>2 DEF ChainRecord, SettleAt
      <4>4. QED
        BY <3>5, <4>1, <4>2, <4>3 DEF Ready
    <3>8. chain.seqno >= Newest
      BY <1>1, <2>2, <3>6, <3>7 DEF IInv, Answered, ChainRecord
    <3>9. ~(chain.seqno = Newest + 1 /\ db.seqno = Newest)
      <4>1. SUFFICES ASSUME chain.seqno = Newest + 1, db.seqno = Newest PROVE FALSE
        OBVIOUS
      <4>2. PICK i \in 1 .. Len(ours) : Tells(ours[i])
        BY <2>2, <4>1 DEF IInv, Answered
      <4>3. QED
        BY <3>5, <4>2
    <3>10. chain.seqno <= Newest + 1 /\ (db.seqno = Newest + 1 => chain.seqno = Newest + 1)
      BY DEF IInv, States
    <3>11. db.seqno = chain.seqno
      BY <1>1, <3>8, <3>9, <3>10 DEF ChainRecord, DbRecord
    <3>12. QED
      BY <1>1, <3>8, <3>11 DEF Counted
  <2>3. QED
    BY <2>1, <2>2
<1>7. QED
  BY <1>2, <1>3, <1>5, <1>6 DEF IInv

\* What an event schedules, and when it challenges.
LEMMA ScheduledIs ==
    ASSUME task \in Tasks, now \in Nat, NEW e, e.start \in Nat, NEW known
    PROVE  LET r == Scheduled(e, known)
               new == /\ ~db.started /\ ~e.gone /\ PhaseAt(e.start, now) = "closure"
                      /\ ~e.owner /\ Outdated(e.seqno, known) /\ task["challenge"].st = "none"
           IN  /\ r \in Tasks
               /\ ~new => r["challenge"] = task["challenge"]
               /\ new => r["challenge"] = [st |-> "todo", due |-> now, till |-> SettleAt(e.start)]
<1>1. PICK p, x, y, z : /\ p = PhaseAt(e.start, now) /\ x = SettleAt(e.start) /\ y = ActAt(e.start)
                        /\ z = FinalizeAt(e.start)
  OBVIOUS
<1>2. x \in Nat /\ y \in Nat /\ z \in Nat /\ Forever \in Nat
  BY <1>1, Names DEF SettleAt, ActAt, FinalizeAt
<1>3. PICK c : c = IF p = "closure" /\ ~e.owner /\ Outdated(e.seqno, known)
                   THEN Created(task, "challenge", now, x) ELSE task
  OBVIOUS
<1>4. PICK s : s = IF p \in {"closure", "settling"} THEN Created(c, "settle", x, y) ELSE c
  OBVIOUS
<1>5. PICK a : a = IF p \in {"closure", "settling", "executing"} THEN Created(s, "act", y, z) ELSE s
  OBVIOUS
<1>6. Scheduled(e, known) = IF db.started \/ e.gone THEN task ELSE Created(a, "finalize", z, Forever)
  BY <1>1, <1>3, <1>4, <1>5, Zenon DEF Scheduled
<1>7. /\ c \in Tasks
      /\ ~(p = "closure" /\ ~e.owner /\ Outdated(e.seqno, known) /\ task["challenge"].st = "none")
           => c["challenge"] = task["challenge"]
      /\ p = "closure" /\ ~e.owner /\ Outdated(e.seqno, known) /\ task["challenge"].st = "none"
           => c["challenge"] = [st |-> "todo", due |-> now, till |-> x]
  <2>1. CASE p = "closure" /\ ~e.owner /\ Outdated(e.seqno, known)
    <3>1. c = Created(task, "challenge", now, x) /\ "challenge" \in Kinds
      BY <1>3, <2>1, Names
    <3>2. QED
      BY <1>2, <2>1, <3>1 DEF Created, Tasks
  <2>2. CASE ~(p = "closure" /\ ~e.owner /\ Outdated(e.seqno, known))
    BY <1>3, <2>2
  <2>3. QED
    BY <2>1, <2>2
<1>8. s \in Tasks /\ s["challenge"] = c["challenge"]
  <2>1. Created(c, "settle", x, y) \in Tasks /\ Created(c, "settle", x, y)["challenge"] = c["challenge"]
    BY <1>2, <1>7, Names DEF Created, Tasks
  <2>2. QED
    BY <1>4, <1>7, <2>1, Zenon
<1>9. a \in Tasks /\ a["challenge"] = s["challenge"]
  <2>1. Created(s, "act", y, z) \in Tasks /\ Created(s, "act", y, z)["challenge"] = s["challenge"]
    BY <1>2, <1>8, Names DEF Created, Tasks
  <2>2. QED
    BY <1>5, <1>8, <2>1, Zenon
<1>10. Created(a, "finalize", z, Forever) \in Tasks /\ Created(a, "finalize", z, Forever)["challenge"] = a["challenge"]
  BY <1>2, <1>9, Names DEF Created, Tasks
<1>11. CASE db.started \/ e.gone
  <2>1. Scheduled(e, known) = task
    BY <1>6, <1>11
  <2>2. QED
    BY <1>11, <2>1, Zenon
<1>12. CASE ~(db.started \/ e.gone)
  <2>1. Scheduled(e, known) = Created(a, "finalize", z, Forever)
    BY <1>6, <1>12
  <2>2. PICK r : r = Scheduled(e, known) /\ r \in Tasks /\ r["challenge"] = c["challenge"]
    BY <1>8, <1>9, <1>10, <2>1, Zenon
  <2>3. QED
    BY <1>1, <1>7, <1>12, <2>2
<1>13. QED
  BY <1>11, <1>12

\* The first event is processed: what the events after it say stays.
LEMMA RestReports ==
    ASSUME Shape, Reports, ours # <<>>, ours' = ours \/ ours' = Tail(ours), chain' = chain
    PROVE  /\ IsSeq(ours') /\ Reports'
           /\ Reported(ours[1], chain)
           /\ \A i \in 1 .. Len(ours) : i # 1 =>
                 /\ ours[1].lt < ours[i].lt
                 /\ \E j \in 1 .. Len(ours') : ours'[j] = ours[i]
<1>1. PICK s, t : s = ours /\ t = ours'
  OBVIOUS
<1>2. IsSeq(s) /\ s # <<>> /\ (t = s \/ t = Tail(s))
  BY <1>1 DEF Shape
<1>3. /\ IsSeq(Tail(s)) /\ Len(s) \in Nat \ {0} /\ Len(Tail(s)) = Len(s) - 1
      /\ \A i \in 1 .. Len(Tail(s)) : Tail(s)[i] = s[i + 1] /\ i + 1 \in 1 .. Len(s)
  BY <1>2, TailIs
<1>4. /\ \A i \in 1 .. Len(s) : Reported(s[i], chain)
      /\ \A i, j \in 1 .. Len(s) : i < j => s[i].lt < s[j].lt
  BY <1>1 DEF Reports
<1>5. CASE t = s
  <2>1. Reports' /\ IsSeq(ours')
    BY <1>1, <1>2, <1>5 DEF Reports
  <2>2. 1 \in 1 .. Len(s) /\ \A i \in 1 .. Len(s) : i # 1 => 1 < i
    BY <1>3
  <2>3. QED
    BY <1>1, <1>4, <1>5, <2>1, <2>2
<1>6. CASE t = Tail(s)
  <2>1. \A i \in 1 .. Len(t) : t[i] = s[i + 1] /\ i + 1 \in 1 .. Len(s)
    BY <1>3, <1>6
  <2>2. \A i \in 1 .. Len(t) : Reported(t[i], chain)
    BY <1>4, <2>1
  <2>3. \A i, j \in 1 .. Len(t) : i < j => t[i].lt < t[j].lt
    <3>1. SUFFICES ASSUME NEW i \in 1 .. Len(t), NEW j \in 1 .. Len(t), i < j
                   PROVE  t[i].lt < t[j].lt
      OBVIOUS
    <3>2. i + 1 \in 1 .. Len(s) /\ j + 1 \in 1 .. Len(s) /\ i + 1 < j + 1
      BY <2>1, <3>1
    <3>3. QED
      BY <1>4, <2>1, <3>2
  <2>4. Reports'
    BY <1>1, <2>2, <2>3 DEF Reports
  <2>5. ASSUME NEW i \in 1 .. Len(s), i # 1
        PROVE  s[1].lt < s[i].lt /\ \E j \in 1 .. Len(t) : t[j] = s[i]
    <3>1. 1 \in 1 .. Len(s) /\ 1 < i /\ i - 1 \in 1 .. Len(t) /\ (i - 1) + 1 = i
      BY <1>3, <1>6, <2>5
    <3>2. t[i - 1] = s[i]
      BY <2>1, <3>1
    <3>3. QED
      BY <1>4, <3>1, <3>2
  <2>6. 1 \in 1 .. Len(s) /\ IsSeq(t)
    BY <1>3, <1>6
  <2>7. QED
    BY <1>1, <1>4, <2>4, <2>5, <2>6
<1>7. QED
  BY <1>2, <1>5, <1>6

\* The contract's close began: there is an event of it.
LEMMA EventOf ==
    ASSUME IInv, ours # <<>>
    PROVE  /\ chain.status # "open" /\ Head(ours) = ours[1] /\ Reported(ours[1], chain)
           /\ 1 \in 1 .. Len(ours)
<1>1. Head(ours) = ours[1] /\ 1 \in 1 .. Len(ours)
  BY TailIs DEF IInv, Shape
<1>2. QED
  BY <1>1 DEF IInv, Begun, Reports

\* An event that was processed before, or that comes after the end, changes nothing.
LEMMA SkippedStep ==
    ASSUME IInv, ours # <<>>, ours' = ours \/ ours' = Tail(ours), UNCHANGED <<now, chain, db, task>>,
           (ours[1].gone /\ db.status = "inactive") \/ ours[1].lt <= db.lt
    PROVE  IInv'
<1>1. Shape /\ Reports /\ DbRecord(db) /\ ChainRecord(chain)
  BY DEF IInv, Shape
<1>2. /\ IsSeq(ours') /\ Reports' /\ Reported(ours[1], chain)
      /\ \A i \in 1 .. Len(ours) : i # 1 => \E j \in 1 .. Len(ours') : ours'[j] = ours[i]
  BY <1>1, RestReports
<1>3. Shape' /\ States' /\ Counted'
  BY <1>2 DEF IInv, Shape, States, Counted, InQuarantine
<1>4. chain.status # "open"
  BY EventOf
<1>5. chain.status = "closing" => db.started /\ ours[1].lt <= db.lt
  BY <1>1, <1>2 DEF IInv, Begun, Reported, DbRecord
<1>6. Begun'
  BY <1>4, <1>5 DEF IInv, Begun
<1>7. Answered'
  <2>1. SUFFICES ASSUME InQuarantine, chain.seqno = Newest + 1, db.seqno = Newest
                 PROVE  \E i \in 1 .. Len(ours') : Tells(ours[i])'
    BY DEF IInv, Answered, InQuarantine
  <2>2. PICK i \in 1 .. Len(ours) : Tells(ours[i])
    BY <2>1 DEF IInv, Answered
  <2>3. i # 1
    BY <1>1, <1>2, <1>5, <2>1, <2>2 DEF Tells, InQuarantine, Reported, DbRecord
  <2>4. PICK j \in 1 .. Len(ours') : ours'[j] = ours[i]
    BY <1>2, <2>3
  <2>5. QED
    BY <2>2, <2>4 DEF Tells
<1>8. QED
  BY <1>2, <1>3, <1>6, <1>7 DEF IInv

\* The state our database knows after an event: the pending one if the party has committed
\* it and we learn of it in the quarantine.
LEMMA RecoverIs ==
    ASSUME IInv, NEW e, Reported(e, chain), e.seqno <= chain.seqno
    PROVE  /\ Recover(e) \in {Newest, Newest + 1}
           /\ Recover(e) = Newest + 1 => chain.seqno = Newest + 1
           /\ Recover(e) # db.seqno => db.seqno = Newest /\ Recover(e) = Newest + 1
           /\ InQuarantine /\ Tells(e) => Recover(e) = Newest + 1
           /\ db.seqno = chain.seqno => Recover(e) = db.seqno
<1>1. DbRecord(db) /\ ChainRecord(chain) /\ e.seqno \in Nat /\ e.start = chain.start
  BY DEF IInv, Shape, Reported
<1>2. db.seqno \in {Newest, Newest + 1} /\ chain.seqno \in Nat
  BY <1>1 DEF DbRecord, ChainRecord
<1>3. /\ chain.seqno <= Newest + 1 /\ (chain.seqno = Newest + 1 => Pending)
      /\ db.seqno = Newest + 1 => chain.seqno = Newest + 1
  BY DEF IInv, States
<1>4. CASE /\ e.kind = "close" /\ ~e.ext /\ PhaseAt(e.start, now) = "closure"
           /\ e.seqno = Newest + 1 /\ Pending /\ e.seqno > db.seqno
  <2>1. Recover(e) = e.seqno
    BY <1>4 DEF Recover
  <2>2. QED
    BY <1>1, <1>2, <1>3, <1>4, <2>1
<1>5. CASE ~(/\ e.kind = "close" /\ ~e.ext /\ PhaseAt(e.start, now) = "closure"
             /\ e.seqno = Newest + 1 /\ Pending /\ e.seqno > db.seqno)
  <2>1. Recover(e) = db.seqno
    BY <1>5 DEF Recover
  <2>2. ASSUME InQuarantine, Tells(e), db.seqno = Newest
        PROVE  FALSE
    <3>1. PhaseAt(e.start, now) = "closure"
      BY <1>1, <2>2 DEF InQuarantine, PhaseAt
    <3>2. e.seqno = Newest + 1 /\ e.kind = "close" /\ ~e.ext /\ chain.seqno = Newest + 1
      BY <1>1, <1>2, <1>3, <2>2 DEF Tells
    <3>3. QED
      BY <1>2, <1>3, <1>5, <2>2, <3>1, <3>2
  <2>3. QED
    BY <1>2, <1>3, <2>1, <2>2
<1>6. QED
  BY <1>4, <1>5

\* An event of our contract is processed.
LEMMA ProcessedStep ==
    ASSUME IInv, ours # <<>>, ours' = ours \/ ours' = Tail(ours), UNCHANGED <<now, chain>>,
           NEW e, e = ours[1], ~(e.gone /\ db.status = "inactive"), ~(e.lt <= db.lt),
           task' = Scheduled(e, Recover(e)), NEW fin, NEW settled,
           db' = [db EXCEPT !.accepting = FALSE, !.started = @ \/ ~e.gone, !.seqno = Recover(e),
                            !.status = IF e.gone THEN "inactive" ELSE IF @ = "active" THEN "closing" ELSE @,
                            !.fin = fin, !.lt = e.lt, !.done = settled]
    PROVE  IInv'
<1>1. Shape /\ Reports /\ DbRecord(db) /\ ChainRecord(chain) /\ now \in Nat /\ task \in Tasks
  BY DEF IInv, Shape
<1>2. /\ IsSeq(ours') /\ Reports'
      /\ \A i \in 1 .. Len(ours) : i # 1 =>
            ours[1].lt < ours[i].lt /\ \E j \in 1 .. Len(ours') : ours'[j] = ours[i]
  BY <1>1, RestReports
<1>3. Reported(e, chain) /\ chain.status # "open"
  BY EventOf
<1>4. /\ e.lt \in Nat /\ e.lt <= chain.lt /\ e.start = chain.start /\ e.start \in Nat
      /\ e.seqno \in Nat /\ e.seqno <= chain.seqno
      /\ (e.gone => chain.status = "gone") /\ (e.owner => e.seqno >= Newest)
  BY <1>1, <1>3 DEF Reported, ChainRecord
<1>5. PICK known : known = Recover(e)
  OBVIOUS
<1>6. /\ known \in {Newest, Newest + 1} /\ (known = Newest + 1 => chain.seqno = Newest + 1)
      /\ (known # db.seqno => db.seqno = Newest /\ known = Newest + 1)
      /\ (InQuarantine /\ Tells(e) => known = Newest + 1)
      /\ (db.seqno = chain.seqno => known = db.seqno)
  BY <1>3, <1>4, <1>5, RecoverIs
<1>7. /\ DbRecord(db') /\ db'.started = (db.started \/ ~e.gone) /\ db'.seqno = known /\ db'.lt = e.lt
      /\ db'.status = "inactive" => e.gone \/ db.status = "inactive"
  <2>1. PICK d, f, st, b : /\ d = db /\ f = db' /\ DbRecord(d) /\ b = (d.started \/ ~e.gone)
                           /\ st = IF e.gone THEN "inactive" ELSE IF d.status = "active" THEN "closing" ELSE d.status
    BY <1>1
  <2>2. f = [d EXCEPT !.accepting = FALSE, !.started = b, !.seqno = known, !.status = st, !.fin = fin,
                      !.lt = e.lt, !.done = settled]
    BY <1>5, <2>1
  <2>3. f = [status |-> st, accepting |-> FALSE, started |-> b, seqno |-> known, fin |-> fin,
             lt |-> e.lt, partyLt |-> d.partyLt, done |-> settled, their |-> d.their]
    BY <2>1, <2>2 DEF DbRecord
  <2>4. b \in BOOLEAN
    BY <2>1
  <2>5. DbRecord(f) /\ f.started = b /\ f.seqno = known /\ f.lt = e.lt /\ f.status = st
    BY <1>4, <1>6, <2>3, <2>4 DEF DbRecord
  <2>6. st = "inactive" => e.gone \/ d.status = "inactive"
    BY <2>1
  <2>7. QED
    BY <2>1, <2>5, <2>6
<1>8. PICK new \in BOOLEAN :
        new <=> /\ ~db.started /\ ~e.gone /\ PhaseAt(e.start, now) = "closure"
                /\ ~e.owner /\ Outdated(e.seqno, known) /\ task["challenge"].st = "none"
  OBVIOUS
<1>9. /\ task' \in Tasks /\ (~new => task'["challenge"] = task["challenge"])
      /\ new => task'["challenge"] = [st |-> "todo", due |-> now, till |-> SettleAt(chain.start)]
  <2>1. task' = Scheduled(e, known)
    BY <1>5
  <2>2. QED
    BY <1>1, <1>4, <1>8, <2>1, ScheduledIs
<1>10. Shape'
  BY <1>1, <1>2, <1>7, <1>9 DEF Shape
<1>11. chain.status # "gone" => ~e.gone /\ db'.started
  BY <1>4, <1>7
<1>12. Begun'
  <2>1. chain.status # "gone" => db'.status # "inactive"
    BY <1>7, <1>11 DEF IInv, Begun
  <2>2. chain.start <= now
    BY <1>3 DEF IInv, Begun
  <2>3. task'["challenge"].st # "none" =>
          task'["challenge"].due <= now /\ task'["challenge"].till = SettleAt(chain.start)
    <3>1. CASE new
      BY <1>1, <1>9, <3>1
    <3>2. CASE ~new
      BY <1>9, <3>2 DEF IInv, Begun
    <3>3. QED
      BY <3>1, <3>2
  <2>4. QED
    BY <1>3, <1>4, <1>7, <1>11, <2>1, <2>2, <2>3 DEF Begun
<1>13. States'
  BY <1>6, <1>7 DEF IInv, States
<1>14. Answered'
  <2>1. ASSUME InQuarantine, chain.seqno < Newest
        PROVE  task'["challenge"].st = "todo"
    <3>1. CASE db.started
      BY <1>8, <1>9, <2>1, <3>1 DEF IInv, Answered
    <3>2. CASE ~db.started
      <4>1. ~e.gone /\ task["challenge"].st = "none"
        BY <1>11, <2>1, <3>2 DEF IInv, Begun, InQuarantine
      <4>2. PhaseAt(e.start, now) = "closure"
        BY <1>4, <2>1 DEF InQuarantine, PhaseAt
      <4>3. ~e.owner /\ e.seqno < known
        BY <1>1, <1>4, <1>6, <2>1 DEF ChainRecord
      <4>4. new
        BY <1>8, <3>2, <4>1, <4>2, <4>3 DEF Outdated
      <4>5. QED
        BY <1>9, <4>4
    <3>3. QED
      BY <3>1, <3>2
  <2>2. ASSUME InQuarantine, chain.seqno = Newest + 1, known = Newest
        PROVE  \E i \in 1 .. Len(ours') : Tells(ours[i])'
    <3>1. db.seqno = Newest
      BY <1>6, <2>2
    <3>2. PICK i \in 1 .. Len(ours) : Tells(ours[i])
      BY <2>2, <3>1 DEF IInv, Answered
    <3>3. i # 1
      BY <1>6, <2>2, <3>2
    <3>4. PICK j \in 1 .. Len(ours') : ours'[j] = ours[i] /\ e.lt < ours[i].lt
      BY <1>2, <3>3
    <3>5. QED
      BY <1>7, <3>2, <3>4 DEF Tells
  <2>3. InQuarantine' = InQuarantine
    BY DEF InQuarantine
  <2>4. QED
    BY <1>7, <2>1, <2>2, <2>3 DEF Answered
<1>15. Counted'
  BY <1>6, <1>7 DEF IInv, Counted, InQuarantine
<1>16. QED
  BY <1>2, <1>10, <1>12, <1>13, <1>14, <1>15 DEF IInv

\* An event of our contract, delivered once or again.
LEMMA OurEventStep ==
    ASSUME IInv, NEW again \in BOOLEAN, OurEvent(again)
    PROVE  IInv'
<1>1. /\ ours # <<>> /\ (ours' = ours \/ ours' = Tail(ours)) /\ UNCHANGED <<now, chain>>
  BY DEF OurEvent
<1>2. PICK e : e = Head(ours) /\ e = ours[1]
  BY <1>1, EventOf
<1>3. CASE (e.gone /\ db.status = "inactive") \/ e.lt <= db.lt
  <2>1. UNCHANGED <<db, task>>
    BY <1>2, <1>3 DEF OurEvent
  <2>2. QED
    BY <1>1, <1>2, <1>3, <2>1, SkippedStep
<1>4. CASE ~((e.gone /\ db.status = "inactive") \/ e.lt <= db.lt)
  <2>1. PICK settled : settled = IF e.kind = "settle" /\ e.ext /\ db.done \cup e.set = e.done THEN e.done ELSE db.done
    OBVIOUS
  <2>2. /\ task' = Scheduled(e, Recover(e))
        /\ db' = [db EXCEPT !.accepting = FALSE, !.started = @ \/ ~e.gone, !.seqno = Recover(e),
                            !.status = IF e.gone THEN "inactive" ELSE IF @ = "active" THEN "closing" ELSE @,
                            !.fin = e.fin, !.lt = e.lt, !.done = settled]
    BY <1>2, <1>4, <2>1 DEF OurEvent
  <2>3. PICK fin : fin = e.fin
    OBVIOUS
  <2>4. QED
    BY <1>1, <1>2, <1>4, <2>2, <2>3, ProcessedStep
<1>5. QED
  BY <1>3, <1>4

-----------------------------------------------------------------------------
\* The invariant holds of every behaviour: the contract and the database agree on how far the
\* close is, and in the quarantine every older state is challenged or about to be.
THEOREM Inductive == Spec => []IInv
<1>1. Init => IInv
  <2>1. SUFFICES ASSUME Init PROVE IInv
    OBVIOUS
  <2>2. /\ now = 0 /\ ours = <<>>
        /\ chain = [status |-> "open", seqno |-> 0, owner |-> FALSE, start |-> 0, lt |-> 0,
                    done |-> {}, fin |-> FALSE, their |-> 0, acts |-> 0]
        /\ db = [status |-> "active", accepting |-> TRUE, started |-> FALSE, seqno |-> Newest,
                 fin |-> FALSE, lt |-> 0, partyLt |-> 0, done |-> {}, their |-> 0]
        /\ task = [k \in Kinds |-> [st |-> "none", due |-> 0, till |-> 0]]
    BY <2>1 DEF Init, NoTask
  <2>3. ChainRecord(chain) /\ DbRecord(db) /\ task \in Tasks
    BY <2>2 DEF ChainRecord, DbRecord, Tasks
  <2>4. IsSeq(ours) /\ Len(ours) = 0
    <3>1. <<>> \in Seq({}) /\ Len(<<>>) = 0
      OBVIOUS
    <3>2. QED
      BY <2>2, <3>1, SeqIs
  <2>5. Shape
    BY <2>2, <2>3, <2>4 DEF Shape
  <2>6. Reports
    BY <2>4 DEF Reports
  <2>7. Begun /\ States
    BY <2>2, Names DEF Begun, States
  <2>8. Answered /\ Counted
    BY <2>2 DEF Answered, Counted, InQuarantine
  <2>9. QED
    BY <2>5, <2>6, <2>7, <2>8 DEF IInv
<1>2. IInv /\ [Next]_vars => IInv'
  <2>1. SUFFICES ASSUME IInv, [Next]_vars PROVE IInv'
    OBVIOUS
  <2>2. CASE UNCHANGED vars
    <3>1. chain' = chain /\ ours' = ours /\ now' = now /\ db' = db /\ task' = task
      BY <2>2 DEF vars
    <3>2. SameDb /\ task' \in Tasks
      BY <2>1, <3>1, SameDbs DEF IInv, Shape
    <3>3. QED
      BY <2>1, <3>1, <3>2, QuietStep
  <2>3. CASE RequestUncooperativeClose \/ Worker
    BY <2>1, <2>3, TaskSteps, UncooperativeCloseStep, ChallengeStep, TxSteps DEF Worker
  <2>4. CASE \E again \in BOOLEAN : OurEvent(again) \/ TheirEvent(again)
    BY <2>1, <2>4, OurEventStep, TheirEventStep
  <2>5. CASE PartyCloses \/ PartySettles \/ PartyFinishes \/ Tick
    BY <2>1, <2>5, PartyClosesStep, TxSteps, TickStep
  <2>6. QED
    BY <2>1, <2>2, <2>3, <2>4, <2>5 DEF Next
<1>3. QED
  BY <1>1, <1>2, PTL DEF Spec

\* Whatever states the party commits, in whatever order, for every length of the phases: when
\* the quarantine is over the contract holds the newest state or the pending one, and our
\* database holds the data of that very state.
THEOREM NewestCountsHolds == Spec => []NewestCounts
<1>1. IInv => NewestCounts
  <2>1. SUFFICES ASSUME IInv, Phase \in {"settling", "executing", "awaiting", "gone"}
                 PROVE  chain.seqno >= Newest /\ db.seqno = chain.seqno
    BY DEF NewestCounts
  <2>2. chain.status # "open" /\ ~InQuarantine
    BY <2>1, PhaseIs DEF IInv, InQuarantine
  <2>3. QED
    BY <2>1, <2>2 DEF IInv, Counted
<1>2. QED
  BY <1>1, Inductive, PTL

-----------------------------------------------------------------------------
(* Everything is paid, when no conditional is a derivative: what the queue *)
(* of settlements, the events and the queue of actions are in each phase.  *)

\* The resolves we know, of the state with seqno s.
Due(s) == CondsOf(s) \cap Known

Settling == chain.status = "closing" /\ SettleAt(chain.start) <= now /\ now < ActAt(chain.start)
Executing == chain.status = "closing" /\ ActAt(chain.start) <= now /\ now < FinalizeAt(chain.start)
Awaiting == chain.status = "closing" /\ FinalizeAt(chain.start) <= now

Settled == Due(chain.seqno) \subseteq chain.done /\ chain.fin

\* The values that the steps of the settlement compare and count.
Values ==
    /\ IsSeq(theirs) /\ IsSeq(settles) /\ IsSeq(acts)
    /\ chain.their \in Nat /\ chain.acts \in Nat /\ db.their \in Nat /\ db.partyLt \in Nat
    /\ db.partyLt <= chain.lt

\* The events of our contract that are not processed lead from what the database knows to
\* what the contract holds; the first may have been processed and be delivered again.
OursTold ==
    chain.status # "gone" =>
        /\ ours = <<>> => db.done = chain.done /\ db.fin = chain.fin
        /\ ours # <<>> =>
             /\ ours[Len(ours)].done = chain.done /\ ours[Len(ours)].fin = chain.fin
             /\ ours[1].lt <= db.lt => db.done = ours[1].done /\ db.fin = ours[1].fin
             /\ ~(ours[1].lt <= db.lt) => ours[1].done = db.done \cup ours[1].set
        /\ \A i \in 1 .. Len(ours) : IF ours[i].kind = "settle" THEN ours[i].ext ELSE ours[i].set = {}
        /\ \A i, j \in 1 .. Len(ours) : j = i + 1 =>
             ours[j].done = ours[i].done \cup ours[j].set /\ ~(ours[j].lt <= db.lt)

Adds(e) == IF e.kind = "theirs" THEN 1 ELSE 0

\* The same of the contract of the party: how often it has settled.
TheirsTold ==
    /\ theirs = <<>> => db.their = chain.their
    /\ theirs # <<>> =>
         /\ theirs[Len(theirs)].their = chain.their
         /\ theirs[1].lt <= db.partyLt => db.their = theirs[1].their
         /\ ~(theirs[1].lt <= db.partyLt) => theirs[1].their = db.their + Adds(theirs[1])
    /\ \A i \in 1 .. Len(theirs) :
         theirs[i].lt \in Nat /\ theirs[i].lt <= chain.lt /\ theirs[i].their \in Nat
    /\ \A i, j \in 1 .. Len(theirs) : j = i + 1 => theirs[j].their = theirs[i].their + Adds(theirs[j])
    /\ \A i, j \in 1 .. Len(theirs) : i < j => theirs[i].lt < theirs[j].lt /\ db.partyLt < theirs[j].lt

\* The tasks of the phases are scheduled in the quarantine.
Planned ==
    /\ chain.status = "open" => task["settle"].st = "none" /\ task["act"].st = "none"
    /\ chain.status = "closing" /\ ~db.started =>
         InQuarantine /\ task["settle"].st = "none" /\ task["act"].st = "none"
    /\ chain.status = "closing" /\ db.started =>
         /\ task["settle"].st # "none" /\ task["act"].st # "none"
         /\ task["settle"].due = SettleAt(chain.start) /\ task["settle"].till = ActAt(chain.start)
         /\ task["act"].due = ActAt(chain.start) /\ task["act"].till = FinalizeAt(chain.start)

\* Nothing is done before its phase.
Before ==
    /\ chain.status = "open" \/ InQuarantine =>
         /\ chain.done = {} /\ ~chain.fin /\ chain.their = 0
         /\ settles = <<>> /\ task["settle"].st # "done"
    /\ chain.status = "open" \/ InQuarantine \/ Settling =>
         chain.acts = 0 /\ acts = <<>> /\ task["act"].st # "done"

\* Every proof in the queue is against what the proofs before it leave.
Ordered(q) ==
    /\ ~chain.fin /\ q[1].pre = chain.done
    /\ \A i, j \in 1 .. Len(q) : j = i + 1 => q[i].kind = "step" /\ q[j].pre = q[i].pre \cup q[i].set
    /\ q[Len(q)].kind = "fin" /\ q[Len(q)].pre = Due(chain.seqno)

\* While conditionals are settled, what is left of the queue settles the rest.
Queue ==
    Settling =>
        /\ task["settle"].st # "done" => settles = <<>> /\ chain.done = {} /\ ~chain.fin
        /\ task["settle"].st = "done" => IF settles = <<>> THEN Settled ELSE Ordered(settles)

\* While actions are executed, what is left of the queue executes the rest.
Remaining ==
    Executing =>
        /\ Settled /\ ours = <<>> /\ theirs = <<>> /\ settles = <<>>
        /\ task["act"].st # "done" => acts = <<>> /\ chain.acts = 0
        /\ task["act"].st = "done" =>
             /\ chain.acts + Len(acts) = Actions
             /\ \A i \in 1 .. Len(acts) : /\ acts[i].pre = chain.acts + i - 1
                                          /\ acts[i].done = chain.done /\ acts[i].their = chain.their

Ended == Awaiting \/ chain.status = "gone" => Settled /\ chain.acts = Actions

\* The inductive invariant, on top of IInv.
PInv ==
    Values /\ OursTold /\ TheirsTold /\ Planned /\ Before /\ Queue /\ Remaining /\ Ended

\* The phases by the clock.
LEMMA PhaseTimes ==
    ASSUME Shape
    PROVE  /\ Phase = "settling" <=> Settling
           /\ Phase = "executing" <=> Executing
           /\ Phase = "awaiting" <=> Awaiting
           /\ chain.status = "closing" => InQuarantine \/ Settling \/ Executing \/ Awaiting
           /\ Settling => ~InQuarantine /\ ~Executing /\ ~Awaiting
           /\ Executing => ~InQuarantine /\ ~Awaiting
           /\ Awaiting => ~InQuarantine
<1>1. now \in Nat /\ chain.start \in Nat /\ chain.status \in {"open", "closing", "gone"}
  BY DEF Shape, ChainRecord
<1>2. PICK a, b, c \in Nat : /\ a = SettleAt(chain.start) /\ b = ActAt(chain.start) /\ c = FinalizeAt(chain.start)
                             /\ a < b /\ b < c
  BY <1>1 DEF SettleAt, ActAt, FinalizeAt
<1>3. CASE chain.status = "closing"
  <2>1. Phase = IF now < a THEN "closure" ELSE IF now < b THEN "settling" ELSE IF now < c THEN "executing" ELSE "awaiting"
    BY <1>2, <1>3 DEF Phase, PhaseAt
  <2>2. /\ InQuarantine <=> now < a
        /\ Settling <=> a <= now /\ now < b
        /\ Executing <=> b <= now /\ now < c
        /\ Awaiting <=> c <= now
    BY <1>2, <1>3 DEF InQuarantine, Settling, Executing, Awaiting
  <2>3. CASE now < a
    BY <1>1, <1>2, <2>1, <2>2, <2>3
  <2>4. CASE ~(now < a) /\ now < b
    BY <1>1, <1>2, <2>1, <2>2, <2>4
  <2>5. CASE ~(now < a) /\ ~(now < b) /\ now < c
    BY <1>1, <1>2, <2>1, <2>2, <2>5
  <2>6. CASE ~(now < a) /\ ~(now < b) /\ ~(now < c)
    BY <1>1, <1>2, <2>1, <2>2, <2>6
  <2>7. QED
    BY <2>3, <2>4, <2>5, <2>6
<1>4. CASE chain.status # "closing"
  BY <1>1, <1>4 DEF Phase, InQuarantine, Settling, Executing, Awaiting
<1>5. QED
  BY <1>3, <1>4

\* A set of numbers that is not empty has a least one.
LEMMA Least ==
    ASSUME NEW T, T \subseteq Nat, T # {}
    PROVE  \E x \in T : \A y \in T : x <= y
<1>1. IsWellFoundedOn({ss \in Nat \X Nat : ss[1] < ss[2]}, Nat)
  BY NatLessThanWellFounded, Zenon DEF OpToRel
<1>2. PICK x \in T : \A y \in T : ~(<<y, x>> \in {ss \in Nat \X Nat : ss[1] < ss[2]})
  BY <1>1, WFMin, Zenon
<1>3. ASSUME NEW y \in T
      PROVE  x <= y
  <2>1. <<y, x>> \in Nat \X Nat => ~(y < x)
    BY <1>2
  <2>2. QED
    BY <2>1
<1>4. QED
  BY <1>3

\* Every resolve at hand is in a message.
LEMMA MessagesCover ==
    ASSUME IInv, Derivatives = {}
    PROVE  \E n \in Nat : /\ Len(Messages) = n
                          /\ UNION {Messages[i] : i \in 1 .. n} = Due(db.seqno)
<1>1. db.seqno \in {Newest, Newest + 1} /\ Conditionals \in Nat /\ PerMessage \in Nat \ {0}
  BY SettlementAssumption DEF IInv, Shape, DbRecord
<1>2. PICK T : T = ToSettle
  OBVIOUS
<1>3. T = Due(db.seqno)
  BY <1>2 DEF ToSettle, Due
<1>4. PICK m \in Nat : CondsOf(db.seqno) = 1 .. m
  BY <1>1 DEF CondsOf
<1>5. T \subseteq 1 .. m /\ T \subseteq Nat /\ IsFiniteSet(T)
  <2>1. T \subseteq 1 .. m
    BY <1>3, <1>4 DEF Due
  <2>2. IsFiniteSet(1 .. m)
    BY FS_Interval
  <2>3. IsFiniteSet(T)
    BY <2>1, <2>2, FS_Subset, Zenon
  <2>4. T \subseteq Nat
    BY <2>1
  <2>5. QED
    BY <2>1, <2>3, <2>4
<1>6. PICK first : first = {c \in T : Begins(c)}
  OBVIOUS
<1>7. first \subseteq T /\ IsFiniteSet(first)
  BY <1>5, <1>6, FS_Subset
<1>8. PICK n \in Nat : n = Cardinality(first)
  BY <1>7, FS_CardinalityType
<1>9. Messages = [i \in 1 .. n |-> {c \in T : Cardinality({x \in first : x <= c}) = i}]
  BY <1>2, <1>6, <1>8, Zenon DEF Messages
<1>10. ASSUME NEW c \in T
       PROVE  Cardinality({x \in first : x <= c}) \in 1 .. n
  <2>1. PICK a \in T : \A y \in T : a <= y
    BY <1>5, Least
  <2>2. Begins(a)
    <3>1. PICK run : run = {x \in ToSettle : x <= a /\ (x .. a) \cap ToSettle \cap Derivatives = {}}
      OBVIOUS
    <3>2. \A x \in T : x <= a => x = a
      BY <1>5, <2>1
    <3>3. a <= a
      BY <1>5
    <3>4. run = {a}
      BY <1>2, <3>1, <3>2, <3>3
    <3>5. Cardinality(run) = 1
      BY <3>4, FS_Singleton, Zenon
    <3>6. (Cardinality(run) - 1) % PerMessage = 0
      BY <1>1, <3>5
    <3>7. QED
      BY <3>1, <3>6, Zenon DEF Begins
  <2>3. PICK U : U = {x \in first : x <= c}
    OBVIOUS
  <2>4. a \in U /\ U \in SUBSET first
    BY <1>6, <2>1, <2>2, <2>3
  <2>5. IsFiniteSet(U) /\ Cardinality(U) <= n
    BY <1>7, <1>8, <2>4, FS_Subset
  <2>6. Cardinality(U) \in Nat /\ Cardinality(U) # 0
    BY <2>4, <2>5, FS_CardinalityType, FS_EmptySet
  <2>7. Cardinality(U) \in 1 .. n
    BY <2>5, <2>6
  <2>8. QED
    BY <2>3, <2>7
<1>11. UNION {Messages[i] : i \in 1 .. n} = T
  <2>1. ASSUME NEW c \in T
        PROVE  c \in UNION {Messages[i] : i \in 1 .. n}
    <3>1. PICK i \in 1 .. n : i = Cardinality({x \in first : x <= c})
      BY <1>10
    <3>2. c \in Messages[i]
      BY <1>9, <3>1
    <3>3. QED
      BY <3>2
  <2>2. \A i \in 1 .. n : Messages[i] \subseteq T
    BY <1>9
  <2>3. QED
    BY <2>1, <2>2
<1>12. Len(Messages) = n
  BY <1>9
<1>13. QED
  BY <1>3, <1>11, <1>12

\* A queue of n messages that settle the set T.
Built(q, n, T) ==
    /\ IsSeq(q) /\ Len(q) = n + 1
    /\ q[1].pre = {} /\ q[n + 1].kind = "fin" /\ q[n + 1].pre = T
    /\ \A i, j \in 1 .. Len(q) : j = i + 1 => q[i].kind = "step" /\ q[j].pre = q[i].pre \cup q[i].set

\* The queue of a settlement: every proof is against what the messages before it leave.
LEMMA QueueBuilt ==
    ASSUME Derivatives = {}, NEW n \in Nat, NEW ms, Len(ms) = n,
           NEW q, q = InQueue(Append(Steps(ms), [kind |-> "fin", set |-> {}, pre |-> Upto(ms, Len(ms))]))
    PROVE  Built(q, n, UNION {ms[i] : i \in 1 .. n})
<1>1. Len(ms) = n
  OBVIOUS
<1>2. PICK st : st = [i \in 1 .. n |-> [kind |-> "step", set |-> ms[i], pre |-> Upto(ms, i - 1)]]
  OBVIOUS
<1>3. Steps(ms) = st
  BY <1>1, <1>2, Zenon DEF Steps
<1>4. PICK fin : fin = [kind |-> "fin", set |-> {}, pre |-> Upto(ms, n)]
  OBVIOUS
<1>5. PICK r : r = Append(st, fin)
  OBVIOUS
<1>6. IsSeq(st) /\ Len(st) = n
  <2>1. \A S : \A f \in [1 .. n -> S] : f \in Seq(S) /\ Len(f) = n
    OBVIOUS
  <2>2. st \in [1 .. n -> {st[i] : i \in 1 .. n}]
    BY <1>2
  <2>3. QED
    BY <2>1, <2>2, SeqIs
<1>7. IsSeq(r) /\ Len(r) = n + 1 /\ (\A i \in 1 .. n : r[i] = st[i]) /\ r[n + 1] = fin
  BY <1>5, <1>6, AppendIs
<1>8. q = r
  <2>1. q = InQueue(r)
    BY <1>1, <1>3, <1>4, <1>5
  <2>2. \A i \in 1 .. Len(r) : ~(r[i].set \cap Derivatives # {})
    OBVIOUS
  <2>3. InQueue(r) = r
    BY <2>2, Zenon DEF InQueue
  <2>4. QED
    BY <2>1, <2>3
<1>9. Upto(ms, 0) = {} /\ Upto(ms, n) = UNION {ms[i] : i \in 1 .. n}
  BY DEF Upto
<1>10. \A i \in 1 .. n : Upto(ms, i) = Upto(ms, i - 1) \cup ms[i]
  <2>1. SUFFICES ASSUME NEW i \in 1 .. n PROVE Upto(ms, i) = Upto(ms, i - 1) \cup ms[i]
    OBVIOUS
  <2>2. 1 .. i = (1 .. (i - 1)) \cup {i}
    OBVIOUS
  <2>3. QED
    BY <2>2 DEF Upto
<1>11. \A i \in 1 .. n : r[i].kind = "step" /\ r[i].set = ms[i] /\ r[i].pre = Upto(ms, i - 1)
  BY <1>2, <1>7
<1>12. r[n + 1].kind = "fin" /\ r[n + 1].pre = Upto(ms, n)
  BY <1>4, <1>7
<1>13. r[1].pre = {}
  <2>1. CASE n = 0
    BY <1>9, <1>12, <2>1
  <2>2. CASE n # 0
    <3>1. 1 \in 1 .. n /\ 1 - 1 = 0
      BY <2>2
    <3>2. QED
      BY <1>9, <1>11, <3>1
  <2>3. QED
    BY <2>1, <2>2
<1>14. ASSUME NEW i \in 1 .. Len(r), NEW j \in 1 .. Len(r), j = i + 1
       PROVE  r[i].kind = "step" /\ r[j].pre = r[i].pre \cup r[i].set
  <2>1. i \in 1 .. n
    BY <1>7, <1>14
  <2>2. r[j].pre = Upto(ms, i)
    <3>1. CASE j = n + 1
      BY <1>12, <1>14, <3>1
    <3>2. CASE j # n + 1
      <4>1. j \in 1 .. n /\ j - 1 = i
        BY <1>7, <1>14, <3>2
      <4>2. QED
        BY <1>11, <4>1
    <3>3. QED
      BY <3>1, <3>2
  <2>3. QED
    BY <1>10, <1>11, <2>1, <2>2
<1>15. \A i, j \in 1 .. Len(q) : j = i + 1 => q[i].kind = "step" /\ q[j].pre = q[i].pre \cup q[i].set
  BY <1>8, <1>14
<1>16. IsSeq(q) /\ Len(q) = n + 1 /\ q[n + 1].kind = "fin"
  BY <1>7, <1>8, <1>12
<1>17. q[1].pre = {} /\ q[n + 1].pre = UNION {ms[i] : i \in 1 .. n}
  BY <1>8, <1>9, <1>12, <1>13
<1>18. QED
  BY <1>15, <1>16, <1>17, Zenon DEF Built

-----------------------------------------------------------------------------
(* The steps, once more: what they do to the settlement.                   *)

\* What the database knows of the contracts stays.
SameView ==
    /\ db'.lt = db.lt /\ db'.done = db.done /\ db'.fin = db.fin /\ db'.started = db.started
    /\ db'.partyLt = db.partyLt /\ db'.their = db.their

\* The tasks of the phases stay.
SamePlan == task'["settle"] = task["settle"] /\ task'["act"] = task["act"]

\* A database that only stops accepting keeps its view.
LEMMA SameViews ==
    ASSUME Shape, db' = db \/ db' = [db EXCEPT !.accepting = FALSE]
    PROVE  SameView
<1>1. DbRecord(db)
  BY DEF Shape
<1>2. CASE db' = db
  BY <1>2 DEF SameView
<1>3. CASE db' = [db EXCEPT !.accepting = FALSE]
  <2>1. PICK d, f : d = db /\ f = db' /\ f = [d EXCEPT !.accepting = FALSE] /\ DbRecord(d)
    BY <1>1, <1>3
  <2>2. f = [status |-> d.status, accepting |-> FALSE, started |-> d.started, seqno |-> d.seqno, fin |-> d.fin,
             lt |-> d.lt, partyLt |-> d.partyLt, done |-> d.done, their |-> d.their]
    BY <2>1 DEF DbRecord
  <2>3. QED
    BY <2>1, <2>2 DEF SameView
<1>4. QED
  BY <1>2, <1>3

\* An event of our contract tells what the transaction did.
LEMMA EmitOurs ==
    ASSUME IInv, OursTold, chain.status # "gone", SameView, NEW c, NEW e,
           ours' = Append(ours, e), chain' = c,
           e.lt = chain.lt + 1, e.done = c.done, e.fin = c.fin, c.done = chain.done \cup e.set,
           IF e.kind = "settle" THEN e.ext ELSE e.set = {}
    PROVE  OursTold'
<1>1. IsSeq(ours) /\ db.lt \in Nat /\ chain.lt \in Nat /\ db.lt <= chain.lt
  BY DEF IInv, Shape, Begun, DbRecord, ChainRecord
<1>2. PICK s, r, n : s = ours /\ r = ours' /\ n = Len(s)
  OBVIOUS
<1>3. /\ n \in Nat /\ Len(r) = n + 1 /\ r[n + 1] = e
      /\ \A i \in 1 .. n : r[i] = s[i]
  BY <1>1, <1>2, AppendIs
<1>4. ~(e.lt <= db.lt)
  BY <1>1
<1>5. \A i \in 1 .. Len(r) : i \in 1 .. n \/ i = n + 1
  BY <1>3
<1>6. r # <<>>
  BY <1>3
<1>7. CASE n = 0
  <2>1. s = <<>>
    BY <1>1, <1>2, <1>7, TailIs
  <2>2. e.done = db.done \cup e.set /\ r[1] = e
    BY <1>2, <1>3, <1>7, <2>1 DEF OursTold
  <2>3. \A i \in 1 .. Len(r) : r[i] = e
    BY <1>3, <1>7
  <2>4. ~\E i, j \in 1 .. Len(r) : j = i + 1
    BY <1>3, <1>7
  <2>5. r[Len(r)] = e
    BY <1>3
  <2>6. QED
    BY <1>2, <1>4, <1>6, <2>2, <2>3, <2>4, <2>5 DEF OursTold, SameView
<1>8. CASE n # 0
  <2>1. s # <<>> /\ 1 \in 1 .. n /\ n \in 1 .. n
    BY <1>2, <1>3, <1>8
  <2>2. /\ s[n].done = chain.done
        /\ s[1].lt <= db.lt => db.done = s[1].done /\ db.fin = s[1].fin
        /\ ~(s[1].lt <= db.lt) => s[1].done = db.done \cup s[1].set
        /\ \A i \in 1 .. n : IF s[i].kind = "settle" THEN s[i].ext ELSE s[i].set = {}
        /\ \A i, j \in 1 .. n : j = i + 1 => s[j].done = s[i].done \cup s[j].set /\ ~(s[j].lt <= db.lt)
    BY <1>2, <2>1 DEF OursTold
  <2>3. r[1] = s[1] /\ r[Len(r)] = e
    BY <1>3, <2>1
  <2>4. \A i \in 1 .. Len(r) : IF r[i].kind = "settle" THEN r[i].ext ELSE r[i].set = {}
    BY <1>3, <1>5, <2>2
  <2>5. ASSUME NEW i \in 1 .. Len(r), NEW j \in 1 .. Len(r), j = i + 1
        PROVE  r[j].done = r[i].done \cup r[j].set /\ ~(r[j].lt <= db.lt)
    <3>1. i \in 1 .. n
      BY <1>3, <2>5
    <3>2. CASE j \in 1 .. n
      <4>1. s[j].done = s[i].done \cup s[j].set /\ ~(s[j].lt <= db.lt)
        BY <2>2, <2>5, <3>1, <3>2
      <4>2. r[i] = s[i] /\ r[j] = s[j]
        BY <1>3, <3>1, <3>2
      <4>3. QED
        BY <4>1, <4>2
    <3>3. CASE j = n + 1
      <4>1. i = n
        BY <1>3, <2>5, <3>1, <3>3
      <4>2. r[j] = e /\ r[i] = s[n]
        BY <1>3, <3>1, <3>3, <4>1
      <4>3. e.done = s[n].done \cup e.set
        BY <2>2
      <4>4. QED
        BY <1>4, <4>2, <4>3
    <3>4. QED
      BY <1>5, <3>2, <3>3
  <2>6. QED
    BY <1>2, <1>6, <2>2, <2>3, <2>4, <2>5 DEF OursTold, SameView
<1>9. QED
  BY <1>7, <1>8

\* The same of an event of the contract of the party.
LEMMA EmitTheirs ==
    ASSUME IInv, Values, TheirsTold, SameView, NEW c, NEW e,
           theirs' = Append(theirs, e), chain' = c, c.lt = chain.lt + 1,
           e.lt = c.lt, e.their = c.their, c.their = chain.their + Adds(e)
    PROVE  TheirsTold' /\ IsSeq(theirs')
<1>1. /\ IsSeq(theirs) /\ db.partyLt \in Nat /\ chain.lt \in Nat /\ db.partyLt <= chain.lt
      /\ chain.their \in Nat /\ Adds(e) \in Nat
  BY DEF IInv, Shape, ChainRecord, Values, Adds
<1>2. PICK s, r, n : s = theirs /\ r = theirs' /\ n = Len(s)
  OBVIOUS
<1>3. /\ n \in Nat /\ Len(r) = n + 1 /\ r[n + 1] = e /\ IsSeq(r)
      /\ \A i \in 1 .. n : r[i] = s[i]
  BY <1>1, <1>2, AppendIs
<1>4. ~(e.lt <= db.partyLt) /\ db.partyLt < e.lt /\ e.lt \in Nat /\ e.lt <= c.lt /\ e.their \in Nat
  BY <1>1
<1>5. \A i \in 1 .. Len(r) : i \in 1 .. n \/ i = n + 1
  BY <1>3
<1>6. r # <<>>
  BY <1>3
<1>7. \A i \in 1 .. n : s[i].lt \in Nat /\ s[i].lt <= c.lt /\ s[i].lt < e.lt /\ s[i].their \in Nat
  BY <1>1, <1>2 DEF TheirsTold
<1>8. \A i \in 1 .. Len(r) : r[i].lt \in Nat /\ r[i].lt <= c.lt /\ r[i].their \in Nat
  BY <1>3, <1>4, <1>5, <1>7
<1>9. CASE n = 0
  <2>1. s = <<>>
    BY <1>1, <1>2, <1>9, TailIs
  <2>2. e.their = db.their + Adds(e) /\ r[1] = e
    BY <1>2, <1>3, <1>9, <2>1 DEF TheirsTold
  <2>3. ~\E i, j \in 1 .. Len(r) : j = i + 1 \/ i < j
    BY <1>3, <1>9
  <2>4. r[Len(r)] = e
    BY <1>3
  <2>5. QED
    BY <1>2, <1>3, <1>4, <1>6, <1>8, <2>2, <2>3, <2>4 DEF TheirsTold, SameView, Adds
<1>10. CASE n # 0
  <2>1. s # <<>> /\ 1 \in 1 .. n /\ n \in 1 .. n
    BY <1>2, <1>3, <1>10
  <2>2. /\ s[n].their = chain.their
        /\ s[1].lt <= db.partyLt => db.their = s[1].their
        /\ ~(s[1].lt <= db.partyLt) => s[1].their = db.their + Adds(s[1])
        /\ \A i, j \in 1 .. n : j = i + 1 => s[j].their = s[i].their + Adds(s[j])
        /\ \A i, j \in 1 .. n : i < j => s[i].lt < s[j].lt /\ db.partyLt < s[j].lt
    BY <1>2, <2>1 DEF TheirsTold
  <2>3. r[1] = s[1] /\ r[Len(r)] = e
    BY <1>3, <2>1
  <2>4. ASSUME NEW i \in 1 .. Len(r), NEW j \in 1 .. Len(r), j = i + 1
        PROVE  r[j].their = r[i].their + Adds(r[j])
    <3>1. i \in 1 .. n
      BY <1>3, <2>4
    <3>2. CASE j \in 1 .. n
      BY <1>3, <2>2, <2>4, <3>1, <3>2
    <3>3. CASE j = n + 1
      <4>1. i = n
        BY <1>3, <2>4, <3>1, <3>3
      <4>2. QED
        BY <1>3, <2>2, <3>1, <3>3, <4>1
    <3>4. QED
      BY <1>5, <3>2, <3>3
  <2>5. ASSUME NEW i \in 1 .. Len(r), NEW j \in 1 .. Len(r), i < j
        PROVE  r[i].lt < r[j].lt /\ db.partyLt < r[j].lt
    <3>1. i \in 1 .. n
      BY <1>3, <2>5
    <3>2. CASE j \in 1 .. n
      BY <1>3, <2>2, <2>5, <3>1, <3>2
    <3>3. CASE j = n + 1
      BY <1>3, <1>4, <1>7, <3>1, <3>3
    <3>4. QED
      BY <1>5, <3>2, <3>3
  <2>6. QED
    BY <1>2, <1>3, <1>6, <1>8, <2>2, <2>3, <2>4, <2>5 DEF TheirsTold, SameView, Adds
<1>11. QED
  BY <1>9, <1>10

\* A transaction: the events lead to what it did, wherever they are seen.
LEMMA EmitTold ==
    ASSUME IInv, Values, OursTold, TheirsTold, chain.status # "gone", SameView,
           NEW c, NEW kind, NEW byUs, NEW set, Emit(c, kind, byUs, set),
           c.lt = chain.lt + 1, c.their = chain.their + (IF kind = "theirs" THEN 1 ELSE 0),
           IF kind = "settle" THEN byUs ELSE set = {}, c.done = chain.done \cup set,
           kind \notin {"close", "settle", "fin", "gone"} => c.fin = chain.fin /\ set = {}
    PROVE  /\ chain' = c /\ OursTold' /\ TheirsTold' /\ IsSeq(theirs')
           /\ kind \in {"settle", "fin", "act"} => theirs' = theirs
           /\ kind \in {"theirs", "act"} => ours' = ours
<1>1. PICK e : e = [kind |-> kind, lt |-> c.lt, ext |-> byUs, seqno |-> c.seqno, owner |-> c.owner,
                    start |-> c.start, gone |-> c.status = "gone", fin |-> c.fin, set |-> set,
                    done |-> c.done, their |-> c.their]
  OBVIOUS
<1>2. /\ chain' = c
      /\ ours' = IF kind \in {"close", "settle", "fin", "gone"} THEN Append(ours, e) ELSE ours
      /\ theirs' = IF kind \in {"close", "theirs", "gone"} THEN Append(theirs, e) ELSE theirs
  BY <1>1 DEF Emit
<1>3. /\ e.kind = kind /\ e.lt = c.lt /\ e.ext = byUs /\ e.set = set /\ e.done = c.done /\ e.fin = c.fin
      /\ e.their = c.their
  BY <1>1
<1>4. OursTold'
  <2>1. CASE kind \in {"close", "settle", "fin", "gone"}
    <3>1. ours' = Append(ours, e)
      BY <1>2, <2>1
    <3>2. QED
      BY <1>2, <1>3, <3>1, EmitOurs
  <2>2. CASE kind \notin {"close", "settle", "fin", "gone"}
    <3>1. ours' = ours /\ c.done = chain.done /\ c.fin = chain.fin
      BY <1>2, <2>2
    <3>2. QED
      BY <1>2, <3>1 DEF OursTold, SameView
  <2>3. QED
    BY <2>1, <2>2
<1>5. TheirsTold' /\ IsSeq(theirs')
  <2>1. CASE kind \in {"close", "theirs", "gone"}
    <3>1. theirs' = Append(theirs, e) /\ c.their = chain.their + Adds(e)
      BY <1>2, <1>3, <2>1 DEF Adds
    <3>2. QED
      BY <1>2, <1>3, <3>1, EmitTheirs
  <2>2. CASE kind \notin {"close", "theirs", "gone"}
    <3>1. theirs' = theirs /\ c.their = chain.their /\ chain.lt \in Nat /\ chain.their \in Nat
      BY <1>2, <2>2 DEF IInv, Shape, ChainRecord, Values
    <3>2. \A i \in 1 .. Len(theirs) : theirs[i].lt <= c.lt
      BY <3>1 DEF TheirsTold
    <3>3. QED
      BY <1>2, <3>1, <3>2, SMTT(30) DEF TheirsTold, SameView, Values, Adds
  <2>3. QED
    BY <2>1, <2>2
<1>6. QED
  BY <1>2, <1>4, <1>5

\* Other tasks leave those of the phases alone.
LEMMA OtherTasks ==
    ASSUME NEW ts \in Tasks, NEW k \in {"uncoop", "deploy", "challenge", "finalize"}
    PROVE  /\ [ts EXCEPT ![k].st = "done"] \in Tasks
           /\ [ts EXCEPT ![k].st = "done"]["settle"] = ts["settle"]
           /\ [ts EXCEPT ![k].st = "done"]["act"] = ts["act"]
<1>1. k \in Kinds /\ "settle" \in Kinds /\ "act" \in Kinds /\ k # "settle" /\ k # "act"
  BY DEF Kinds
<1>2. [ts EXCEPT ![k].st = "done"] \in Tasks
  BY <1>1, DoneIs, Zenon
<1>3. [ts EXCEPT ![k].st = "done"]["settle"] = ts["settle"] /\ [ts EXCEPT ![k].st = "done"]["act"] = ts["act"]
  BY <1>1 DEF Tasks
<1>4. QED
  BY <1>2, <1>3

\* Steps that touch neither the contracts, their events nor the two queues.
LEMMA QuietPaid ==
    ASSUME PInv, UNCHANGED <<now, chain, ours, theirs, settles, acts>>, SameView, SamePlan
    PROVE  PInv'
<1>1. Values' /\ OursTold' /\ TheirsTold'
  BY DEF PInv, Values, OursTold, TheirsTold, SameView, Adds
<1>2. Planned' /\ Before'
  BY DEF PInv, Planned, Before, InQuarantine, Settling, SameView, SamePlan
<1>3. Queue' /\ Remaining' /\ Ended'
  BY DEF PInv, Queue, Remaining, Ended, Ordered, Settled, Settling, Executing, Awaiting, SamePlan
<1>4. QED
  BY <1>1, <1>2, <1>3 DEF PInv

\* When the contracts are gone nothing is left to be done.
LEMMA GonePaid ==
    ASSUME PInv, chain.status = "gone", chain' = chain, Values', TheirsTold'
    PROVE  PInv'
<1>1. OursTold' /\ Planned' /\ Before' /\ Queue' /\ Remaining'
  BY DEF OursTold, Planned, Before, Queue, Remaining, InQuarantine, Settling, Executing
<1>2. Ended'
  BY DEF PInv, Ended, Settled
<1>3. QED
  BY <1>1, <1>2 DEF PInv

\* A state is committed: it opens the quarantine, or the quarantine goes on.
LEMMA ClosePaid ==
    ASSUME IInv, PInv, NEW s \in Nat, NEW byUs \in BOOLEAN, CloseTx(s, byUs), CloseAccepted(s),
           UNCHANGED <<now, settles, acts>>, SameView, SamePlan
    PROVE  PInv'
<1>1. ChainRecord(chain) /\ now \in Nat /\ Shape
  BY DEF IInv, Shape
<1>2. PICK c : c = [chain EXCEPT !.status = "closing", !.seqno = s, !.owner = byUs, !.lt = @ + 1,
                                 !.start = IF chain.status = "open" THEN now ELSE @]
  OBVIOUS
<1>3. c = [status |-> "closing", seqno |-> s, owner |-> byUs, start |-> IF chain.status = "open" THEN now ELSE chain.start,
           lt |-> chain.lt + 1, done |-> chain.done, fin |-> chain.fin, their |-> chain.their, acts |-> chain.acts]
  BY <1>1, <1>2 DEF ChainRecord
<1>4. /\ c.status = "closing" /\ c.lt = chain.lt + 1 /\ c.done = chain.done /\ c.fin = chain.fin
      /\ c.their = chain.their /\ c.acts = chain.acts
      /\ chain.status # "open" => c.start = chain.start
      /\ chain.status = "open" => c.start = now
  BY <1>3
<1>5. chain.status = "open" \/ InQuarantine
  BY <1>1, PhaseIs DEF CloseAccepted
<1>6. Emit(c, "close", byUs, {}) /\ chain.status # "gone"
  BY <1>2, <1>5 DEF CloseTx, InQuarantine
<1>7. chain' = c /\ OursTold' /\ TheirsTold' /\ IsSeq(theirs')
  <2>1. c.their = chain.their + (IF "close" = "theirs" THEN 1 ELSE 0) /\ c.done = chain.done \cup {}
    BY <1>4 DEF PInv, Values
  <2>2. "close" # "settle" /\ "close" \in {"close", "settle", "fin", "gone"}
    OBVIOUS
  <2>3. QED
    BY <1>4, <1>6, <2>1, <2>2, EmitTold DEF PInv
<1>8. InQuarantine' /\ ~Settling' /\ ~Executing' /\ ~Awaiting'
  <2>1. chain'.status = "closing" /\ now < SettleAt(chain'.start) /\ chain'.start \in Nat
    BY <1>1, <1>4, <1>5, <1>7 DEF InQuarantine, SettleAt, ChainRecord
  <2>2. now < ActAt(chain'.start) /\ now < FinalizeAt(chain'.start) /\ SettleAt(chain'.start) \in Nat
        /\ ActAt(chain'.start) \in Nat /\ FinalizeAt(chain'.start) \in Nat
    BY <1>1, <2>1 DEF SettleAt, ActAt, FinalizeAt
  <2>3. QED
    BY <1>1, <2>1, <2>2 DEF InQuarantine, Settling, Executing, Awaiting
<1>9. Values'
  BY <1>1, <1>4, <1>7 DEF PInv, Values, SameView, ChainRecord
<1>10. Planned'
  <2>1. ASSUME ~db'.started
        PROVE  task'["settle"].st = "none" /\ task'["act"].st = "none"
    BY <1>5, <2>1 DEF PInv, Planned, SameView, SamePlan, InQuarantine
  <2>2. ASSUME db'.started
        PROVE  /\ task'["settle"].st # "none" /\ task'["act"].st # "none"
               /\ task'["settle"].due = SettleAt(chain'.start) /\ task'["settle"].till = ActAt(chain'.start)
               /\ task'["act"].due = ActAt(chain'.start) /\ task'["act"].till = FinalizeAt(chain'.start)
    <3>1. db.started /\ chain.status = "closing" /\ chain'.start = chain.start
      BY <1>4, <1>5, <1>7, <2>2 DEF IInv, Begun, SameView, InQuarantine
    <3>2. QED
      BY <3>1 DEF PInv, Planned, SamePlan
  <2>3. QED
    BY <1>4, <1>7, <1>8, <2>1, <2>2 DEF Planned
<1>11. Before'
  BY <1>4, <1>5, <1>7 DEF PInv, Before, SamePlan
<1>12. Queue' /\ Remaining' /\ Ended'
  BY <1>4, <1>7, <1>8 DEF Queue, Remaining, Ended
<1>13. QED
  BY <1>7, <1>9, <1>10, <1>11, <1>12 DEF PInv

\* The tasks that commit a state, and those that only prepare.
LEMMA CommitsPaid ==
    ASSUME IInv, PInv,
           RequestUncooperativeClose \/ UncooperativeClose \/ DeployResolvers \/ Challenge \/ PartyCloses
    PROVE  PInv'
<1>1. Shape /\ task \in Tasks /\ now \in Nat /\ DbRecord(db) /\ Forever \in Nat
  BY Names DEF IInv, Shape
<1>2. UNCHANGED <<now, settles, acts>>
  BY DEF RequestUncooperativeClose, UncooperativeClose, DeployResolvers, Challenge, PartyCloses
<1>3. SameView
  BY <1>1, SameViews DEF RequestUncooperativeClose, UncooperativeClose, DeployResolvers, Challenge, PartyCloses
<1>4. SamePlan
  <2>0. ASSUME NEW ts \in Tasks, NEW k \in {"uncoop", "deploy"}
        PROVE  /\ Created(ts, k, now, Forever)["settle"] = ts["settle"]
               /\ Created(ts, k, now, Forever)["act"] = ts["act"]
    <3>1. k \in Kinds /\ "settle" \in Kinds /\ "act" \in Kinds /\ k # "settle" /\ k # "act"
      BY <2>0 DEF Kinds
    <3>2. QED
      BY <1>1, <2>0, <3>1 DEF Created, Tasks
  <2>1. CASE RequestUncooperativeClose
    <3>1. task' = Created(task, "uncoop", now, Forever)
      BY <2>1 DEF RequestUncooperativeClose
    <3>2. QED
      BY <1>1, <2>0, <3>1, Zenon DEF SamePlan
  <2>2. CASE DeployResolvers
    <3>1. task' = [task EXCEPT !["deploy"].st = "done"]
      BY <2>2 DEF DeployResolvers, Done
    <3>2. QED
      BY <1>1, <3>1, OtherTasks DEF SamePlan
  <2>3. ASSUME NEW k \in {"uncoop", "challenge"}, NEW t, t = [task EXCEPT ![k].st = "done"],
               task' = t \/ task' = Created(t, "deploy", now, Forever)
        PROVE  SamePlan
    <3>1. t \in Tasks /\ t["settle"] = task["settle"] /\ t["act"] = task["act"]
      BY <1>1, <2>3, OtherTasks
    <3>2. Created(t, "deploy", now, Forever)["settle"] = t["settle"] /\ Created(t, "deploy", now, Forever)["act"] = t["act"]
      BY <2>0, <3>1, Zenon
    <3>3. QED
      BY <2>3, <3>1, <3>2, Zenon DEF SamePlan
  <2>4. CASE UncooperativeClose
    <3>1. PICK t : t = [task EXCEPT !["uncoop"].st = "done"]
      OBVIOUS
    <3>2. task' = t \/ task' = Created(t, "deploy", now, Forever)
      BY <2>4, <3>1 DEF UncooperativeClose, Done
    <3>3. QED
      BY <2>3, <3>1, <3>2
  <2>5. CASE Challenge
    <3>1. PICK t : t = [task EXCEPT !["challenge"].st = "done"]
      OBVIOUS
    <3>2. task' = Created(t, "deploy", now, Forever)
      BY <2>5, <3>1 DEF Challenge
    <3>3. QED
      BY <2>3, <3>1, <3>2
  <2>6. CASE PartyCloses
    BY <2>6 DEF PartyCloses, SamePlan
  <2>7. QED
    BY <2>1, <2>2, <2>4, <2>5, <2>6
<1>5. CASE UNCHANGED <<chain, ours, theirs>>
  BY <1>2, <1>3, <1>4, <1>5, QuietPaid
<1>6. CASE ~UNCHANGED <<chain, ours, theirs>>
  <2>1. \E s \in Nat, byUs \in BOOLEAN : CloseTx(s, byUs) /\ CloseAccepted(s)
    <3>1. CASE UncooperativeClose \/ Challenge
      <4>1. CloseTx(db.seqno, TRUE) /\ CloseAccepted(db.seqno)
        BY <1>6, <3>1 DEF UncooperativeClose, Challenge
      <4>2. PICK s \in Nat : s = db.seqno
        BY <1>1 DEF DbRecord
      <4>3. CloseTx(s, TRUE) /\ CloseAccepted(s)
        BY <4>1, <4>2
      <4>4. QED
        BY <4>3
    <3>2. CASE PartyCloses
      <4>1. PICK s \in 1 .. (IF Pending THEN Newest + 1 ELSE Newest) : CloseAccepted(s) /\ CloseTx(s, FALSE)
        BY <3>2 DEF PartyCloses
      <4>2. s \in Nat
        OBVIOUS
      <4>3. QED
        BY <4>1, <4>2
    <3>3. CASE RequestUncooperativeClose \/ DeployResolvers
      BY <1>6, <3>3 DEF RequestUncooperativeClose, DeployResolvers
    <3>4. QED
      BY <3>1, <3>2, <3>3
  <2>2. QED
    BY <1>2, <1>3, <1>4, <2>1, ClosePaid
<1>7. QED
  BY <1>5, <1>6

\* A task of a phase is run: the others stay.
LEMMA PhaseTask ==
    ASSUME NEW ts \in Tasks
    PROVE  /\ [ts EXCEPT !["settle"].st = "done"]["act"] = ts["act"]
           /\ [ts EXCEPT !["settle"].st = "done"]["settle"] = [ts["settle"] EXCEPT !.st = "done"]
           /\ [ts EXCEPT !["act"].st = "done"]["settle"] = ts["settle"]
           /\ [ts EXCEPT !["act"].st = "done"]["act"] = [ts["act"] EXCEPT !.st = "done"]
<1>1. "settle" \in Kinds /\ "act" \in Kinds /\ "settle" # "act"
  BY DEF Kinds
<1>2. QED
  BY <1>1 DEF Tasks

\* When a task of a phase is due, its phase has begun.
LEMMA DuePhase ==
    ASSUME IInv, PInv
    PROVE  /\ Ready("settle") => chain.status # "open" /\ ~InQuarantine
           /\ Ready("act") => chain.status # "open" /\ ~InQuarantine /\ ~Settling
<1>1. now \in Nat /\ chain.start \in Nat /\ task["settle"].due \in Nat /\ task["act"].due \in Nat
  BY Names DEF IInv, Shape, ChainRecord, Tasks
<1>2. PICK a, b \in Nat : a = SettleAt(chain.start) /\ b = ActAt(chain.start) /\ a < b
  <2>1. /\ SettleAt(chain.start) \in Nat /\ ActAt(chain.start) \in Nat
        /\ SettleAt(chain.start) < ActAt(chain.start)
    BY <1>1 DEF SettleAt, ActAt
  <2>2. QED
    BY <2>1
<1>3. ASSUME Ready("settle")
      PROVE  chain.status # "open" /\ ~InQuarantine
  BY <1>1, <1>2, <1>3 DEF Ready, PInv, Planned, InQuarantine
<1>4. ASSUME Ready("act")
      PROVE  chain.status # "open" /\ ~InQuarantine /\ ~Settling
  <2>1. chain.status = "closing" => db.started /\ task["act"].due = b
    BY <1>2, <1>4 DEF Ready, PInv, Planned
  <2>2. chain.status # "open"
    BY <1>4 DEF Ready, PInv, Planned
  <2>3. QED
    BY <1>1, <1>2, <1>4, <2>1, <2>2 DEF Ready, InQuarantine, Settling
<1>5. QED
  BY <1>3, <1>4

\* The resolves are cut into messages: the queue settles all of them.
LEMMA SettleConditionalsPaid ==
    ASSUME IInv, PInv, Derivatives = {}, SettleConditionals
    PROVE  PInv'
<1>1. Shape /\ task \in Tasks /\ DbRecord(db) /\ ChainRecord(chain)
  BY DEF IInv, Shape
<1>2. /\ Ready("settle") /\ UNCHANGED <<now, chain, ours, theirs, db, acts>>
      /\ task' = [task EXCEPT !["settle"].st = "done"]
  BY DEF SettleConditionals, Done
<1>3. chain.status # "open" /\ ~InQuarantine
  BY <1>2, DuePhase
<1>4. /\ task'["act"] = task["act"] /\ task'["settle"].st = "done"
      /\ task'["settle"].due = task["settle"].due /\ task'["settle"].till = task["settle"].till
  <2>1. /\ task'["act"] = task["act"] /\ task'["settle"] = [task["settle"] EXCEPT !.st = "done"]
        /\ task["settle"] \in [st : {"none", "todo", "done"}, due : Nat, till : Nat]
    BY <1>1, <1>2, PhaseTask, Names DEF Tasks
  <2>2. QED
    BY <2>1
<1>5. TheirsTold' /\ OursTold'
  BY <1>2 DEF PInv, TheirsTold, OursTold, Adds
<1>6. CASE Settling
  <2>1. Phase = "settling" /\ chain.status = "closing" /\ ~Executing /\ ~Awaiting
    BY <1>1, <1>6, PhaseTimes DEF Settling
  <2>2. db.status # "inactive" /\ db.seqno = chain.seqno
    BY <1>3, <2>1 DEF IInv, Begun, Counted
  <2>3. PICK n \in Nat : /\ Len(Messages) = n
                         /\ UNION {Messages[i] : i \in 1 .. n} = Due(db.seqno)
    BY MessagesCover
  <2>4. PICK ms : ms = Messages
    OBVIOUS
  <2>5. settles' = InQueue(Append(Steps(ms), [kind |-> "fin", set |-> {}, pre |-> Upto(ms, Len(ms))]))
    BY <2>1, <2>2, <2>4 DEF SettleConditionals
  <2>6. PICK q : q = settles'
    OBVIOUS
  <2>7. Len(ms) = n /\ UNION {ms[i] : i \in 1 .. n} = Due(chain.seqno)
    BY <2>2, <2>3, <2>4
  <2>8. /\ IsSeq(q) /\ Len(q) = n + 1
        /\ q[1].pre = {} /\ q[n + 1].kind = "fin" /\ q[n + 1].pre = Due(chain.seqno)
        /\ \A i, j \in 1 .. Len(q) : j = i + 1 => q[i].kind = "step" /\ q[j].pre = q[i].pre \cup q[i].set
    <3>1. q = InQueue(Append(Steps(ms), [kind |-> "fin", set |-> {}, pre |-> Upto(ms, Len(ms))]))
      BY <2>5, <2>6, Zenon
    <3>2. Built(q, n, UNION {ms[i] : i \in 1 .. n})
      BY <2>7, <3>1, QueueBuilt
    <3>3. QED
      BY <2>7, <3>2 DEF Built
  <2>9. chain.done = {} /\ ~chain.fin
    BY <1>2, <1>6 DEF PInv, Queue, Ready
  <2>10. Ordered(q)' /\ q # <<>>
    BY <1>2, <2>8, <2>9 DEF Ordered
  <2>11. Queue'
    BY <1>2, <1>4, <2>6, <2>10 DEF Queue, Settling, Ordered
  <2>12. Values'
    BY <1>2, <2>6, <2>8 DEF PInv, Values
  <2>13. Planned'
    BY <1>2, <1>3, <1>4, <2>1 DEF PInv, Planned, InQuarantine
  <2>14. Before' /\ Remaining' /\ Ended'
    BY <1>2, <1>3, <1>4, <1>6, <2>1 DEF PInv, Before, Remaining, Ended, InQuarantine, Settling, Executing, Awaiting
  <2>15. QED
    BY <1>5, <2>11, <2>12, <2>13, <2>14 DEF PInv
<1>7. CASE ~Settling
  <2>1. Phase \in {"executing", "awaiting", "gone"}
    BY <1>1, <1>3, <1>7, PhaseTimes, PhaseIs DEF ChainRecord
  <2>2. settles' = settles
    BY <2>1 DEF SettleConditionals
  <2>3. Values'
    BY <1>2, <2>2 DEF PInv, Values
  <2>4. Planned' /\ Before' /\ Queue'
    BY <1>2, <1>3, <1>4, <1>7 DEF PInv, Planned, Before, Queue, InQuarantine, Settling
  <2>5. Remaining' /\ Ended'
    BY <1>2, <1>4, <2>2 DEF PInv, Remaining, Ended, Executing, Awaiting, Settled
  <2>6. QED
    BY <1>5, <2>3, <2>4, <2>5 DEF PInv
<1>8. QED
  BY <1>6, <1>7

\* A transaction while conditionals are settled.
LEMMA SettlingTx ==
    ASSUME IInv, PInv, Settling, UNCHANGED <<now, db, task, acts>>, IsSeq(settles'),
           NEW c, NEW kind \in {"settle", "fin", "theirs"}, NEW byUs, NEW set, Emit(c, kind, byUs, set),
           NEW fin, NEW th, th = chain.their + (IF kind = "theirs" THEN 1 ELSE 0),
           c = [status |-> chain.status, seqno |-> chain.seqno, owner |-> chain.owner, start |-> chain.start,
                lt |-> chain.lt + 1, done |-> chain.done \cup set, fin |-> fin, their |-> th, acts |-> chain.acts],
           IF kind = "settle" THEN byUs ELSE set = {}, kind = "theirs" => fin = chain.fin,
           Queue'
    PROVE  PInv'
<1>1. Shape /\ ChainRecord(chain)
  BY DEF IInv, Shape
<1>2. /\ chain.status = "closing" /\ ~InQuarantine /\ ~Executing /\ ~Awaiting
  BY <1>1, PhaseTimes DEF Settling
<1>3. /\ c.status = chain.status /\ c.seqno = chain.seqno /\ c.start = chain.start /\ c.lt = chain.lt + 1
      /\ c.done = chain.done \cup set /\ c.acts = chain.acts
      /\ c.their = th /\ c.fin = fin
  OBVIOUS
<1>4. SameView /\ SamePlan
  BY DEF SameView, SamePlan
<1>5. chain' = c /\ OursTold' /\ TheirsTold' /\ IsSeq(theirs')
  <2>1. kind \notin {"close", "settle", "fin", "gone"} => c.fin = chain.fin /\ set = {}
    OBVIOUS
  <2>2. QED
    BY <1>2, <1>3, <1>4, <2>1, EmitTold DEF PInv
<1>6. Values'
  BY <1>1, <1>3, <1>5 DEF PInv, Values, ChainRecord
<1>7. Planned' /\ Before'
  BY <1>2, <1>3, <1>5 DEF PInv, Planned, Before, InQuarantine, Settling
<1>8. Remaining' /\ Ended'
  BY <1>2, <1>3, <1>5 DEF Remaining, Ended, Executing, Awaiting
<1>9. QED
  BY <1>5, <1>6, <1>7, <1>8 DEF PInv

\* The party settles.
LEMMA PartySettlesPaid ==
    ASSUME IInv, PInv, PartySettles
    PROVE  PInv'
<1>1. Shape /\ ChainRecord(chain) /\ Settling /\ chain.their \in Nat
  BY PhaseTimes DEF IInv, Shape, PartySettles, PInv, Values
<1>2. PICK c : c = [chain EXCEPT !.their = @ + 1, !.lt = @ + 1]
  OBVIOUS
<1>3. /\ Emit(c, "theirs", FALSE, {}) /\ UNCHANGED <<now, db, task, settles, acts>> /\ chain' = c
  BY <1>2 DEF PartySettles, Emit
<1>4. c = [status |-> chain.status, seqno |-> chain.seqno, owner |-> chain.owner, start |-> chain.start,
           lt |-> chain.lt + 1, done |-> chain.done \cup {}, fin |-> chain.fin,
           their |-> chain.their + 1, acts |-> chain.acts]
  BY <1>1, <1>2 DEF ChainRecord
<1>5. c.fin = chain.fin /\ c.done = chain.done /\ c.seqno = chain.seqno
  BY <1>4
<1>6. Queue'
  BY <1>1, <1>3, <1>5 DEF PInv, Queue, Settled, Ordered
<1>7. IsSeq(settles')
  BY <1>3 DEF PInv, Values
<1>8. chain.their + 1 = chain.their + (IF "theirs" = "theirs" THEN 1 ELSE 0)
  OBVIOUS
<1>9. "theirs" \in {"settle", "fin", "theirs"} /\ (IF "theirs" = "settle" THEN FALSE ELSE {} = {})
  OBVIOUS
<1>10. QED
  BY <1>1, <1>3, <1>4, <1>6, <1>7, <1>8, <1>9, SettlingTx

\* Outside of the phase the queue of settlements is empty, or the contracts do not care.
LEMMA QueueWhen ==
    ASSUME IInv, PInv, settles # <<>>
    PROVE  /\ Settling \/ Awaiting \/ chain.status = "gone"
           /\ Settling => task["settle"].st = "done" /\ Ordered(settles)
<1>1. Shape /\ chain.status \in {"open", "closing", "gone"}
  BY DEF IInv, Shape, ChainRecord
<1>2. chain.status # "open" /\ ~InQuarantine /\ ~Executing
  BY DEF PInv, Before, Remaining
<1>3. Settling => task["settle"].st = "done" /\ Ordered(settles)
  BY DEF PInv, Queue
<1>4. QED
  BY <1>1, <1>2, <1>3, PhaseTimes

\* A message is taken from the queue of the gone or finished channel.
LEMMA LateQueue ==
    ASSUME IInv, PInv, ~Settling, settles # <<>>, settles' = Tail(settles),
           UNCHANGED <<now, chain, ours, theirs, db, task, acts>>
    PROVE  PInv'
<1>1. IsSeq(settles) /\ Shape
  BY DEF PInv, Values, IInv, Shape
<1>2. IsSeq(settles')
  BY <1>1, TailIs
<1>3. Awaiting \/ chain.status = "gone"
  BY QueueWhen
<1>4. Values' /\ OursTold' /\ TheirsTold'
  BY <1>2 DEF PInv, Values, OursTold, TheirsTold, Adds
<1>5. chain.status # "open" /\ ~InQuarantine /\ ~Executing
  BY <1>1, <1>3, PhaseTimes DEF Awaiting, InQuarantine, Executing
<1>6. Planned' /\ Before' /\ Queue'
  BY <1>5 DEF PInv, Planned, Before, Queue, InQuarantine, Settling
<1>7. Remaining' /\ Ended'
  BY <1>5 DEF PInv, Remaining, Ended, Executing, Awaiting, Settled
<1>8. QED
  BY <1>4, <1>6, <1>7 DEF PInv

\* A message is accepted: the next proof is against what it leaves.
LEMMA SettleStepPaid ==
    ASSUME IInv, PInv, Derivatives = {}, SettleStep
    PROVE  PInv'
<1>1. Shape /\ ChainRecord(chain) /\ IsSeq(settles) /\ chain.their \in Nat
  BY DEF IInv, Shape, PInv, Values
<1>2. /\ settles # <<>> /\ settles' = Tail(settles) /\ Head(settles).kind = "step"
      /\ UNCHANGED <<now, db, task, acts>>
  BY DEF SettleStep, CanStep
<1>3. PICK q, r, n : q = settles /\ r = settles' /\ n = Len(q)
  OBVIOUS
<1>4. /\ IsSeq(r) /\ n \in Nat \ {0} /\ Len(r) = n - 1 /\ Head(q) = q[1]
      /\ \A i \in 1 .. Len(r) : r[i] = q[i + 1] /\ i + 1 \in 1 .. n
  BY <1>1, <1>2, <1>3, TailIs
<1>5. CASE ~Settling
  <2>1. db.status = "inactive"
    BY <1>1, <1>5, PhaseTimes DEF SettleStep, CanStep, StepAccepted
  <2>2. UNCHANGED <<chain, ours, theirs>>
    BY <2>1 DEF SettleStep
  <2>3. QED
    BY <1>2, <1>5, <2>2, LateQueue
<1>6. CASE Settling
  <2>1. db.status # "inactive" /\ task["settle"].st = "done" /\ Ordered(q)
    BY <1>2, <1>3, <1>6, QueueWhen DEF Settling, IInv, Begun
  <2>2. PICK c : c = [chain EXCEPT !.done = @ \cup q[1].set, !.lt = @ + 1]
    OBVIOUS
  <2>3. Emit(c, "settle", q[1].set \cap Derivatives = {}, q[1].set) /\ chain' = c
    BY <1>3, <1>4, <2>1, <2>2 DEF SettleStep, Emit
  <2>4. c = [status |-> chain.status, seqno |-> chain.seqno, owner |-> chain.owner, start |-> chain.start,
             lt |-> chain.lt + 1, done |-> chain.done \cup q[1].set, fin |-> chain.fin,
             their |-> chain.their, acts |-> chain.acts]
    BY <1>1, <2>2 DEF ChainRecord
  <2>5. c.seqno = chain.seqno /\ c.done = chain.done \cup q[1].set /\ c.fin = chain.fin
    BY <2>4
  <2>6. /\ ~chain.fin /\ q[1].pre = chain.done
        /\ \A i, j \in 1 .. n : j = i + 1 => q[i].kind = "step" /\ q[j].pre = q[i].pre \cup q[i].set
        /\ q[n].kind = "fin" /\ q[n].pre = Due(chain.seqno)
    BY <1>3, <2>1 DEF Ordered
  <2>7. n # 1 /\ n - 1 \in Nat \ {0}
    BY <1>2, <1>3, <1>4, <2>6
  <2>8. r[1].pre = c.done
    <3>1. 1 \in 1 .. Len(r) /\ 1 \in 1 .. n /\ 2 \in 1 .. n /\ 2 = 1 + 1
      BY <1>4, <2>7
    <3>2. r[1] = q[2] /\ q[2].pre = q[1].pre \cup q[1].set
      BY <1>4, <2>6, <3>1
    <3>3. QED
      BY <2>5, <2>6, <3>2
  <2>9. r[Len(r)] = q[n]
    BY <1>4, <2>7
  <2>10. ASSUME NEW i \in 1 .. Len(r), NEW j \in 1 .. Len(r), j = i + 1
         PROVE  r[i].kind = "step" /\ r[j].pre = r[i].pre \cup r[i].set
    <3>1. i + 1 \in 1 .. n /\ j + 1 \in 1 .. n /\ j + 1 = (i + 1) + 1 /\ r[i] = q[i + 1] /\ r[j] = q[j + 1]
      BY <1>4, <2>10
    <3>2. QED
      BY <2>6, <3>1
  <2>11. r # <<>>
    BY <1>4, <2>7
  <2>12. Ordered(settles)'
    BY <1>3, <2>3, <2>5, <2>6, <2>8, <2>9, <2>10 DEF Ordered
  <2>13. Queue'
    BY <1>2, <1>3, <2>1, <2>11, <2>12 DEF Queue
  <2>14. PICK b : b = (q[1].set \cap Derivatives = {})
    OBVIOUS
  <2>15. b /\ Emit(c, "settle", b, q[1].set)
    BY <2>3, <2>14
  <2>16. chain.their = chain.their + (IF "settle" = "theirs" THEN 1 ELSE 0)
    BY <1>1
  <2>17. "settle" \in {"settle", "fin", "theirs"} /\ "settle" # "theirs" /\ IsSeq(settles')
    BY <1>3, <1>4
  <2>18. QED
    BY <1>2, <1>6, <2>4, <2>13, <2>15, <2>16, <2>17, SettlingTx
<1>7. QED
  BY <1>5, <1>6

\* The settlement is finished after the last message.
LEMMA SettleFinalizePaid ==
    ASSUME IInv, PInv, SettleFinalize
    PROVE  PInv'
<1>1. Shape /\ ChainRecord(chain) /\ IsSeq(settles) /\ chain.their \in Nat
  BY DEF IInv, Shape, PInv, Values
<1>2. /\ settles # <<>> /\ settles' = Tail(settles) /\ Head(settles).kind = "fin"
      /\ UNCHANGED <<now, db, task, acts>>
  BY DEF SettleFinalize, CanFin
<1>3. PICK q, r, n : q = settles /\ r = settles' /\ n = Len(q)
  OBVIOUS
<1>4. /\ IsSeq(r) /\ n \in Nat \ {0} /\ Len(r) = n - 1 /\ Head(q) = q[1]
  BY <1>1, <1>2, <1>3, TailIs
<1>5. CASE ~Settling
  <2>1. db.status = "inactive" \/ chain.fin
    BY <1>1, <1>5, PhaseTimes DEF SettleFinalize, CanFin
  <2>2. UNCHANGED <<chain, ours, theirs>>
    BY <2>1 DEF SettleFinalize
  <2>3. QED
    BY <1>2, <1>5, <2>2, LateQueue
<1>6. CASE Settling
  <2>1. db.status # "inactive" /\ task["settle"].st = "done" /\ Ordered(q)
    BY <1>2, <1>3, <1>6, QueueWhen DEF Settling, IInv, Begun
  <2>2. /\ ~chain.fin /\ q[1].pre = chain.done
        /\ \A i, j \in 1 .. n : j = i + 1 => q[i].kind = "step"
        /\ q[n].pre = Due(chain.seqno)
    BY <1>3, <2>1 DEF Ordered
  <2>3. PICK c : c = [chain EXCEPT !.fin = TRUE, !.lt = @ + 1]
    OBVIOUS
  <2>4. Emit(c, "fin", TRUE, {}) /\ chain' = c
    BY <2>1, <2>2, <2>3 DEF SettleFinalize, Emit
  <2>5. c = [status |-> chain.status, seqno |-> chain.seqno, owner |-> chain.owner, start |-> chain.start,
             lt |-> chain.lt + 1, done |-> chain.done \cup {}, fin |-> TRUE,
             their |-> chain.their, acts |-> chain.acts]
    BY <1>1, <2>3 DEF ChainRecord
  <2>6. c.seqno = chain.seqno /\ c.done = chain.done /\ c.fin = TRUE
    BY <2>5
  <2>7. n = 1
    <3>1. SUFFICES ASSUME n # 1 PROVE FALSE
      OBVIOUS
    <3>2. 1 \in 1 .. n /\ 2 \in 1 .. n /\ 2 = 1 + 1
      BY <1>4, <3>1
    <3>3. QED
      BY <1>2, <1>3, <1>4, <2>2, <3>2
  <2>8. r = <<>>
    BY <1>4, <2>7, TailIs
  <2>9. Settled'
    BY <2>2, <2>4, <2>6, <2>7 DEF Settled
  <2>10. Queue'
    BY <1>2, <1>3, <2>1, <2>8, <2>9 DEF Queue
  <2>11. chain.their = chain.their + (IF "fin" = "theirs" THEN 1 ELSE 0)
    BY <1>1
  <2>12. "fin" \in {"settle", "fin", "theirs"} /\ "fin" # "theirs" /\ IsSeq(settles') /\ (IF "fin" = "settle" THEN TRUE ELSE {} = {})
    BY <1>3, <1>4
  <2>13. QED
    BY <1>2, <1>6, <2>4, <2>5, <2>10, <2>11, <2>12, SettlingTx
<1>7. QED
  BY <1>5, <1>6

\* The proofs of the actions are against what the contracts hold.
LEMMA SettleActionsPaid ==
    ASSUME IInv, PInv, SettleActions
    PROVE  PInv'
<1>1. Shape /\ task \in Tasks /\ Actions \in Nat
  BY SettlementAssumption DEF IInv, Shape
<1>2. /\ Ready("act") /\ UNCHANGED <<now, chain, ours, theirs, db, settles>>
      /\ task' = [task EXCEPT !["act"].st = "done"]
  BY DEF SettleActions, CanAct, Done
<1>3. chain.status # "open" /\ ~InQuarantine /\ ~Settling
  BY <1>2, DuePhase
<1>4. /\ task'["settle"] = task["settle"] /\ task'["act"].st = "done"
      /\ task'["act"].due = task["act"].due /\ task'["act"].till = task["act"].till
  <2>1. /\ task'["settle"] = task["settle"] /\ task'["act"] = [task["act"] EXCEPT !.st = "done"]
        /\ task["act"] \in [st : {"none", "todo", "done"}, due : Nat, till : Nat]
    BY <1>1, <1>2, PhaseTask, Names DEF Tasks
  <2>2. QED
    BY <2>1
<1>5. OursTold' /\ TheirsTold'
  BY <1>2 DEF PInv, OursTold, TheirsTold, Adds
<1>6. Planned' /\ Before' /\ Queue'
  BY <1>2, <1>3, <1>4 DEF PInv, Planned, Before, Queue, InQuarantine, Settling
<1>7. Ended'
  BY <1>2 DEF PInv, Ended, Awaiting, Settled
<1>8. IsSeq(acts') /\ Remaining'
  <2>1. CASE Executing
    <3>1. Phase = "executing" /\ chain.status = "closing"
      BY <1>1, <2>1, PhaseTimes DEF Executing
    <3>2. PICK q : /\ q = acts'
                   /\ q = [i \in 1 .. Actions |-> [pre |-> i - 1, done |-> db.done, their |-> db.their]]
      BY <3>1 DEF SettleActions
    <3>3. IsSeq(q) /\ Len(q) = Actions
      <4>1. \A S : \A f \in [1 .. Actions -> S] : f \in Seq(S) /\ Len(f) = Actions
        BY <1>1
      <4>2. q \in [1 .. Actions -> {q[i] : i \in 1 .. Actions}]
        BY <3>2
      <4>3. QED
        BY <4>1, <4>2, SeqIs
    <3>4. /\ Settled /\ ours = <<>> /\ theirs = <<>> /\ settles = <<>> /\ chain.acts = 0
      BY <1>2, <2>1 DEF PInv, Remaining, Ready
    <3>5. db.done = chain.done /\ db.their = chain.their
      BY <3>1, <3>4 DEF PInv, OursTold, TheirsTold
    <3>6. \A i \in 1 .. Len(q) : q[i].pre = chain.acts + i - 1 /\ q[i].done = chain.done /\ q[i].their = chain.their
      <4>1. SUFFICES ASSUME NEW i \in 1 .. Actions
                     PROVE  q[i].pre = chain.acts + i - 1 /\ q[i].done = chain.done /\ q[i].their = chain.their
        BY <3>3
      <4>2. q[i] = [pre |-> i - 1, done |-> chain.done, their |-> chain.their]
        BY <3>2, <3>5
      <4>3. i - 1 = chain.acts + i - 1
        BY <1>1, <3>4
      <4>4. QED
        BY <4>2, <4>3
    <3>7. Settled' /\ chain'.acts + Len(q) = Actions
      BY <1>1, <1>2, <3>3, <3>4 DEF Settled
    <3>8. QED
      BY <1>2, <1>4, <3>2, <3>3, <3>4, <3>6, <3>7 DEF Remaining
  <2>2. CASE ~Executing
    <3>1. Phase \in {"awaiting", "gone"}
      BY <1>1, <1>3, <2>2, PhaseTimes, PhaseIs DEF Shape, ChainRecord
    <3>2. acts' = acts
      BY <3>1 DEF SettleActions
    <3>3. QED
      BY <1>2, <2>2, <3>2 DEF PInv, Values, Remaining, Executing
  <2>3. QED
    BY <2>1, <2>2
<1>9. Values'
  BY <1>2, <1>8 DEF PInv, Values
<1>10. QED
  BY <1>5, <1>6, <1>7, <1>8, <1>9 DEF PInv

\* An action is executed.
LEMMA SettleActionStepPaid ==
    ASSUME IInv, PInv, SettleActionStep
    PROVE  PInv'
<1>1. Shape /\ ChainRecord(chain) /\ IsSeq(acts) /\ chain.their \in Nat /\ chain.acts \in Nat
  BY DEF IInv, Shape, PInv, Values
<1>2. /\ acts # <<>> /\ acts' = Tail(acts) /\ UNCHANGED <<now, db, task, settles>>
  BY DEF SettleActionStep, CanActStep
<1>3. PICK q, r, n : q = acts /\ r = acts' /\ n = Len(q)
  OBVIOUS
<1>4. /\ IsSeq(r) /\ n \in Nat \ {0} /\ Len(r) = n - 1 /\ Head(q) = q[1]
      /\ \A i \in 1 .. Len(r) : r[i] = q[i + 1] /\ i + 1 \in 1 .. n
  BY <1>1, <1>2, <1>3, TailIs
<1>5. CASE db.status = "inactive"
  <2>1. UNCHANGED <<chain, ours, theirs>> /\ chain.status = "gone"
    BY <1>5 DEF SettleActionStep, IInv, Begun
  <2>2. Values' /\ TheirsTold'
    BY <1>2, <1>3, <1>4, <2>1 DEF PInv, Values, TheirsTold, Adds
  <2>3. QED
    BY <2>1, <2>2, GonePaid
<1>6. CASE db.status # "inactive"
  <2>1. Executing /\ chain.status = "closing"
    BY <1>1, <1>6, PhaseTimes DEF SettleActionStep, CanActStep, Executing
  <2>2. PICK c : c = [chain EXCEPT !.acts = @ + 1, !.lt = @ + 1]
    OBVIOUS
  <2>3. Emit(c, "act", TRUE, {})
    BY <1>6, <2>2 DEF SettleActionStep
  <2>4. c = [status |-> chain.status, seqno |-> chain.seqno, owner |-> chain.owner, start |-> chain.start,
             lt |-> chain.lt + 1, done |-> chain.done, fin |-> chain.fin,
             their |-> chain.their, acts |-> chain.acts + 1]
    BY <1>1, <2>2 DEF ChainRecord
  <2>5. /\ c.status = chain.status /\ c.seqno = chain.seqno /\ c.start = chain.start /\ c.lt = chain.lt + 1
        /\ c.done = chain.done /\ c.fin = chain.fin /\ c.their = chain.their /\ c.acts = chain.acts + 1
    BY <2>4
  <2>6. SameView
    BY <1>2 DEF SameView
  <2>7. chain' = c /\ OursTold' /\ TheirsTold' /\ IsSeq(theirs') /\ theirs' = theirs /\ ours' = ours
    <3>1. c.their = chain.their + (IF "act" = "theirs" THEN 1 ELSE 0) /\ c.done = chain.done \cup {}
      BY <1>1, <2>5
    <3>2. "act" \notin {"close", "settle", "fin", "gone"} /\ "act" \in {"settle", "fin", "act"} /\ "act" \in {"theirs", "act"}
          /\ (IF "act" = "settle" THEN TRUE ELSE {} = {}) /\ chain.status # "gone"
      BY <2>1
    <3>3. QED
      BY <2>3, <2>5, <2>6, <3>1, <3>2, EmitTold DEF PInv
  <2>8. Values'
    BY <1>1, <1>2, <1>3, <1>4, <2>5, <2>7, SMTT(30) DEF PInv, Values, ChainRecord
  <2>9. ~InQuarantine /\ ~Settling /\ ~Awaiting
    BY <1>1, <2>1, PhaseTimes
  <2>10. Planned' /\ Before' /\ Queue' /\ Ended'
    BY <1>2, <2>1, <2>5, <2>7, <2>9 DEF PInv, Planned, Before, Queue, Ended, InQuarantine, Settling, Awaiting
  <2>11. /\ Settled /\ ours = <<>> /\ theirs = <<>> /\ settles = <<>> /\ task["act"].st = "done"
         /\ chain.acts + n = Actions
         /\ \A i \in 1 .. n : q[i].pre = chain.acts + i - 1 /\ q[i].done = chain.done /\ q[i].their = chain.their
    BY <1>2, <1>3, <2>1 DEF PInv, Remaining
  <2>12. (chain.acts + 1) + Len(r) = Actions
    BY <1>1, <1>4, <2>11
  <2>13. ASSUME NEW i \in 1 .. Len(r)
         PROVE  r[i].pre = c.acts + i - 1 /\ r[i].done = c.done /\ r[i].their = c.their
    <3>1. r[i] = q[i + 1] /\ i + 1 \in 1 .. n /\ i \in Nat
      BY <1>4
    <3>2. r[i].pre = chain.acts + (i + 1) - 1 /\ r[i].done = chain.done /\ r[i].their = chain.their
      BY <2>11, <3>1
    <3>3. chain.acts + (i + 1) - 1 = (chain.acts + 1) + i - 1
      BY <1>1, <3>1
    <3>4. QED
      BY <2>5, <3>2, <3>3
  <2>14. Remaining'
    BY <1>2, <1>3, <2>5, <2>7, <2>11, <2>12, <2>13 DEF Remaining, Settled
  <2>15. QED
    BY <2>7, <2>8, <2>10, <2>14 DEF PInv
<1>7. QED
  BY <1>5, <1>6

\* The close is finished, by us or by the party.
LEMMA FinishPaid ==
    ASSUME IInv, PInv, FinishClose \/ PartyFinishes
    PROVE  PInv'
<1>1. Shape /\ ChainRecord(chain) /\ task \in Tasks /\ chain.their \in Nat
  BY DEF IInv, Shape, PInv, Values
<1>2. UNCHANGED <<now, db, settles, acts>>
  BY DEF FinishClose, PartyFinishes
<1>3. SameView
  BY <1>2 DEF SameView
<1>4. CASE UNCHANGED <<chain, ours, theirs>>
  <2>1. SamePlan
    <3>1. CASE FinishClose
      <4>1. task' = [task EXCEPT !["finalize"].st = "done"]
        BY <3>1 DEF FinishClose, Done
      <4>2. QED
        BY <1>1, <4>1, OtherTasks DEF SamePlan
    <3>2. CASE PartyFinishes
      BY <3>2 DEF PartyFinishes, SamePlan
    <3>3. QED
      BY <3>1, <3>2
  <2>2. QED
    BY <1>2, <1>3, <1>4, <2>1, QuietPaid
<1>5. CASE ~UNCHANGED <<chain, ours, theirs>>
  <2>1. PICK c : c = [chain EXCEPT !.status = "gone", !.lt = @ + 1]
    OBVIOUS
  <2>2. Phase = "awaiting" /\ \E b \in BOOLEAN : Emit(c, "gone", b, {})
    BY <1>5, <2>1 DEF FinishClose, PartyFinishes, GoneTx
  <2>3. PICK b \in BOOLEAN : Emit(c, "gone", b, {})
    BY <2>2
  <2>4. Awaiting /\ chain.status = "closing"
    BY <1>1, <2>2, PhaseTimes DEF Awaiting
  <2>5. c = [status |-> "gone", seqno |-> chain.seqno, owner |-> chain.owner, start |-> chain.start,
             lt |-> chain.lt + 1, done |-> chain.done, fin |-> chain.fin,
             their |-> chain.their, acts |-> chain.acts]
    BY <1>1, <2>1 DEF ChainRecord
  <2>6. /\ c.status = "gone" /\ c.seqno = chain.seqno /\ c.lt = chain.lt + 1 /\ c.done = chain.done
        /\ c.fin = chain.fin /\ c.their = chain.their /\ c.acts = chain.acts
    BY <2>5
  <2>7. chain' = c /\ OursTold' /\ TheirsTold' /\ IsSeq(theirs')
    <3>1. c.their = chain.their + (IF "gone" = "theirs" THEN 1 ELSE 0) /\ c.done = chain.done \cup {}
      BY <1>1, <2>6
    <3>2. "gone" \in {"close", "settle", "fin", "gone"} /\ (IF "gone" = "settle" THEN b ELSE {} = {}) /\ chain.status # "gone"
      BY <2>4
    <3>3. QED
      BY <1>3, <2>3, <2>6, <3>1, <3>2, EmitTold DEF PInv
  <2>8. Values'
    BY <1>1, <1>2, <2>6, <2>7 DEF PInv, Values, ChainRecord
  <2>9. Planned' /\ Before' /\ Queue' /\ Remaining'
    BY <2>6, <2>7 DEF Planned, Before, Queue, Remaining, InQuarantine, Settling, Executing
  <2>10. Ended'
    BY <2>4, <2>6, <2>7 DEF PInv, Ended, Settled
  <2>11. QED
    BY <2>7, <2>8, <2>9, <2>10 DEF PInv
<1>6. QED
  BY <1>4, <1>5

\* An event of the contract of the party is processed: how often it has settled.
LEMMA TheirEventPaid ==
    ASSUME IInv, PInv, NEW again \in BOOLEAN, TheirEvent(again)
    PROVE  PInv'
<1>1. /\ IsSeq(theirs) /\ db.partyLt \in Nat /\ db.their \in Nat /\ chain.their \in Nat /\ chain.lt \in Nat
      /\ db.partyLt <= chain.lt /\ DbRecord(db)
  BY DEF PInv, Values, IInv, Shape, ChainRecord
<1>2. /\ theirs # <<>> /\ (theirs' = theirs \/ theirs' = Tail(theirs))
      /\ UNCHANGED <<now, chain, ours, task, settles, acts>>
  BY DEF TheirEvent
<1>3. PICK q, r, n, e : q = theirs /\ r = theirs' /\ n = Len(q) /\ e = q[1]
  OBVIOUS
<1>4. /\ n \in Nat \ {0} /\ Head(q) = e /\ Len(Tail(q)) = n - 1 /\ IsSeq(r)
      /\ \A i \in 1 .. Len(Tail(q)) : Tail(q)[i] = q[i + 1] /\ i + 1 \in 1 .. n
  BY <1>1, <1>2, <1>3, TailIs
<1>5. /\ q[n].their = chain.their
      /\ e.lt <= db.partyLt => db.their = e.their
      /\ ~(e.lt <= db.partyLt) => e.their = db.their + Adds(e)
      /\ \A i \in 1 .. n : q[i].lt \in Nat /\ q[i].lt <= chain.lt /\ q[i].their \in Nat
      /\ \A i, j \in 1 .. n : j = i + 1 => q[j].their = q[i].their + Adds(q[j])
      /\ \A i, j \in 1 .. n : i < j => q[i].lt < q[j].lt /\ db.partyLt < q[j].lt
  BY <1>2, <1>3 DEF PInv, TheirsTold
<1>6. 1 \in 1 .. n /\ e.lt \in Nat /\ e.lt <= chain.lt /\ e.their \in Nat
  BY <1>3, <1>4, <1>5
<1>7. /\ db'.their = e.their /\ db'.partyLt \in Nat /\ db'.partyLt <= chain.lt /\ e.lt <= db'.partyLt
      /\ db'.partyLt = db.partyLt \/ db'.partyLt = e.lt
      /\ db'.lt = db.lt /\ db'.done = db.done /\ db'.fin = db.fin /\ db'.started = db.started
  <2>1. CASE e.lt <= db.partyLt
    BY <1>1, <1>3, <1>4, <1>5, <2>1 DEF TheirEvent
  <2>2. CASE ~(e.lt <= db.partyLt)
    <3>1. PICK st, th : st = (IF db.status = "active" /\ ~e.gone THEN "closing" ELSE db.status)
                        /\ th = (IF e.kind = "theirs" /\ db.their + 1 = e.their THEN e.their ELSE db.their)
      OBVIOUS
    <3>2. th = e.their
      BY <1>1, <1>5, <2>2, <3>1 DEF Adds
    <3>3. PICK d, f : d = db /\ f = db' /\ DbRecord(d)
                      /\ f = [d EXCEPT !.accepting = FALSE, !.partyLt = e.lt, !.status = st, !.their = th]
      BY <1>1, <1>3, <1>4, <2>2, <3>1 DEF TheirEvent
    <3>4. f = [status |-> st, accepting |-> FALSE, started |-> d.started, seqno |-> d.seqno, fin |-> d.fin,
               lt |-> d.lt, partyLt |-> e.lt, done |-> d.done, their |-> th]
      BY <3>3 DEF DbRecord
    <3>5. f.their = th /\ f.partyLt = e.lt /\ f.lt = d.lt /\ f.done = d.done /\ f.fin = d.fin /\ f.started = d.started
      BY <3>4
    <3>6. e.lt <= e.lt
      BY <1>6
    <3>7. QED
      BY <1>6, <3>2, <3>3, <3>5, <3>6
  <2>3. QED
    BY <2>1, <2>2
<1>8. \A i, j \in 1 .. n : i < j => q[i].lt < q[j].lt /\ db'.partyLt < q[j].lt
  <2>1. SUFFICES ASSUME NEW i \in 1 .. n, NEW j \in 1 .. n, i < j
                 PROVE  q[i].lt < q[j].lt /\ e.lt < q[j].lt /\ db.partyLt < q[j].lt
    BY <1>7
  <2>2. 1 < j
    BY <2>1
  <2>3. QED
    BY <1>3, <1>5, <1>6, <2>1, <2>2
<1>9. TheirsTold'
  <2>1. CASE r = q
    BY <1>2, <1>3, <1>5, <1>7, <1>8, <2>1 DEF TheirsTold, Adds
  <2>2. CASE r = Tail(q)
    <3>1. /\ Len(r) = n - 1 /\ \A i \in 1 .. Len(r) : r[i] = q[i + 1] /\ i + 1 \in 1 .. n
      BY <1>4, <2>2
    <3>2. \A i \in 1 .. Len(r) : r[i].lt \in Nat /\ r[i].lt <= chain.lt /\ r[i].their \in Nat
      BY <1>5, <3>1
    <3>3. \A i, j \in 1 .. Len(r) : j = i + 1 => r[j].their = r[i].their + Adds(r[j])
      <4>1. SUFFICES ASSUME NEW i \in 1 .. Len(r), NEW j \in 1 .. Len(r), j = i + 1
                     PROVE  r[j].their = r[i].their + Adds(r[j])
        OBVIOUS
      <4>2. i + 1 \in 1 .. n /\ j + 1 \in 1 .. n /\ j + 1 = (i + 1) + 1 /\ r[i] = q[i + 1] /\ r[j] = q[j + 1]
        BY <3>1, <4>1
      <4>3. q[j + 1].their = q[i + 1].their + Adds(q[j + 1])
        BY <1>5, <4>2
      <4>4. QED
        BY <4>2, <4>3
    <3>4. \A i, j \in 1 .. Len(r) : i < j => r[i].lt < r[j].lt /\ db'.partyLt < r[j].lt
      <4>1. SUFFICES ASSUME NEW i \in 1 .. Len(r), NEW j \in 1 .. Len(r), i < j
                     PROVE  r[i].lt < r[j].lt /\ db'.partyLt < r[j].lt
        OBVIOUS
      <4>2. i + 1 \in 1 .. n /\ j + 1 \in 1 .. n /\ i + 1 < j + 1 /\ r[i] = q[i + 1] /\ r[j] = q[j + 1]
        BY <3>1, <4>1
      <4>3. QED
        BY <1>8, <4>2
    <3>5. CASE n = 1
      <4>1. r = <<>> /\ e = q[n]
        BY <1>3, <1>4, <3>1, <3>5, TailIs
      <4>2. Len(r) = 0 /\ db'.their = chain.their
        BY <1>5, <1>7, <3>1, <3>5, <4>1
      <4>3. QED
        BY <1>2, <1>3, <4>1, <4>2 DEF TheirsTold
    <3>6. CASE n # 1
      <4>1. 1 \in 1 .. Len(r) /\ Len(r) \in 1 .. Len(r) /\ 2 \in 1 .. n /\ Len(r) + 1 = n /\ 2 = 1 + 1 /\ 1 < 2
        BY <1>4, <3>1, <3>6
      <4>2. r[1] = q[2] /\ r[Len(r)] = q[n] /\ r # <<>>
        BY <3>1, <4>1
      <4>3. q[2].their = e.their + Adds(q[2]) /\ db'.partyLt < q[2].lt /\ q[2].lt \in Nat
        BY <1>3, <1>5, <1>6, <1>8, <4>1
      <4>4. ~(r[1].lt <= db'.partyLt) /\ r[1].their = db'.their + Adds(r[1])
        BY <1>7, <4>2, <4>3
      <4>5. QED
        BY <1>2, <1>3, <1>5, <3>2, <3>3, <3>4, <4>2, <4>4 DEF TheirsTold, Adds
    <3>7. QED
      BY <3>5, <3>6
  <2>3. QED
    BY <1>2, <1>3, <2>1, <2>2
<1>10. Values'
  BY <1>2, <1>3, <1>4, <1>6, <1>7 DEF PInv, Values
<1>11. OursTold' /\ Planned' /\ Before'
  BY <1>2, <1>7 DEF PInv, OursTold, Planned, Before, InQuarantine, Settling
<1>12. ~Executing
  BY <1>2 DEF PInv, Remaining
<1>13. Queue' /\ Remaining' /\ Ended'
  BY <1>2, <1>12 DEF PInv, Queue, Remaining, Ended, Ordered, Settled, Settling, Executing, Awaiting
<1>14. QED
  BY <1>9, <1>10, <1>11, <1>13 DEF PInv

\* The first event of a close, seen in the quarantine, schedules the tasks of the phases.
LEMMA ScheduledPlans ==
    ASSUME task \in Tasks, now \in Nat, NEW e, e.start \in Nat, NEW known
    PROVE  LET r == Scheduled(e, known)
           IN  /\ db.started \/ e.gone => r = task
               /\ /\ ~db.started /\ ~e.gone /\ PhaseAt(e.start, now) = "closure"
                  /\ task["settle"].st = "none" /\ task["act"].st = "none"
                  => /\ r["settle"] = [st |-> "todo", due |-> SettleAt(e.start), till |-> ActAt(e.start)]
                     /\ r["act"] = [st |-> "todo", due |-> ActAt(e.start), till |-> FinalizeAt(e.start)]
<1>1. PICK x, y, z : x = SettleAt(e.start) /\ y = ActAt(e.start) /\ z = FinalizeAt(e.start)
  OBVIOUS
<1>2. x \in Nat /\ y \in Nat /\ z \in Nat /\ Forever \in Nat
  BY <1>1, Names DEF SettleAt, ActAt, FinalizeAt
<1>3. CASE db.started \/ e.gone
  <2>1. Scheduled(e, known) = task
    BY <1>3, Zenon DEF Scheduled
  <2>2. QED
    BY <1>3, <2>1, Zenon
<1>4. CASE ~(db.started \/ e.gone)
  <2>1. SUFFICES ASSUME PhaseAt(e.start, now) = "closure", task["settle"].st = "none", task["act"].st = "none"
                 PROVE  /\ Scheduled(e, known)["settle"] = [st |-> "todo", due |-> x, till |-> y]
                        /\ Scheduled(e, known)["act"] = [st |-> "todo", due |-> y, till |-> z]
    BY <1>1, <1>4, Zenon
  <2>2. PICK c : c = IF PhaseAt(e.start, now) = "closure" /\ ~e.owner /\ Outdated(e.seqno, known)
                     THEN Created(task, "challenge", now, x) ELSE task
    OBVIOUS
  <2>3. PICK s : s = Created(c, "settle", x, y)
    OBVIOUS
  <2>4. PICK a : a = Created(s, "act", y, z)
    OBVIOUS
  <2>5. Scheduled(e, known) = Created(a, "finalize", z, Forever)
    BY <1>1, <1>4, <2>1, <2>2, <2>3, <2>4 DEF Scheduled
  <2>6. c \in Tasks /\ c["settle"] = task["settle"] /\ c["act"] = task["act"]
    <3>1. /\ Created(task, "challenge", now, x) \in Tasks
          /\ Created(task, "challenge", now, x)["settle"] = task["settle"]
          /\ Created(task, "challenge", now, x)["act"] = task["act"]
      BY <1>2 DEF Created, Tasks, Kinds
    <3>2. QED
      BY <2>2, <3>1, Zenon
  <2>7. s \in Tasks /\ s["settle"] = [st |-> "todo", due |-> x, till |-> y] /\ s["act"] = task["act"]
    <3>1. s = [c EXCEPT !["settle"] = [st |-> "todo", due |-> x, till |-> y]]
      BY <2>1, <2>3, <2>6 DEF Created
    <3>2. QED
      BY <1>2, <2>6, <3>1 DEF Tasks, Kinds
  <2>8. /\ a \in Tasks /\ a["settle"] = [st |-> "todo", due |-> x, till |-> y]
        /\ a["act"] = [st |-> "todo", due |-> y, till |-> z]
    <3>1. a = [s EXCEPT !["act"] = [st |-> "todo", due |-> y, till |-> z]]
      BY <2>1, <2>4, <2>7 DEF Created
    <3>2. QED
      BY <1>2, <2>7, <3>1 DEF Tasks, Kinds
  <2>9. /\ Created(a, "finalize", z, Forever)["settle"] = a["settle"]
        /\ Created(a, "finalize", z, Forever)["act"] = a["act"]
    BY <1>2, <2>8 DEF Created, Tasks, Kinds
  <2>10. QED
    BY <2>5, <2>8, <2>9, Zenon
<1>5. QED
  BY <1>3, <1>4

\* The first event has been processed, now or before: what the database knows is what it says.
LEMMA OursProcessed ==
    ASSUME IInv, OursTold, chain.status # "gone", ours # <<>>, ours' = ours \/ ours' = Tail(ours), chain' = chain,
           db'.done = ours[1].done, db'.fin = ours[1].fin, ours[1].lt <= db'.lt,
           db'.lt = db.lt \/ db'.lt = ours[1].lt
    PROVE  OursTold'
<1>1. IsSeq(ours) /\ db.lt \in Nat
  BY DEF IInv, Shape, DbRecord
<1>2. PICK q, r, n, e : q = ours /\ r = ours' /\ n = Len(q) /\ e = q[1]
  OBVIOUS
<1>3. /\ n \in Nat \ {0} /\ Len(Tail(q)) = n - 1 /\ IsSeq(r)
      /\ \A i \in 1 .. Len(Tail(q)) : Tail(q)[i] = q[i + 1] /\ i + 1 \in 1 .. n
  BY <1>1, <1>2, TailIs
<1>4. /\ q[n].done = chain.done /\ q[n].fin = chain.fin
      /\ \A i \in 1 .. n : IF q[i].kind = "settle" THEN q[i].ext ELSE q[i].set = {}
      /\ \A i, j \in 1 .. n : j = i + 1 => q[j].done = q[i].done \cup q[j].set /\ ~(q[j].lt <= db.lt)
  BY <1>2 DEF OursTold
<1>5. \A i, j \in 1 .. n : i < j => q[i].lt < q[j].lt
  BY <1>2 DEF IInv, Reports
<1>6. \A i \in 1 .. n : q[i].lt \in Nat
  BY <1>2 DEF IInv, Reports, Reported
<1>7. \A i, j \in 1 .. n : j = i + 1 => ~(q[j].lt <= db'.lt)
  <2>1. SUFFICES ASSUME NEW i \in 1 .. n, NEW j \in 1 .. n, j = i + 1 PROVE ~(q[j].lt <= db.lt) /\ ~(q[j].lt <= e.lt)
    BY <1>2
  <2>2. 1 \in 1 .. n /\ 1 < j
    BY <1>3, <2>1
  <2>3. e.lt < q[j].lt /\ e.lt \in Nat /\ q[j].lt \in Nat
    BY <1>2, <1>5, <1>6, <2>2
  <2>4. QED
    BY <1>4, <2>1, <2>3
<1>8. CASE r = q
  <2>1. \A i, j \in 1 .. n : j = i + 1 => q[j].done = q[i].done \cup q[j].set
    BY <1>4
  <2>2. QED
    BY <1>2, <1>4, <1>7, <1>8, <2>1 DEF OursTold
<1>9. CASE r = Tail(q)
  <2>1. Len(r) = n - 1 /\ \A i \in 1 .. Len(r) : r[i] = q[i + 1] /\ i + 1 \in 1 .. n
    BY <1>3, <1>9
  <2>2. \A i \in 1 .. Len(r) : IF r[i].kind = "settle" THEN r[i].ext ELSE r[i].set = {}
    BY <1>4, <2>1
  <2>3. \A i, j \in 1 .. Len(r) : j = i + 1 => r[j].done = r[i].done \cup r[j].set /\ ~(r[j].lt <= db'.lt)
    <3>1. SUFFICES ASSUME NEW i \in 1 .. Len(r), NEW j \in 1 .. Len(r), j = i + 1
                   PROVE  r[j].done = r[i].done \cup r[j].set /\ ~(r[j].lt <= db'.lt)
      OBVIOUS
    <3>2. i + 1 \in 1 .. n /\ j + 1 \in 1 .. n /\ j + 1 = (i + 1) + 1 /\ r[i] = q[i + 1] /\ r[j] = q[j + 1]
      BY <2>1, <3>1
    <3>3. q[j + 1].done = q[i + 1].done \cup q[j + 1].set /\ ~(q[j + 1].lt <= db'.lt)
      BY <1>4, <1>7, <3>2
    <3>4. QED
      BY <3>2, <3>3
  <2>4. CASE n = 1
    <3>1. r = <<>> /\ e = q[n] /\ Len(r) = 0
      BY <1>2, <1>3, <2>1, <2>4, TailIs
    <3>2. db'.done = chain.done /\ db'.fin = chain.fin
      BY <1>2, <1>4, <3>1
    <3>3. QED
      BY <1>2, <3>1, <3>2 DEF OursTold
  <2>5. CASE n # 1
    <3>1. 1 \in 1 .. Len(r) /\ Len(r) \in 1 .. Len(r) /\ 1 \in 1 .. n /\ 2 \in 1 .. n /\ Len(r) + 1 = n /\ 2 = 1 + 1
      BY <1>3, <2>1, <2>5
    <3>2. r[1] = q[2] /\ r[Len(r)] = q[n] /\ r # <<>>
      BY <2>1, <3>1
    <3>3. q[2].done = e.done \cup q[2].set /\ ~(q[2].lt <= db'.lt)
      BY <1>2, <1>4, <1>7, <3>1
    <3>4. ~(r[1].lt <= db'.lt) /\ r[1].done = db'.done \cup r[1].set
      BY <1>2, <3>2, <3>3
    <3>5. r[Len(r)].done = chain'.done /\ r[Len(r)].fin = chain'.fin
      BY <1>4, <3>2
    <3>6. QED
      BY <1>2, <2>2, <2>3, <3>2, <3>4, <3>5 DEF OursTold
  <2>6. QED
    BY <2>4, <2>5
<1>10. QED
  BY <1>2, <1>8, <1>9

\* An event of our contract: what is settled, and the tasks of the phases.
LEMMA OurEventPaid ==
    ASSUME IInv, PInv, NEW again \in BOOLEAN, OurEvent(again)
    PROVE  PInv'
<1>1. Shape /\ DbRecord(db) /\ ChainRecord(chain) /\ now \in Nat /\ task \in Tasks
  BY DEF IInv, Shape
<1>2. /\ ours # <<>> /\ (ours' = ours \/ ours' = Tail(ours)) /\ UNCHANGED <<now, chain, theirs, settles, acts>>
  BY DEF OurEvent
<1>3. PICK e : e = Head(ours) /\ e = ours[1] /\ Reported(e, chain) /\ chain.status # "open"
  BY <1>2, EventOf
<1>4. /\ db'.partyLt = db.partyLt /\ db'.their = db.their
      /\ \/ UNCHANGED <<db, task>> /\ ((e.gone /\ db.status = "inactive") \/ e.lt <= db.lt)
         \/ /\ ~((e.gone /\ db.status = "inactive") \/ e.lt <= db.lt)
            /\ task' = Scheduled(e, Recover(e))
            /\ db'.lt = e.lt /\ db'.fin = e.fin /\ db'.started = (db.started \/ ~e.gone)
            /\ db'.done = IF e.kind = "settle" /\ e.ext /\ db.done \cup e.set = e.done THEN e.done ELSE db.done
  <2>1. CASE (e.gone /\ db.status = "inactive") \/ e.lt <= db.lt
    BY <1>3, <2>1 DEF OurEvent
  <2>2. CASE ~((e.gone /\ db.status = "inactive") \/ e.lt <= db.lt)
    <3>1. PICK settled : settled = IF e.kind = "settle" /\ e.ext /\ db.done \cup e.set = e.done THEN e.done ELSE db.done
      OBVIOUS
    <3>2. PICK known : known = Recover(e)
      OBVIOUS
    <3>3. PICK d, f, st, b : /\ d = db /\ f = db' /\ DbRecord(d) /\ b = (d.started \/ ~e.gone)
                             /\ st = IF e.gone THEN "inactive" ELSE IF d.status = "active" THEN "closing" ELSE d.status
      BY <1>1
    <3>4. /\ task' = Scheduled(e, Recover(e))
          /\ db' = [db EXCEPT !.accepting = FALSE, !.started = @ \/ ~e.gone, !.seqno = Recover(e),
                              !.status = IF e.gone THEN "inactive" ELSE IF @ = "active" THEN "closing" ELSE @,
                              !.fin = e.fin, !.lt = e.lt, !.done = settled]
      BY <1>3, <2>2, <3>1 DEF OurEvent
    <3>5. f = [d EXCEPT !.accepting = FALSE, !.started = b, !.seqno = known, !.status = st, !.fin = e.fin,
                        !.lt = e.lt, !.done = settled]
      BY <3>2, <3>3, <3>4
    <3>6. f = [status |-> st, accepting |-> FALSE, started |-> b, seqno |-> known, fin |-> e.fin,
               lt |-> e.lt, partyLt |-> d.partyLt, done |-> settled, their |-> d.their]
      BY <3>3, <3>5 DEF DbRecord
    <3>7. f.started = b /\ f.fin = e.fin /\ f.lt = e.lt /\ f.done = settled /\ f.partyLt = d.partyLt /\ f.their = d.their
      BY <3>6
    <3>8. QED
      BY <2>2, <3>1, <3>3, <3>4, <3>7
  <2>3. QED
    BY <2>1, <2>2
<1>5. Values' /\ TheirsTold'
  BY <1>2, <1>4 DEF PInv, Values, TheirsTold, Adds
<1>6. CASE chain.status = "gone"
  BY <1>2, <1>5, <1>6, GonePaid
<1>7. CASE chain.status # "gone"
  <2>1. /\ chain.status = "closing" /\ ~e.gone /\ e.lt \in Nat /\ e.start = chain.start /\ e.start \in Nat
    BY <1>1, <1>3, <1>7 DEF ChainRecord, Reported
  <2>2. OursTold'
    <3>1. /\ e.lt <= db.lt => db.done = e.done /\ db.fin = e.fin
          /\ ~(e.lt <= db.lt) => e.done = db.done \cup e.set
          /\ IF e.kind = "settle" THEN e.ext ELSE e.set = {}
      <4>1. 1 \in 1 .. Len(ours)
        BY <1>2, EventOf
      <4>2. QED
        BY <1>2, <1>3, <1>7, <4>1 DEF PInv, OursTold
    <3>2. CASE e.lt <= db.lt
      BY <1>2, <1>3, <1>4, <1>7, <3>1, <3>2, OursProcessed DEF PInv
    <3>3. CASE ~(e.lt <= db.lt)
      <4>1. db'.lt = e.lt /\ db'.fin = e.fin /\ e.lt <= e.lt
        BY <1>4, <2>1, <3>3
      <4>2. db'.done = e.done
        BY <1>4, <2>1, <3>1, <3>3
      <4>3. QED
        BY <1>2, <1>3, <1>7, <4>1, <4>2, OursProcessed DEF PInv
    <3>4. QED
      BY <3>2, <3>3
  <2>3. ~Executing
    BY <1>2 DEF PInv, Remaining
  <2>4. CASE db.started
    <3>1. task' = task /\ db'.started
      <4>1. Scheduled(e, Recover(e)) = task
        BY <2>4 DEF Scheduled
      <4>2. QED
        BY <1>4, <2>4, <4>1
    <3>2. Planned' /\ Before' /\ Queue'
      BY <1>2, <2>4, <3>1 DEF PInv, Planned, Before, Queue, Ordered, Settled, InQuarantine, Settling
    <3>3. Remaining' /\ Ended'
      BY <1>2, <2>3 DEF PInv, Remaining, Ended, Settled, Executing, Awaiting
    <3>4. QED
      BY <1>5, <2>2, <3>2, <3>3 DEF PInv
  <2>5. CASE ~db.started
    <3>1. InQuarantine /\ task["settle"].st = "none" /\ task["act"].st = "none"
      BY <2>1, <2>5 DEF PInv, Planned
    <3>2. db.lt = 0 /\ 0 < e.lt
      BY <1>3, <1>7, <2>5 DEF IInv, Begun, Reported
    <3>3. task' = Scheduled(e, Recover(e)) /\ db'.started
      <4>1. ~(e.lt <= db.lt) /\ ~e.gone
        BY <2>1, <3>2
      <4>2. task' = Scheduled(e, Recover(e)) /\ db'.started = (db.started \/ ~e.gone)
        BY <1>4, <4>1, Zenon
      <4>3. QED
        BY <2>1, <4>2, Zenon
    <3>4. PhaseAt(e.start, now) = "closure"
      BY <2>1, <3>1 DEF InQuarantine, PhaseAt
    <3>5. /\ task'["settle"] = [st |-> "todo", due |-> SettleAt(e.start), till |-> ActAt(e.start)]
          /\ task'["act"] = [st |-> "todo", due |-> ActAt(e.start), till |-> FinalizeAt(e.start)]
      <4>1. PICK known : known = Recover(e)
        OBVIOUS
      <4>2. task' = Scheduled(e, known)
        BY <3>3, <4>1
      <4>3. QED
        BY <1>1, <2>1, <2>5, <3>1, <3>4, <4>2, ScheduledPlans
    <3>6. /\ task'["settle"].st = "todo" /\ task'["settle"].due = SettleAt(chain.start)
          /\ task'["settle"].till = ActAt(chain.start)
          /\ task'["act"].st = "todo" /\ task'["act"].due = ActAt(chain.start)
          /\ task'["act"].till = FinalizeAt(chain.start)
      BY <2>1, <3>5
    <3>7. ~Settling /\ ~Awaiting
      BY <1>1, <3>1, PhaseTimes
    <3>8. Planned' /\ Before'
      BY <1>2, <2>1, <3>1, <3>3, <3>6 DEF PInv, Planned, Before, InQuarantine
    <3>9. Queue' /\ Remaining' /\ Ended'
      BY <1>2, <1>7, <2>3, <3>7 DEF Queue, Remaining, Ended, Settling, Executing, Awaiting
    <3>10. QED
      BY <1>5, <2>2, <3>8, <3>9 DEF PInv
  <2>6. QED
    BY <2>4, <2>5
<1>8. QED
  BY <1>6, <1>7


\* The clock in a phase of the close: in the next moment the phase is the same, or it is
\* the next one and the node had nothing more to do.
LEMMA TickPhases ==
    ASSUME IInv, Tick, chain.status = "closing"
    PROVE  /\ InQuarantine => InQuarantine' \/ (Settling' /\ ~Pressing)
           /\ Settling => Settling' \/ (Executing' /\ ~Pressing)
           /\ Executing => Executing' \/ (Awaiting' /\ ~Pressing)
           /\ Awaiting => Awaiting'
           /\ Settling' => ~InQuarantine' /\ ~Executing' /\ ~Awaiting'
           /\ Executing' => ~InQuarantine' /\ ~Awaiting'
           /\ Awaiting' => ~InQuarantine'
<1>1. now \in Nat /\ chain.start \in Nat /\ now' = now + 1 /\ chain' = chain
  BY DEF IInv, Shape, ChainRecord, Tick
<1>2. PICK a, b, c \in Nat : /\ a = SettleAt(chain.start) /\ b = ActAt(chain.start) /\ c = FinalizeAt(chain.start)
                             /\ a < b /\ b < c
  BY <1>1 DEF SettleAt, ActAt, FinalizeAt
<1>3. /\ InQuarantine <=> now < a
      /\ Settling <=> a <= now /\ now < b
      /\ Executing <=> b <= now /\ now < c
      /\ Awaiting <=> c <= now
  BY <1>2 DEF InQuarantine, Settling, Executing, Awaiting
<1>4. /\ InQuarantine' <=> now + 1 < a
      /\ Settling' <=> a <= now + 1 /\ now + 1 < b
      /\ Executing' <=> b <= now + 1 /\ now + 1 < c
      /\ Awaiting' <=> c <= now + 1
  BY <1>1, <1>2 DEF InQuarantine, Settling, Executing, Awaiting
<1>5. PhaseAt(chain.start, now + 1) # PhaseAt(chain.start, now) => ~Pressing
  BY DEF Tick, Phase
<1>6. InQuarantine /\ ~InQuarantine' => Settling' /\ ~Pressing
  <2>1. SUFFICES ASSUME now < a, ~(now + 1 < a) PROVE Settling' /\ ~Pressing
    BY <1>3, <1>4
  <2>2. PhaseAt(chain.start, now) = "closure" /\ PhaseAt(chain.start, now + 1) # "closure"
    BY <1>2, <2>1 DEF PhaseAt
  <2>3. a <= now + 1 /\ now + 1 < b
    BY <1>1, <1>2, <2>1
  <2>4. QED
    BY <1>4, <1>5, <2>2, <2>3
<1>7. Settling /\ ~Settling' => Executing' /\ ~Pressing
  <2>1. SUFFICES ASSUME a <= now, now < b, ~(now + 1 < b) PROVE Executing' /\ ~Pressing
    BY <1>1, <1>3, <1>4
  <2>2. ~(now < a) /\ ~(now + 1 < a) /\ b <= now + 1 /\ now + 1 < c
    BY <1>1, <1>2, <2>1
  <2>3. PhaseAt(chain.start, now) = "settling" /\ PhaseAt(chain.start, now + 1) = "executing"
    BY <1>2, <2>1, <2>2 DEF PhaseAt
  <2>4. QED
    BY <1>4, <1>5, <2>2, <2>3
<1>8. Executing /\ ~Executing' => Awaiting' /\ ~Pressing
  <2>1. SUFFICES ASSUME b <= now, now < c, ~(now + 1 < c) PROVE Awaiting' /\ ~Pressing
    BY <1>1, <1>3, <1>4
  <2>2. ~(now < a) /\ ~(now + 1 < a) /\ ~(now < b) /\ ~(now + 1 < b) /\ c <= now + 1
    BY <1>1, <1>2, <2>1
  <2>3. PhaseAt(chain.start, now) = "executing" /\ PhaseAt(chain.start, now + 1) = "awaiting"
    BY <1>2, <2>1, <2>2 DEF PhaseAt
  <2>4. QED
    BY <1>4, <1>5, <2>2, <2>3
<1>9. Awaiting => Awaiting'
  BY <1>1, <1>2, <1>3, <1>4
<1>10. /\ Settling' => ~InQuarantine' /\ ~Executing' /\ ~Awaiting'
       /\ Executing' => ~InQuarantine' /\ ~Awaiting'
       /\ Awaiting' => ~InQuarantine'
  BY <1>1, <1>2, <1>4
<1>11. QED
  BY <1>6, <1>7, <1>8, <1>9, <1>10

\* When the node has nothing more to do in the phase of the settling, all is settled.
LEMMA SettlingOver ==
    ASSUME IInv, PInv, Settling, ~Pressing
    PROVE  Settled /\ settles = <<>>
<1>1. Shape /\ now \in Nat /\ chain.start \in Nat /\ task["settle"].st \in {"none", "todo", "done"} /\ IsSeq(settles)
  BY Names DEF IInv, Shape, ChainRecord, Tasks, PInv, Values
<1>2. chain.status = "closing" /\ SettleAt(chain.start) <= now /\ now < ActAt(chain.start)
  BY DEF Settling
<1>3. ~InQuarantine /\ Phase = "settling"
  BY <1>1, PhaseTimes
<1>4. /\ db.started /\ task["settle"].st # "none" /\ task["settle"].due = SettleAt(chain.start)
      /\ task["settle"].till = ActAt(chain.start)
  BY <1>2, <1>3 DEF PInv, Planned
<1>5. task["settle"].st = "done"
  <2>1. ~Ready("settle")
    BY DEF Pressing
  <2>2. task["settle"].due <= now /\ now <= task["settle"].till
    BY <1>1, <1>2, <1>4 DEF SettleAt, ActAt
  <2>3. QED
    BY <1>1, <1>4, <2>1, <2>2 DEF Ready
<1>6. settles = <<>>
  <2>1. SUFFICES ASSUME settles # <<>> PROVE FALSE
    OBVIOUS
  <2>2. Ordered(settles)
    BY <1>5, <2>1 DEF PInv, Queue
  <2>3. Len(settles) \in Nat \ {0} /\ Head(settles) = settles[1]
    BY <1>1, <2>1, TailIs
  <2>4. Head(settles).pre = chain.done /\ chain.seqno = db.seqno
    BY <1>2, <1>3, <2>2, <2>3 DEF Ordered, IInv, Counted
  <2>5. CASE Len(settles) = 1
    <3>1. Head(settles).kind = "fin"
      BY <2>2, <2>3, <2>5 DEF Ordered
    <3>2. CanFin
      BY <1>3, <2>1, <2>4, <3>1 DEF CanFin
    <3>3. QED
      BY <3>2 DEF Pressing
  <2>6. CASE Len(settles) # 1
    <3>1. 1 \in 1 .. Len(settles) /\ 2 \in 1 .. Len(settles) /\ 2 = 1 + 1
      <4>1. PICK n : n = Len(settles)
        OBVIOUS
      <4>2. n \in Nat \ {0} /\ n # 1
        BY <2>3, <2>6, <4>1
      <4>3. 1 \in 1 .. n /\ 2 \in 1 .. n
        BY <4>2
      <4>4. QED
        BY <4>1, <4>3
    <3>2. Head(settles).kind = "step"
      BY <2>2, <2>3, <3>1 DEF Ordered
    <3>3. CanStep
      BY <1>3, <2>1, <2>4, <3>2 DEF CanStep, StepAccepted
    <3>4. QED
      BY <3>3 DEF Pressing
  <2>7. QED
    BY <2>5, <2>6
<1>7. Settled
  BY <1>5, <1>6 DEF PInv, Queue
<1>8. QED
  BY <1>6, <1>7

\* When the node has nothing more to do in the phase of the actions, all are executed.
LEMMA ExecutingOver ==
    ASSUME IInv, PInv, Executing, ~Pressing
    PROVE  chain.acts = Actions
<1>1. /\ Shape /\ now \in Nat /\ chain.start \in Nat /\ task["act"].st \in {"none", "todo", "done"}
      /\ IsSeq(acts) /\ chain.acts \in Nat
  BY Names DEF IInv, Shape, ChainRecord, Tasks, PInv, Values
<1>2. chain.status = "closing" /\ ActAt(chain.start) <= now /\ now < FinalizeAt(chain.start)
  BY DEF Executing
<1>3. ~InQuarantine /\ Phase = "executing"
  BY <1>1, PhaseTimes
<1>4. /\ db.started /\ task["act"].st # "none" /\ task["act"].due = ActAt(chain.start)
      /\ task["act"].till = FinalizeAt(chain.start)
  BY <1>2, <1>3 DEF PInv, Planned
<1>5. Settled /\ ours = <<>> /\ db.fin
  BY <1>2 DEF PInv, Remaining, OursTold, Settled
<1>6. task["act"].st = "done"
  <2>1. task["act"].due <= now /\ now <= task["act"].till
    BY <1>1, <1>2, <1>4 DEF SettleAt, ActAt, FinalizeAt
  <2>2. task["act"].st = "todo" => CanAct
    BY <1>3, <1>5, <2>1 DEF CanAct, Ready
  <2>3. ~CanAct
    BY DEF Pressing
  <2>4. QED
    BY <1>1, <1>4, <2>2, <2>3
<1>7. /\ chain.acts + Len(acts) = Actions
      /\ \A i \in 1 .. Len(acts) : /\ acts[i].pre = chain.acts + i - 1
                                   /\ acts[i].done = chain.done /\ acts[i].their = chain.their
  BY <1>6 DEF PInv, Remaining
<1>8. acts = <<>>
  <2>1. SUFFICES ASSUME acts # <<>> PROVE FALSE
    OBVIOUS
  <2>2. Len(acts) \in Nat \ {0} /\ Head(acts) = acts[1]
    BY <1>1, <2>1, TailIs
  <2>3. 1 \in 1 .. Len(acts) /\ chain.acts + 1 - 1 = chain.acts
    BY <1>1, <2>2
  <2>4. CanActStep
    BY <1>3, <1>7, <2>1, <2>2, <2>3 DEF CanActStep
  <2>5. QED
    BY <2>4 DEF Pressing
<1>9. Len(acts) = 0
  BY <1>8
<1>10. QED
  BY <1>1, <1>7, <1>9

\* The clock: what is left to be done in a phase is done when the next one begins.
LEMMA TickPaid ==
    ASSUME IInv, PInv, Tick
    PROVE  PInv'
<1>1. /\ Shape /\ chain.status \in {"open", "closing", "gone"}
      /\ UNCHANGED <<chain, ours, theirs, db, task, settles, acts>>
  BY DEF IInv, Shape, ChainRecord, Tick
<1>2. Values' /\ OursTold' /\ TheirsTold'
  BY <1>1 DEF PInv, Values, OursTold, TheirsTold, Adds
<1>3. CASE chain.status = "gone"
  BY <1>1, <1>2, <1>3, GonePaid
<1>4. CASE chain.status = "open"
  <2>1. Planned' /\ Before'
    BY <1>1, <1>4 DEF PInv, Planned, Before, InQuarantine, Settling
  <2>2. Queue' /\ Remaining' /\ Ended'
    BY <1>1, <1>4 DEF Queue, Remaining, Ended, Settling, Executing, Awaiting
  <2>3. QED
    BY <1>2, <2>1, <2>2 DEF PInv
<1>5. CASE chain.status = "closing"
  <2>1. /\ Settling' => ~InQuarantine' /\ ~Executing' /\ ~Awaiting'
        /\ Executing' => ~InQuarantine' /\ ~Awaiting'
        /\ Awaiting' => ~InQuarantine'
        /\ chain'.status = "closing"
    BY <1>1, <1>5, TickPhases
  <2>2. CASE InQuarantine
    <3>1. CASE InQuarantine'
      <4>1. ~Settling' /\ ~Executing' /\ ~Awaiting'
        BY <2>1, <3>1
      <4>2. Planned' /\ Before'
        BY <1>1, <1>5, <2>2, <3>1 DEF PInv, Planned, Before
      <4>3. Queue' /\ Remaining' /\ Ended'
        BY <2>1, <4>1 DEF Queue, Remaining, Ended
      <4>4. QED
        BY <1>2, <4>2, <4>3 DEF PInv
    <3>2. CASE Settling' /\ ~Pressing
      <4>1. ours = <<>> /\ db.started
        BY <1>5, <3>2 DEF Pressing, IInv, Begun
      <4>2. ~InQuarantine' /\ ~Executing' /\ ~Awaiting'
        BY <2>1, <3>2
      <4>3. Planned' /\ Before'
        BY <1>1, <1>5, <2>2, <4>1, <4>2 DEF PInv, Planned, Before
      <4>4. Queue' /\ Remaining' /\ Ended'
        BY <1>1, <2>1, <2>2, <4>2 DEF PInv, Before, Queue, Remaining, Ended
      <4>5. QED
        BY <1>2, <4>3, <4>4 DEF PInv
    <3>3. QED
      BY <1>5, <2>2, <3>1, <3>2, TickPhases
  <2>3. CASE Settling
    <3>0. ~InQuarantine /\ db.started
      BY <1>1, <1>5, <2>3, PhaseTimes DEF PInv, Planned
    <3>1. CASE Settling'
      <4>1. ~InQuarantine' /\ ~Executing' /\ ~Awaiting'
        BY <2>1, <3>1
      <4>2. Planned' /\ Before'
        BY <1>1, <1>5, <2>3, <3>0, <4>1 DEF PInv, Planned, Before
      <4>3. Queue' /\ Remaining' /\ Ended'
        BY <1>1, <2>1, <2>3, <4>1 DEF PInv, Queue, Remaining, Ended, Ordered, Settled
      <4>4. QED
        BY <1>2, <4>2, <4>3 DEF PInv
    <3>2. CASE Executing' /\ ~Pressing
      <4>1. Settled /\ settles = <<>> /\ ours = <<>> /\ theirs = <<>>
        BY <2>3, <3>2, SettlingOver DEF Pressing
      <4>2. ~InQuarantine' /\ ~Settling' /\ ~Awaiting'
        BY <2>1, <3>2
      <4>3. chain.acts = 0 /\ acts = <<>> /\ task["act"].st # "done"
        BY <2>3 DEF PInv, Before
      <4>4. Planned' /\ Before' /\ Queue' /\ Ended'
        BY <1>1, <1>5, <2>1, <3>0, <4>2 DEF PInv, Planned, Before, Queue, Ended
      <4>5. Remaining'
        BY <1>1, <4>1, <4>3 DEF Remaining, Settled
      <4>6. QED
        BY <1>2, <4>4, <4>5 DEF PInv
    <3>3. QED
      BY <1>5, <2>3, <3>1, <3>2, TickPhases
  <2>4. CASE Executing
    <3>0. ~InQuarantine /\ ~Settling /\ db.started
      BY <1>1, <1>5, <2>4, PhaseTimes DEF PInv, Planned
    <3>1. CASE Executing'
      <4>1. ~InQuarantine' /\ ~Settling' /\ ~Awaiting'
        BY <2>1, <3>1
      <4>2. Planned' /\ Before' /\ Queue' /\ Ended'
        BY <1>1, <1>5, <2>1, <3>0, <4>1 DEF PInv, Planned, Before, Queue, Ended
      <4>3. Remaining'
        BY <1>1, <2>4 DEF PInv, Remaining, Settled
      <4>4. QED
        BY <1>2, <4>2, <4>3 DEF PInv
    <3>2. CASE Awaiting' /\ ~Pressing
      <4>1. chain.acts = Actions /\ Settled
        BY <2>4, <3>2, ExecutingOver DEF PInv, Remaining
      <4>2. ~InQuarantine' /\ ~Settling' /\ ~Executing'
        BY <2>1, <3>2
      <4>3. Planned' /\ Before' /\ Queue' /\ Remaining'
        BY <1>1, <1>5, <2>1, <3>0, <4>2 DEF PInv, Planned, Before, Queue, Remaining
      <4>4. Ended'
        BY <1>1, <4>1 DEF Ended, Settled
      <4>5. QED
        BY <1>2, <4>3, <4>4 DEF PInv
    <3>3. QED
      BY <1>5, <2>4, <3>1, <3>2, TickPhases
  <2>5. CASE Awaiting
    <3>1. Awaiting' /\ ~InQuarantine /\ db.started
      BY <1>1, <1>5, <2>5, TickPhases, PhaseTimes DEF PInv, Planned
    <3>2. ~InQuarantine' /\ ~Settling' /\ ~Executing'
      BY <2>1, <3>1
    <3>3. Planned' /\ Before' /\ Queue' /\ Remaining'
      BY <1>1, <1>5, <2>1, <3>1, <3>2 DEF PInv, Planned, Before, Queue, Remaining
    <3>4. Ended'
      BY <1>1, <2>5 DEF PInv, Ended, Settled
    <3>5. QED
      BY <1>2, <3>3, <3>4 DEF PInv
  <2>6. QED
    BY <1>1, <1>5, <2>2, <2>3, <2>4, <2>5, PhaseTimes
<1>6. QED
  BY <1>1, <1>3, <1>4, <1>5

\* For every number of conditionals, of actions and of conditionals in a message, and every
\* length of the phases: when no conditional settles through a resolver contract and every
\* task and event of a phase gets its turn in it, the contract has every resolve we know and
\* has executed every action when the time for it is over (settleChannelConditionals,
\* executeSettleStep, executeSettleFinalize, settleChannelActions, executeSettleActionStep).
THEOREM AllPaidHolds ==
    ASSUME Derivatives = {}
    PROVE  Spec => []AllPaid
<1>1. Init => PInv
  <2>1. SUFFICES ASSUME Init PROVE PInv
    OBVIOUS
  <2>2. /\ now = 0 /\ ours = <<>> /\ theirs = <<>> /\ settles = <<>> /\ acts = <<>>
        /\ chain = [status |-> "open", seqno |-> 0, owner |-> FALSE, start |-> 0, lt |-> 0,
                    done |-> {}, fin |-> FALSE, their |-> 0, acts |-> 0]
        /\ db = [status |-> "active", accepting |-> TRUE, started |-> FALSE, seqno |-> Newest,
                 fin |-> FALSE, lt |-> 0, partyLt |-> 0, done |-> {}, their |-> 0]
        /\ task = [k \in Kinds |-> [st |-> "none", due |-> 0, till |-> 0]]
    BY <2>1 DEF Init, NoTask
  <2>3. IsSeq(<<>>) /\ Len(<<>>) = 0
    <3>1. <<>> \in Seq({}) /\ Len(<<>>) = 0
      OBVIOUS
    <3>2. QED
      BY <3>1, SeqIs
  <2>4. /\ chain.status = "open" /\ chain.done = {} /\ ~chain.fin /\ chain.their = 0 /\ chain.acts = 0 /\ chain.lt = 0
        /\ db.done = {} /\ ~db.fin /\ db.their = 0 /\ db.partyLt = 0
        /\ task["settle"].st = "none" /\ task["act"].st = "none"
    BY <2>2, Names
  <2>5. chain.fin = db.fin
    BY <2>2
  <2>6. Values /\ OursTold /\ TheirsTold
    BY <2>2, <2>3, <2>4, <2>5 DEF Values, OursTold, TheirsTold
  <2>7. Planned /\ Before
    BY <2>2, <2>4 DEF Planned, Before
  <2>8. Queue /\ Remaining /\ Ended
    BY <2>4 DEF Queue, Remaining, Ended, Settling, Executing, Awaiting
  <2>9. QED
    BY <2>6, <2>7, <2>8 DEF PInv
<1>2. IInv /\ PInv /\ [Next]_vars => PInv'
  <2>1. SUFFICES ASSUME IInv, PInv, [Next]_vars PROVE PInv'
    OBVIOUS
  <2>2. CASE UNCHANGED vars
    <3>1. UNCHANGED <<now, chain, ours, theirs, db, task, settles, acts>>
      BY <2>2 DEF vars
    <3>2. SameView /\ SamePlan
      BY <3>1 DEF SameView, SamePlan
    <3>3. QED
      BY <2>1, <3>1, <3>2, QuietPaid
  <2>3. CASE RequestUncooperativeClose \/ UncooperativeClose \/ DeployResolvers \/ Challenge \/ PartyCloses
    BY <2>1, <2>3, CommitsPaid
  <2>4. CASE SettleConditionals \/ SettleStep \/ SettleFinalize
    BY <2>1, <2>4, SettleConditionalsPaid, SettleStepPaid, SettleFinalizePaid
  <2>5. CASE SettleActions \/ SettleActionStep \/ FinishClose \/ PartyFinishes \/ PartySettles
    BY <2>1, <2>5, SettleActionsPaid, SettleActionStepPaid, FinishPaid, PartySettlesPaid
  <2>6. CASE \E again \in BOOLEAN : OurEvent(again) \/ TheirEvent(again)
    BY <2>1, <2>6, OurEventPaid, TheirEventPaid
  <2>7. CASE Tick
    BY <2>1, <2>7, TickPaid
  <2>8. QED
    BY <2>1, <2>2, <2>3, <2>4, <2>5, <2>6, <2>7 DEF Next, Worker
<1>3. IInv /\ PInv => AllPaid
  <2>1. SUFFICES ASSUME IInv, PInv, Phase \in {"awaiting", "gone"}
                 PROVE  CondsOf(chain.seqno) \cap Known \subseteq chain.done /\ chain.fin /\ chain.acts = Actions
    BY DEF AllPaid, Over
  <2>2. Awaiting \/ chain.status = "gone"
    <3>1. Shape
      BY <2>1 DEF IInv
    <3>2. CASE Phase = "awaiting"
      BY <3>1, <3>2, PhaseTimes
    <3>3. CASE Phase = "gone"
      BY <3>1, <3>3, PhaseIs
    <3>4. QED
      BY <2>1, <3>2, <3>3
  <2>3. QED
    BY <2>1, <2>2 DEF PInv, Ended, Settled, Due
<1>4. QED
  BY <1>1, <1>2, <1>3, Inductive, PTL DEF Spec

=============================================================================
