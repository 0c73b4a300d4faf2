------------------------- MODULE Derivatives_proofs -------------------------
(***************************************************************************)
(* Proofs about Derivatives, for every order, price history, leverage and  *)
(* fee, and any number of lost answers: the two linked conditionals go     *)
(* together on both nodes with the same debts (PairWhole), no position in  *)
(* a signed state is taken for finished (Tracked), the hedge is told to    *)
(* close exactly when the position is over (HedgeFollows), no position     *)
(* that a known price has opened is cancelled (CancelledUnopened), and a   *)
(* position is settled once, for what one side lost (PaidAsPriced).        *)
(***************************************************************************)
EXTENDS Derivatives, TLAPS, WellFoundedInduction

\* The record of a node has its fields, whatever is in them.
Fields(d) ==
    /\ d = [conds |-> d.conds, paid |-> d.paid, out |-> d.out, in |-> d.in, born |-> d.born, mon |-> d.mon,
            hedged |-> d.hedged, active |-> d.active, tasks |-> d.tasks]
    /\ d.out = [st |-> d.out.st, res |-> d.out.res] /\ d.in = [st |-> d.in.st, res |-> d.in.res]
    /\ d.active \in BOOLEAN

Shape ==
    /\ price \in Seq(Prices) /\ got \in [Node -> SUBSET Nat]
    /\ DOMAIN nd = Node /\ nd = [n \in Node |-> nd[n]] /\ \A n \in Node : Fields(nd[n])
    /\ half = [by |-> half.by, type |-> half.type, res |-> half.res, lost |-> half.lost]
    /\ half.by \in Node /\ half.type \in {"none", "add", "exec", "rem"}
    /\ half.type = "none" => half = NoHalf
    /\ hedge \in [open : BOOLEAN, close : BOOLEAN]

\* A second of the price history that a node has.
Known == \A n \in Node : got[n] \subseteq 1 .. now

\* What the proposer does not know yet is what it will have when it saves the answer.
Exchange ==
    /\ \A n \in Node : nd[n].conds \in {{}, Node}
    /\ half.type = "none" => nd["O"].conds = nd["A"].conds /\ nd["O"].paid = nd["A"].paid
    /\ half.type = "add" => half.by = "O" /\ nd["A"].conds = Node /\ nd["O"].conds = {} /\ nd["O"].paid = nd["A"].paid
    /\ \A n \in Node : half.type \in {"exec", "rem"} /\ half.by = n => nd[Peer(n)].conds = {} /\ nd[n].conds = Node
    /\ half.type = "rem" => nd["O"].paid = nd["A"].paid
    /\ \A n \in Node : half.type = "exec" /\ half.by = n =>
         half.res.at \in 1 .. now /\ nd[Peer(n)].paid = Settled(nd[n], Peer(n), half.res).paid

\* The position is created once, and A knows nothing of it before.
Begun ==
    /\ nd["A"].out.st = "none" => nd["A"].conds = {} /\ half.type = "none" /\ ~hedge.close
    /\ nd["O"].out.st = "none" => nd["A"].out.st = "none"
    /\ "create" \in nd["O"].tasks => nd["O"].conds = {} /\ (nd["A"].out.st = "none" \/ half.type = "add")

\* The inductive invariant.
IInv == Shape /\ Known /\ Exchange /\ Begun /\ Tracked /\ HedgeFollows

-----------------------------------------------------------------------------
(* What the operators do to the record of a node.                          *)

\* e is d but for what does not concern the exchange: neither the pair nor the debts
\* change, and while the pair is there a status may only become "wantclose".
Keeps(e, d) ==
    /\ Fields(e) /\ e.conds = d.conds /\ e.paid = d.paid /\ (e.active => d.active)
    /\ e.out.st = "none" => d.out.st = "none"
    /\ e.conds # {} /\ e.active => e.out.st \in {d.out.st, "wantclose"} /\ e.in.st \in {d.in.st, "wantclose"}

\* The same, and the position is known to the node if and only if it was, the channel as
\* active as it was, and nothing is created.
KeepsAll(e, d) ==
    /\ Keeps(e, d) /\ e.active = d.active
    /\ "create" \in e.tasks => "create" \in d.tasks
    /\ d.out.st = "none" /\ d.conds = {} => e.out.st = "none"

\* The two nodes are two.
LEMMA Nodes ==
    /\ "O" \in Node /\ "A" \in Node /\ Node # {}
    /\ Peer("O") = "A" /\ Peer("A") = "O"
    /\ \A n \in Node : Peer(n) \in Node /\ Peer(n) # n /\ Peer(Peer(n)) = n
BY DEF Node, Peer

\* What stays as it is is kept.
LEMMA KeepsSame ==
    ASSUME NEW d, Fields(d)
    PROVE  KeepsAll(d, d)
BY DEF KeepsAll, Keeps

\* One change after another.
LEMMA KeepsBoth ==
    ASSUME NEW c, NEW d, NEW e, KeepsAll(e, d), KeepsAll(d, c)
    PROVE  KeepsAll(e, c)
BY DEF KeepsAll, Keeps

\* A refresh changes nothing but the monitor.
LEMMA RefreshedKeeps ==
    ASSUME Shape, NEW n \in Node
    PROVE  /\ KeepsAll(Refreshed(n), nd[n])
           /\ Refreshed(n).out = nd[n].out /\ Refreshed(n).in = nd[n].in /\ Refreshed(n).tasks = nd[n].tasks
<1> DEFINE d == nd[n]
<1>1. Fields(d)
  BY DEF Shape
<1>2. CASE Monitored(nd[n])
  <2>1. Refreshed(n) = [d EXCEPT !.mon = Monitor(n)]
    BY <1>2 DEF Refreshed
  <2>2. PICK m : m = Monitor(n)
    OBVIOUS
  <2>3. \A r : r = [d EXCEPT !.mon = m] =>
          KeepsAll(r, d) /\ r.out = d.out /\ r.in = d.in /\ r.tasks = d.tasks
    <3> HIDE DEF d
    <3> QED
      BY <1>1 DEF KeepsAll, Keeps, Fields
  <2>4. QED
    BY <2>1, <2>2, <2>3
<1>3. CASE ~Monitored(nd[n])
  BY <1>1, <1>3, KeepsSame DEF Refreshed
<1>4. QED
  BY <1>2, <1>3

\* A close that is asked for changes the statuses only, and only while the pair is there.
LEMMA CloseKeeps ==
    ASSUME NEW d, NEW n \in Node, Fields(d)
    PROVE  KeepsAll(CloseDerivative(d, n), d)
<1>1. CASE n \notin d.conds \/ ~d.active
  BY <1>1, KeepsSame DEF CloseDerivative
<1>2. CASE n \in d.conds /\ d.active
  <2>1. PICK r : r = IF d.out.res.amt > 0 THEN [amt |-> 0, at |-> d.out.res.at]
                     ELSE IF d.in.res # NoRes THEN d.in.res
                     ELSE [amt |-> Profit(n, price[Latest(n)]), at |-> Latest(n)]
    OBVIOUS
  <2>2. CloseDerivative(d, n) = [d EXCEPT !.out.st = "wantclose", !.in.st = "wantclose", !.tasks = @ \cup {"close"},
                                          !.in.res = r]
    BY <1>2, <2>1 DEF CloseDerivative, Fields
  <2>3. PICK e : e = CloseDerivative(d, n)
    OBVIOUS
  <2>4. e = [conds |-> d.conds, paid |-> d.paid, out |-> [st |-> "wantclose", res |-> d.out.res],
             in |-> [st |-> "wantclose", res |-> r], born |-> d.born, mon |-> d.mon, hedged |-> d.hedged,
             active |-> d.active, tasks |-> d.tasks \cup {"close"}]
    BY <2>2, <2>3, ZenonT(60) DEF Fields
  <2>5. Fields(e)
    BY <2>4 DEF Fields
  <2>6. d.conds # {}
    BY <1>2
  <2>7. /\ e.conds = d.conds /\ e.paid = d.paid /\ e.active = d.active
        /\ e.out.st = "wantclose" /\ e.in.st = "wantclose" /\ ("create" \in e.tasks => "create" \in d.tasks)
    BY <2>4
  <2>8. KeepsAll(e, d)
    BY <2>5, <2>6, <2>7 DEF KeepsAll, Keeps
  <2>9. QED
    BY <2>3, <2>8
<1>3. QED
  BY <1>1, <1>2

\* A resolve of one's own conditional changes nothing else.
LEMMA ResolveKeeps ==
    ASSUME NEW d, NEW r, Fields(d)
    PROVE  KeepsAll([d EXCEPT !.out.res = r], d)
BY DEF KeepsAll, Keeps, Fields

\* So does a liquidation.
LEMMA LiquidateKeeps ==
    ASSUME NEW d, NEW n \in Node, Fields(d)
    PROVE  KeepsAll(Liquidate(d, n), d)
<1> DEFINE r == [amt |-> Amount, at |-> d.mon.liq]
           e == [d EXCEPT !.out.res = r]
<1>0. KeepsAll(e, d)
  BY ResolveKeeps, Zenon
<1>1. KeepsAll(e, d) /\ Fields(e)
  BY <1>0, Zenon DEF KeepsAll, Keeps
<1>2. KeepsAll(CloseDerivative(e, n), d)
  BY <1>1, CloseKeeps, KeepsBoth
<1>3. Liquidate(d, n) \in {d, CloseDerivative(d, n), CloseDerivative(e, n)}
  BY DEF Liquidate
<1>4. QED
  BY <1>2, <1>3, CloseKeeps, KeepsSame

\* Taking up or dropping a task other than "create" changes nothing else.
LEMMA TaskKeeps ==
    ASSUME NEW d, Fields(d), NEW t, t # "create"
    PROVE  /\ KeepsAll([d EXCEPT !.tasks = @ \cup {t}], d)
           /\ KeepsAll(Drop(d, t), d) /\ Fields(Drop(d, t)) /\ Drop(d, t).out = d.out /\ Drop(d, t).in = d.in
BY DEF KeepsAll, Keeps, Fields, Drop

\* A settlement changes the pair and the debts.
LEMMA SettledIs ==
    ASSUME NEW d, Fields(d), NEW s, NEW r
    PROVE  LET e == Settled(d, s, r)
           IN  Fields(e) /\ e.conds = {} /\ e.active = d.active /\ e.tasks = d.tasks
<1>1. PICK x, y : Settled(d, s, r) = [d EXCEPT !.conds = {}, !.paid[s] = @ + x, !.paid[Peer(s)] = @ + y]
  BY DEF Settled
<1>2. PICK e : e = Settled(d, s, r)
  OBVIOUS
<1>3. /\ e.conds = {} /\ e.out = d.out /\ e.in = d.in /\ e.active = d.active /\ e.tasks = d.tasks
      /\ e = [conds |-> e.conds, paid |-> e.paid, out |-> e.out, in |-> e.in, born |-> e.born, mon |-> e.mon,
              hedged |-> e.hedged, active |-> e.active, tasks |-> e.tasks]
  BY <1>1, <1>2 DEF Fields
<1>4. QED
  BY <1>2, <1>3 DEF Fields

\* ClosePairMeta changes the two statuses.
LEMMA PairIs ==
    ASSUME NEW d, Fields(d), NEW st
    PROVE  LET e == Pair(d, st)
           IN  /\ Fields(e) /\ e.conds = d.conds /\ e.paid = d.paid /\ e.active = d.active
               /\ e.tasks = d.tasks /\ e.out.st = st /\ e.in.st = st
<1>1. PICK e : e = Pair(d, st)
  OBVIOUS
<1>2. \A x : x = [st |-> x.st, res |-> x.res] => [x EXCEPT !.st = st] = [st |-> st, res |-> x.res]
  OBVIOUS
<1>3. e = [d EXCEPT !.out = [@ EXCEPT !.st = st], !.in = [@ EXCEPT !.st = st]]
  BY <1>1 DEF Pair, Fields
<1>4. [d.out EXCEPT !.st = st] = [st |-> st, res |-> d.out.res] /\ [d.in EXCEPT !.st = st] = [st |-> st, res |-> d.in.res]
  BY <1>2 DEF Fields
<1>5. e = [conds |-> d.conds, paid |-> d.paid, out |-> [st |-> st, res |-> d.out.res], in |-> [st |-> st, res |-> d.in.res],
           born |-> d.born, mon |-> d.mon, hedged |-> d.hedged, active |-> d.active, tasks |-> d.tasks]
  BY <1>3, <1>4 DEF Fields
<1>6. Fields(e)
  BY <1>5 DEF Fields
<1>7. QED
  BY <1>1, <1>5, <1>6

\* Dropping a task changes nothing else.
LEMMA DropIs ==
    ASSUME NEW d, Fields(d), NEW t
    PROVE  LET e == Drop(d, t)
           IN  /\ Fields(e) /\ e.conds = d.conds /\ e.paid = d.paid /\ e.active = d.active
               /\ e.tasks = d.tasks \ {t} /\ e.out = d.out /\ e.in = d.in
BY DEF Drop, Fields

\* The two metas are created before anything is proposed.
LEMMA CreatedIs ==
    ASSUME NEW d, Fields(d)
    PROVE  LET e == Created(d)
           IN  /\ Fields(e) /\ e.conds = d.conds /\ e.paid = d.paid /\ e.active = d.active
               /\ e.tasks = d.tasks /\ e.out.st # "none"
<1>1. CASE d.out.st # "none"
  BY <1>1 DEF Created
<1>2. CASE d.out.st = "none"
  <2>1. PICK f : f = Pair(d, "pending")
    OBVIOUS
  <2>2. Fields(f) /\ f.conds = d.conds /\ f.paid = d.paid /\ f.active = d.active /\ f.tasks = d.tasks /\ f.out.st = "pending"
    BY <2>1, PairIs
  <2>3. PICK x, y : Created(d) = [f EXCEPT !.born = x, !.mon = y]
    BY <1>2, <2>1, <2>2 DEF Created, Fields
  <2>4. QED
    BY <2>2, <2>3 DEF Fields
<1>3. QED
  BY <1>1, <1>2

\* The debts a settlement leaves depend on the pair, the debts before and the price alone.
LEMMA SameSettlement ==
    ASSUME NEW d, NEW e, Fields(d), Fields(e), d.conds = e.conds, d.paid = e.paid, NEW s, NEW r
    PROVE  Settled(d, s, r).paid = Settled(e, s, r).paid
<1> DEFINE linked == IF r.amt = 0 /\ Peer(s) \in d.conds THEN Loss(Peer(s), price[r.at]) ELSE 0
<1>1. PICK x : x = IF r.amt > 0 THEN Pays(s, r.amt) ELSE 0
  OBVIOUS
<1>2. PICK y : y = IF linked > 0 THEN Pays(Peer(s), linked) ELSE 0
  OBVIOUS
<1>3. Settled(d, s, r) = [d EXCEPT !.conds = {}, !.paid[s] = @ + x, !.paid[Peer(s)] = @ + y]
  BY <1>1, <1>2 DEF Settled
<1>4. Settled(e, s, r) = [e EXCEPT !.conds = {}, !.paid[s] = @ + x, !.paid[Peer(s)] = @ + y]
  BY <1>1, <1>2 DEF Settled
<1>5. Settled(d, s, r).paid = [d.paid EXCEPT ![s] = @ + x, ![Peer(s)] = @ + y]
  BY <1>3 DEF Fields
<1>6. Settled(e, s, r).paid = [e.paid EXCEPT ![s] = @ + x, ![Peer(s)] = @ + y]
  BY <1>4 DEF Fields
<1>7. QED
  BY <1>5, <1>6


\* The price of a second that has passed does not change, nor does what it settles.
LEMMA LaterSettlement ==
    ASSUME NEW d, NEW e, Fields(d), Fields(e), d.conds = e.conds, d.paid = e.paid, NEW s, NEW r,
           price'[r.at] = price[r.at]
    PROVE  Settled(e, s, r)'.paid = Settled(d, s, r).paid
<1> DEFINE linked == IF r.amt = 0 /\ Peer(s) \in d.conds THEN Loss(Peer(s), price[r.at]) ELSE 0
<1>1. PICK x : x = IF r.amt > 0 THEN Pays(s, r.amt) ELSE 0
  OBVIOUS
<1>2. PICK y : y = IF linked > 0 THEN Pays(Peer(s), linked) ELSE 0
  OBVIOUS
<1>3. Settled(d, s, r) = [d EXCEPT !.conds = {}, !.paid[s] = @ + x, !.paid[Peer(s)] = @ + y]
  BY <1>1, <1>2 DEF Settled
<1>4. Settled(e, s, r)' = [e EXCEPT !.conds = {}, !.paid[s] = @ + x, !.paid[Peer(s)] = @ + y]
  BY <1>1, <1>2 DEF Settled
<1>5. Settled(d, s, r).paid = [d.paid EXCEPT ![s] = @ + x, ![Peer(s)] = @ + y]
  BY <1>3 DEF Fields
<1>6. Settled(e, s, r)'.paid = [e.paid EXCEPT ![s] = @ + x, ![Peer(s)] = @ + y]
  BY <1>4 DEF Fields
<1>7. QED
  BY <1>5, <1>6

-----------------------------------------------------------------------------
(* Steps that do not touch the exchange.                                   *)

\* The clock runs on or stands.
Elapses ==
    /\ price' \in Seq(Prices) /\ now' \in Nat /\ now <= now'
    /\ \A t \in 1 .. now : price'[t] = price[t]

\* Neither the pair nor the debts change on either node, and the answer on its way stays
\* on its way.
Quiet ==
    /\ Elapses
    /\ got' \in [Node -> SUBSET Nat] /\ \A n \in Node : got'[n] \subseteq 1 .. now'
    /\ DOMAIN nd' = Node /\ nd' = [n \in Node |-> nd'[n]] /\ \A n \in Node : Keeps(nd'[n], nd[n])
    /\ nd["A"].out.st = "none" => nd'["A"].out.st = "none" /\ hedge'.close = hedge.close
    /\ "create" \in nd'["O"].tasks => "create" \in nd["O"].tasks \/ nd["O"].out.st = "none"
    /\ half' = [by |-> half.by, type |-> half.type, res |-> half.res, lost |-> half'.lost]
    /\ half.type = "none" => half' = half
    /\ hedge' \in [open : BOOLEAN, close : BOOLEAN] /\ (hedge.open => hedge'.open)

\* The length of the price history is a number.
LEMMA Clock ==
    ASSUME Shape
    PROVE  now \in Nat
BY DEF Shape, now

\* A quiet step keeps what is said of the exchange.
LEMMA QuietStep ==
    ASSUME IInv, Quiet
    PROVE  Shape' /\ Known' /\ Exchange' /\ Begun' /\ Tracked'
<1>1. Shape'
  BY DEF IInv, Shape, Quiet, Elapses, Keeps
<1>2. Known'
  BY DEF Quiet, Known
<1>3. /\ half'.by = half.by /\ half'.type = half.type /\ half'.res = half.res
      /\ \A n \in Node : Keeps(nd'[n], nd[n])
  BY DEF Quiet
<1>4. Exchange'
  <2>1. \A n \in Node : nd'[n].conds = nd[n].conds /\ nd'[n].paid = nd[n].paid
    BY <1>3 DEF Keeps
  <2>2. ASSUME NEW n \in Node, half.type = "exec", half.by = n
        PROVE  /\ half'.res.at \in 1 .. now'
               /\ nd'[Peer(n)].paid = Settled(nd[n], Peer(n), half.res)'.paid
    <3>1. half.res.at \in 1 .. now /\ nd[Peer(n)].paid = Settled(nd[n], Peer(n), half.res).paid
      BY <2>2 DEF IInv, Exchange
    <3>2. half.res.at \in 1 .. now' /\ price'[half.res.at] = price[half.res.at]
      BY <3>1, Clock DEF IInv, Quiet, Elapses
    <3>3. PICK d, e, r : d = nd[n] /\ e = nd'[n] /\ r = half.res
      OBVIOUS
    <3>4. Settled(e, Peer(n), r)'.paid = Settled(d, Peer(n), r).paid
      BY <1>3, <2>1, <3>2, <3>3, LaterSettlement DEF IInv, Shape, Keeps
    <3>5. Settled(nd[n], Peer(n), half.res)' = Settled(e, Peer(n), r)'
      BY <1>3, <3>3 DEF Settled
    <3>6. QED
      BY <1>3, <2>1, <3>1, <3>2, <3>3, <3>4, <3>5, Nodes
  <2>3. QED
    BY <1>3, <2>1, <2>2, Nodes DEF IInv, Exchange
<1>5. Begun'
  BY <1>3, Nodes DEF IInv, Begun, Exchange, Keeps, Quiet
<1>6. Tracked'
  BY <1>3 DEF IInv, Tracked, Keeps
<1>7. QED
  BY <1>1, <1>2, <1>4, <1>5, <1>6

\* The hedge stays as it is while the position of A is as it was.
LEMMA QuietHedge ==
    ASSUME IInv, Quiet, nd'["A"].active = nd["A"].active, hedge'.close = hedge.close
    PROVE  HedgeFollows'
BY Nodes DEF IInv, HedgeFollows, Quiet, Keeps

\* A step of both nodes that keeps everything.
LEMMA BothQuiet ==
    ASSUME IInv, DOMAIN nd' = Node, nd' = [n \in Node |-> nd'[n]], \A n \in Node : KeepsAll(nd'[n], nd[n]),
           UNCHANGED <<price, got, hedge>>,
           half' = [by |-> half.by, type |-> half.type, res |-> half.res, lost |-> half'.lost],
           half.type = "none" => half' = half
    PROVE  IInv'
<1>1. Quiet
  <2>1. Elapses
    BY Clock DEF IInv, Shape, Elapses, now
  <2>2. \A n \in Node : Keeps(nd'[n], nd[n])
    BY DEF KeepsAll
  <2>3. nd["A"].out.st = "none" => nd'["A"].out.st = "none"
    BY Nodes DEF KeepsAll, IInv, Begun
  <2>4. \A n \in Node : got'[n] \subseteq 1 .. now'
    BY DEF IInv, Known, now
  <2>5. "create" \in nd'["O"].tasks => "create" \in nd["O"].tasks
    BY Nodes DEF KeepsAll
  <2>6. QED
    BY <2>1, <2>2, <2>3, <2>4, <2>5 DEF IInv, Shape, Quiet
<1>2. nd'["A"].active = nd["A"].active
  BY Nodes DEF KeepsAll
<1>3. QED
  BY <1>1, <1>2, QuietStep, QuietHedge DEF IInv

\* A step of one node that keeps everything.
LEMMA OneQuiet ==
    ASSUME IInv, NEW n \in Node, NEW e, nd' = [nd EXCEPT ![n] = e], KeepsAll(e, nd[n]),
           UNCHANGED <<price, got, half, hedge>>
    PROVE  IInv'
<1>1. DOMAIN nd' = Node /\ nd' = [m \in Node |-> nd'[m]] /\ nd'[n] = e /\ \A m \in Node : m # n => nd'[m] = nd[m]
  BY DEF IInv, Shape
<1>2. \A m \in Node : KeepsAll(nd'[m], nd[m])
  BY <1>1, KeepsSame DEF IInv, Shape
<1>3. /\ half' = [by |-> half.by, type |-> half.type, res |-> half.res, lost |-> half'.lost]
      /\ half.type = "none" => half' = half
  BY DEF IInv, Shape
<1>4. QED
  BY <1>1, <1>2, <1>3, BothQuiet

-----------------------------------------------------------------------------
(* The world and the requests of the users.                                *)

\* The clock.
LEMMA TickStep ==
    ASSUME IInv, Tick
    PROVE  IInv'
<1>1. PICK p \in Prices : price' = Append(price, p)
  BY DEF Tick
<1>2. Elapses /\ now' = now + 1
  BY <1>1 DEF IInv, Shape, Elapses, now
<1>3. \A n \in Node : got'[n] \subseteq 1 .. now'
  BY <1>2, Clock DEF Tick, IInv, Known
<1>4. \A n \in Node : Keeps(nd'[n], nd[n])
  BY KeepsSame DEF Tick, IInv, Shape, KeepsAll
<1>5. Quiet
  BY <1>2, <1>3, <1>4 DEF Quiet, Tick, IInv, Shape
<1>6. QED
  BY <1>5, QuietStep, QuietHedge DEF IInv, Tick

\* The resolvers.
LEMMA FetchStep ==
    ASSUME IInv, NEW n \in Node, Fetch(n)
    PROVE  IInv'
<1>1. Elapses /\ now' = now
  BY Clock DEF Fetch, IInv, Shape, Elapses, now
<1>2. \A t \in 1 .. now : t \in Nat
  BY Clock DEF IInv
<1>3. now \in 1 .. now
  BY Clock DEF IInv, Fetch
<1>4. got' \in [Node -> SUBSET Nat] /\ \A m \in Node : got'[m] \subseteq 1 .. now'
  BY <1>1, <1>2, <1>3 DEF Fetch, IInv, Shape, Known
<1>5. \A m \in Node : Keeps(nd'[m], nd[m])
  BY KeepsSame DEF Fetch, IInv, Shape, KeepsAll
<1>6. Quiet
  BY <1>1, <1>4, <1>5 DEF Quiet, Fetch, IInv, Shape
<1>7. QED
  BY <1>6, QuietStep, QuietHedge DEF IInv, Fetch

\* The price worker.
LEMMA WatchStep ==
    ASSUME IInv, NEW n \in Node, Watch(n)
    PROVE  IInv'
<1>1. PICK d : d = Refreshed(n) /\ KeepsAll(d, nd[n]) /\ Fields(d)
  BY RefreshedKeeps DEF IInv, KeepsAll, Keeps
<1>2. KeepsAll(Liquidate(d, n), nd[n])
  BY <1>1, LiquidateKeeps, KeepsBoth
<1>3. PICK e : KeepsAll(e, nd[n]) /\ nd' = [nd EXCEPT ![n] = e]
  BY <1>1, <1>2 DEF Watch
<1>4. QED
  BY <1>3, OneQuiet DEF Watch

\* The user asks to close.
LEMMA AskCloseStep ==
    ASSUME IInv, NEW n \in Node, AskClose(n)
    PROVE  IInv'
<1>1. PICK d : d = Refreshed(n) /\ KeepsAll(d, nd[n]) /\ Fields(d)
  BY RefreshedKeeps DEF IInv, KeepsAll, Keeps
<1>2. PICK r : r = [amt |-> Loss(n, price[Latest(n)]), at |-> Latest(n)]
  OBVIOUS
<1>3. PICK f : f = [d EXCEPT !.out.res = r]
  OBVIOUS
<1>4. KeepsAll(f, d) /\ Fields(f)
  BY <1>1, <1>3, ResolveKeeps DEF KeepsAll, Keeps
<1>5. KeepsAll(f, nd[n]) /\ KeepsAll(CloseDerivative(f, n), nd[n])
  BY <1>1, <1>4, CloseKeeps, KeepsBoth
<1>6. nd' = [nd EXCEPT ![n] = CloseDerivative(f, n)] \/ nd' = [nd EXCEPT ![n] = f]
  BY <1>1, <1>2, <1>3 DEF AskClose
<1>7. QED
  BY <1>5, <1>6, OneQuiet DEF AskClose

\* The user asks to cancel.
LEMMA AskCancelStep ==
    ASSUME IInv, NEW n \in Node, AskCancel(n)
    PROVE  IInv'
<1>1. PICK d : d = Refreshed(n) /\ KeepsAll(d, nd[n]) /\ Fields(d)
  BY RefreshedKeeps DEF IInv, KeepsAll, Keeps
<1>2. PICK e : e = [d EXCEPT !.tasks = @ \cup {"remove"}]
  OBVIOUS
<1>3. KeepsAll(e, d)
  BY <1>1, <1>2, TaskKeeps
<1>4. KeepsAll(e, nd[n])
  BY <1>1, <1>3, KeepsBoth
<1>5. nd' = [nd EXCEPT ![n] = e]
  BY <1>1, <1>2 DEF AskCancel
<1>6. QED
  BY <1>4, <1>5, OneQuiet DEF AskCancel

\* The operator marks the order as hedged or not.
LEMMA SetHedgedStep ==
    ASSUME IInv, SetHedged
    PROVE  IInv'
<1>1. PICK d : d = nd["A"] /\ Fields(d)
  BY Nodes DEF IInv, Shape
<1>2. PICK h : h = ~d.hedged
  OBVIOUS
<1>3. PICK e : e = [d EXCEPT !.hedged = h]
  OBVIOUS
<1>4. KeepsAll(e, d)
  BY <1>1, <1>3 DEF KeepsAll, Keeps, Fields
<1>5. nd' = [nd EXCEPT !["A"] = e]
  BY <1>1, <1>2, <1>3 DEF SetHedged, IInv, Shape
<1>6. QED
  BY <1>1, <1>4, <1>5, Nodes, OneQuiet DEF SetHedged

\* The tasks that find nothing to do.
LEMMA CloseDoneStep ==
    ASSUME IInv, NEW n \in Node, CloseDone(n)
    PROVE  IInv'
<1>1. KeepsAll(Drop(nd[n], "close"), nd[n])
  BY TaskKeeps DEF IInv, Shape
<1>2. nd' = [nd EXCEPT ![n] = Drop(nd[n], "close")]
  BY DEF CloseDone
<1>3. QED
  BY <1>1, <1>2, OneQuiet DEF CloseDone

\* The late look at a pair that was not removed touches the chain only.
LEMMA UncoopStep ==
    ASSUME IInv, NEW n \in Node, Uncoop(n)
    PROVE  IInv'
<1>1. KeepsAll(Drop(nd[n], "uncoop"), nd[n])
  BY TaskKeeps DEF IInv, Shape
<1>2. nd' = [nd EXCEPT ![n] = Drop(nd[n], "uncoop")]
  BY DEF Uncoop
<1>3. QED
  BY <1>1, <1>2, OneQuiet DEF Uncoop


\* The task to remove finds that the pair went some other way.
LEMMA RemoveDoneStep ==
    ASSUME IInv, NEW n \in Node, RemoveDone(n)
    PROVE  IInv'
<1> DEFINE over == nd[n].in.st \in {"closed", "removed"} \/ ~nd[n].active
<1>1. PICK d : d = nd[n] /\ Fields(d)
  BY DEF IInv, Shape
<1>2. PICK f : /\ f = Drop(d, "remove") /\ Fields(f) /\ f.conds = d.conds /\ f.paid = d.paid /\ f.active = d.active
               /\ f.tasks = d.tasks \ {"remove"} /\ f.out = d.out /\ f.in = d.in
  BY <1>1, DropIs
<1>3. PICK st : st = IF over THEN d.in.st ELSE "wantremove"
  OBVIOUS
<1>4. PICK e : e = [f EXCEPT !.in.st = st]
  OBVIOUS
<1>5. /\ Fields(e) /\ e.conds = d.conds /\ e.paid = d.paid /\ e.active = d.active
      /\ e.tasks = d.tasks \ {"remove"} /\ e.out = d.out /\ e.in.st = st
  BY <1>2, <1>4 DEF Fields
<1>6. over \/ d.conds = {}
  <2>1. over \/ Peer(n) \notin d.conds
    BY <1>1 DEF RemoveDone
  <2>2. QED
    BY <1>1, <2>1, Nodes DEF IInv, Exchange
<1>7. KeepsAll(e, d)
  BY <1>3, <1>5, <1>6 DEF KeepsAll, Keeps
<1>8. nd' = [nd EXCEPT ![n] = e]
  <2>1. e = [Drop(nd[n], "remove") EXCEPT !.in.st = IF over THEN nd[n].in.st ELSE "wantremove"]
    BY <1>1, <1>2, <1>3, <1>4
  <2>2. QED
    BY <2>1 DEF RemoveDone
<1>9. QED
  BY <1>1, <1>7, <1>8, OneQuiet DEF RemoveDone

\* The party does not agree to a removal.
LEMMA DenyRemoveStep ==
    ASSUME IInv, NEW n \in Node, DenyRemove(n)
    PROVE  IInv'
<1>1. PICK m \in Node : m = Peer(n) /\ m # n /\ \A k \in Node : k \in {m, n}
  BY Nodes DEF Node, Peer
<1>2. PICK d : d = Refreshed(n) /\ KeepsAll(d, nd[n]) /\ Fields(d)
  BY RefreshedKeeps DEF IInv, KeepsAll, Keeps
<1>3. PICK e : e = [d EXCEPT !.tasks = @ \cup {"uncoop"}]
  OBVIOUS
<1>4. KeepsAll(e, d)
  BY <1>2, <1>3, TaskKeeps
<1>5. KeepsAll(e, nd[n])
  BY <1>2, <1>4, KeepsBoth
<1>6. nd' = [nd EXCEPT ![n] = e, ![m] = Refreshed(m)]
  BY <1>1, <1>2, <1>3 DEF DenyRemove
<1>7. DOMAIN nd' = Node /\ nd' = [k \in Node |-> nd'[k]] /\ nd'[n] = e /\ nd'[m] = Refreshed(m)
  BY <1>1, <1>6 DEF IInv, Shape
<1>8. KeepsAll(Refreshed(m), nd[m])
  BY RefreshedKeeps DEF IInv
<1>9. \A k \in Node : KeepsAll(nd'[k], nd[k])
  BY <1>1, <1>5, <1>7, <1>8
<1>10. half' = [by |-> half.by, type |-> half.type, res |-> half.res, lost |-> half'.lost]
  BY DEF DenyRemove, IInv, Shape
<1>11. QED
  BY <1>7, <1>9, <1>10, BothQuiet DEF DenyRemove

\* An answer is lost.
LEMMA LoseStep ==
    ASSUME IInv, Lose
    PROVE  IInv'
<1>1. \A k \in Node : KeepsAll(nd'[k], nd[k])
  BY KeepsSame DEF Lose, IInv, Shape
<1>2. half' = [by |-> half.by, type |-> half.type, res |-> half.res, lost |-> half'.lost]
  BY DEF Lose, IInv, Shape
<1>3. half.type # "none"
  BY DEF Lose, Free, IInv, Shape
<1>4. DOMAIN nd' = Node /\ nd' = [k \in Node |-> nd'[k]]
  BY DEF Lose, IInv, Shape
<1>5. QED
  BY <1>1, <1>2, <1>3, <1>4, BothQuiet DEF Lose

\* The proposal is repeated.
LEMMA ResendStep ==
    ASSUME IInv, NEW n \in Node, Resend(n)
    PROVE  IInv'
<1>1. half.type # "none"
  BY DEF Resend, NoHalf, IInv, Shape
<1>2. half' = [by |-> half.by, type |-> half.type, res |-> half.res, lost |-> half'.lost]
  BY DEF Resend, IInv, Shape
<1>3. PICK e : e = (IF half.type = "rem" THEN Refreshed(n) ELSE nd[n]) /\ KeepsAll(e, nd[n])
  BY RefreshedKeeps, KeepsSame DEF IInv, Shape
<1>4. nd' = [nd EXCEPT ![n] = e]
  BY <1>3 DEF Resend
<1>5. DOMAIN nd' = Node /\ nd' = [k \in Node |-> nd'[k]] /\ nd'[n] = e /\ \A k \in Node : k # n => nd'[k] = nd[k]
  BY <1>4 DEF IInv, Shape
<1>6. \A k \in Node : KeepsAll(nd'[k], nd[k])
  BY <1>3, <1>5, KeepsSame DEF IInv, Shape
<1>7. QED
  BY <1>1, <1>2, <1>5, <1>6, BothQuiet DEF Resend

-----------------------------------------------------------------------------
(* Opening.                                                                *)

\* A change of O alone that is quiet.
LEMMA OpenerQuiet ==
    ASSUME IInv, NEW e, nd' = [nd EXCEPT !["O"] = e], Keeps(e, nd["O"]),
           "create" \in e.tasks => "create" \in nd["O"].tasks \/ nd["O"].out.st = "none",
           UNCHANGED <<price, got, half>>,
           hedge' \in [open : BOOLEAN, close : BOOLEAN], hedge'.close = hedge.close, hedge.open => hedge'.open
    PROVE  IInv'
<1>1. DOMAIN nd' = Node /\ nd' = [m \in Node |-> nd'[m]] /\ nd'["O"] = e /\ nd'["A"] = nd["A"]
  BY Nodes DEF IInv, Shape
<1>2. \A m \in Node : Keeps(nd'[m], nd[m])
  <2>1. Keeps(nd["A"], nd["A"])
    BY KeepsSame, Nodes DEF IInv, Shape, KeepsAll
  <2>2. QED
    BY <1>1, <2>1 DEF Node
<1>3. Elapses
  BY Clock DEF IInv, Shape, Elapses, now
<1>4. \A n \in Node : got'[n] \subseteq 1 .. now'
  BY DEF IInv, Known, now
<1>5. Quiet
  BY <1>1, <1>2, <1>3, <1>4 DEF Quiet, IInv, Shape
<1>6. QED
  BY <1>1, <1>5, QuietStep, QuietHedge DEF IInv

\* The order is placed.
LEMMA OpenPositionStep ==
    ASSUME IInv, OpenPosition
    PROVE  IInv'
<1>1. PICK d : d = nd["O"] /\ Fields(d)
  BY Nodes DEF IInv, Shape
<1>2. PICK e : e = [d EXCEPT !.tasks = @ \cup {"create"}]
  OBVIOUS
<1>3. Keeps(e, d)
  BY <1>1, <1>2 DEF Keeps, Fields
<1>4. nd' = [nd EXCEPT !["O"] = e]
  BY <1>1, <1>2, Nodes DEF OpenPosition, IInv, Shape
<1>5. QED
  BY <1>1, <1>3, <1>4, OpenerQuiet DEF OpenPosition, IInv, Shape

\* The proposal is not answered, or is refused: O has no pair before it is accepted.
LEMMA CreateFailsStep ==
    ASSUME IInv, CreateFails \/ CreateDenied
    PROVE  IInv'
<1>1. PICK d : d = nd["O"] /\ Fields(d)
  BY Nodes DEF IInv, Shape
<1>2. d.conds = {} /\ "create" \in d.tasks
  BY <1>1 DEF CreateFails, CreateDenied, CanCreate, IInv, Begun
<1>3. PICK f : f = Created(d) /\ Fields(f) /\ f.conds = d.conds /\ f.paid = d.paid /\ f.active = d.active /\ f.out.st # "none"
  BY <1>1, CreatedIs
<1>4. PICK g : g = Drop(f, "create") /\ Fields(g) /\ g.conds = d.conds /\ g.paid = d.paid /\ g.active = d.active /\ g.out = f.out
  BY <1>3, DropIs
<1>5. PICK h : h = [g EXCEPT !.out.st = "wantremove"]
  OBVIOUS
<1>6. Fields(h) /\ h.conds = d.conds /\ h.paid = d.paid /\ h.active = d.active /\ h.out.st = "wantremove"
  BY <1>4, <1>5 DEF Fields
<1>7. Keeps(f, d) /\ Keeps(g, d) /\ Keeps(h, d)
  BY <1>2, <1>3, <1>4, <1>6 DEF Keeps
<1>8. PICK e : e \in {f, g, h} /\ nd' = [nd EXCEPT !["O"] = e]
  BY <1>1, <1>3, <1>4, <1>5, Nodes DEF CreateFails, CreateDenied, IInv, Shape
<1>9. /\ hedge' \in [open : BOOLEAN, close : BOOLEAN] /\ hedge'.close = hedge.close /\ (hedge.open => hedge'.open)
      /\ UNCHANGED <<price, got, half>>
  BY DEF CreateFails, CreateDenied, IInv, Shape
<1>10. QED
  BY <1>1, <1>2, <1>7, <1>8, <1>9, OpenerQuiet

\* A accepts: it has the pair, and its hedge is open.
LEMMA AcceptCreateStep ==
    ASSUME IInv, AcceptCreate
    PROVE  IInv'
<1>1. PICK c, d : c = nd["O"] /\ d = nd["A"] /\ Fields(c) /\ Fields(d)
  BY Nodes DEF IInv, Shape
<1>2. "create" \in c.tasks /\ half.type = "none" /\ d.active
  BY <1>1 DEF AcceptCreate, CanCreate, Free, NoHalf
<1>3. c.conds = {} /\ d.out.st = "none" /\ ~hedge.close /\ c.paid = d.paid
  BY <1>1, <1>2 DEF IInv, Begun, Exchange
<1>4. PICK e : e = Created(c) /\ Fields(e) /\ e.conds = {} /\ e.paid = d.paid /\ e.out.st # "none"
  BY <1>1, <1>3, CreatedIs
<1>5. PICK f : /\ f = Pair(d, "active") /\ Fields(f) /\ f.paid = d.paid /\ f.active = d.active
               /\ f.out.st = "active" /\ f.in.st = "active"
  BY <1>1, PairIs
<1>6. PICK x, y : nd' = [nd EXCEPT !["O"] = e, !["A"] = [f EXCEPT !.conds = Node, !.born = x, !.mon = y]]
  BY <1>1, <1>4, <1>5, Nodes DEF AcceptCreate, IInv, Shape, Fields
<1>7. PICK g : g = [f EXCEPT !.conds = Node, !.born = x, !.mon = y]
  OBVIOUS
<1>8. Fields(g) /\ g.conds = Node /\ g.paid = d.paid /\ g.active = d.active /\ g.out.st = "active" /\ g.in.st = "active"
  BY <1>5, <1>7 DEF Fields
<1>9. DOMAIN nd' = Node /\ nd' = [n \in Node |-> nd'[n]] /\ nd'["O"] = e /\ nd'["A"] = g
  <2>1. nd' = [nd EXCEPT !["O"] = e, !["A"] = g]
    BY <1>6, <1>7
  <2>2. QED
    BY <2>1, Nodes DEF IInv, Shape
<1>10. /\ half' = [by |-> "O", type |-> "add", res |-> NoRes, lost |-> FALSE]
       /\ hedge' \in [open : BOOLEAN, close : BOOLEAN] /\ ~hedge'.close /\ (Hedging => hedge'.open)
  BY <1>3, DerivativesAssumption DEF AcceptCreate, Half, IInv, Shape
<1>11. price' = price /\ got' = got
  BY DEF AcceptCreate
<1>12. Shape' /\ Known'
  BY <1>4, <1>8, <1>9, <1>10, <1>11 DEF IInv, Shape, Known, now, Node
<1>13. Exchange'
  <2>1. \A n \in Node : nd'[n].conds \in {{}, Node}
    BY <1>4, <1>8, <1>9 DEF Node
  <2>2. QED
    BY <1>4, <1>8, <1>9, <1>10, <2>1 DEF Exchange
<1>14. Begun' /\ HedgeFollows'
  BY <1>2, <1>4, <1>8, <1>9, <1>10, Nodes DEF Begun, HedgeFollows
<1>15. Tracked'
  BY <1>4, <1>8, <1>9 DEF Tracked, Node
<1>16. QED
  BY <1>12, <1>13, <1>14, <1>15 DEF IInv

-----------------------------------------------------------------------------
(* The agreements.                                                         *)

\* The party agrees to a close: it has the debts the proposer will have.
LEMMA AcceptCloseStep ==
    ASSUME IInv, NEW n \in Node, AcceptClose(n)
    PROVE  IInv'
<1>0. PICK m \in Node : m = Peer(n) /\ m # n /\ n = Peer(m) /\ \A k \in Node : k \in {m, n}
  BY Nodes DEF Node, Peer
<1>1. PICK c, d : c = nd[n] /\ d = nd[m] /\ Fields(c) /\ Fields(d)
  BY DEF IInv, Shape
<1>2. PICK r : r = nd[n].in.res
  OBVIOUS
<1>3. half.type = "none" /\ m \in c.conds
  BY <1>0, <1>1 DEF AcceptClose, Free, NoHalf, CanClose
<1>4. c.conds = Node /\ d.conds = Node /\ c.paid = d.paid
  BY <1>0, <1>1, <1>3 DEF IInv, Exchange, Node, Peer
<1>5. r.at \in 1 .. now
  BY <1>2 DEF AcceptClose, CanClose, Valid, IInv, Known
<1>6. PICK f : f = Settled(d, m, r) /\ Fields(f) /\ f.conds = {} /\ f.active = d.active /\ f.tasks = d.tasks
  BY <1>1, SettledIs
<1>7. PICK e : /\ e = Pair(f, "closed") /\ Fields(e) /\ e.conds = {} /\ e.paid = f.paid /\ e.active = d.active
               /\ e.tasks = d.tasks /\ e.out.st = "closed" /\ e.in.st = "closed"
  BY <1>6, PairIs
<1>8. nd' = [nd EXCEPT ![m] = e]
  BY <1>0, <1>1, <1>2, <1>6, <1>7 DEF AcceptClose, IInv, Shape
<1>9. DOMAIN nd' = Node /\ nd' = [k \in Node |-> nd'[k]] /\ nd'[m] = e /\ nd'[n] = c
  BY <1>0, <1>1, <1>8 DEF IInv, Shape
<1>10. half' = [by |-> n, type |-> "exec", res |-> r, lost |-> FALSE] /\ price' = price /\ got' = got
  BY <1>2 DEF AcceptClose, Half
<1>11. hedge' \in [open : BOOLEAN, close : BOOLEAN] /\ hedge'.open = hedge.open
       /\ hedge'.close = (hedge.close \/ (m = "A" /\ Hedging))
  BY <1>0, DerivativesAssumption DEF AcceptClose, HedgeClose, IInv, Shape
<1>12. Shape' /\ Known'
  <2>1. \A k \in Node : Fields(nd'[k])
    BY <1>0, <1>1, <1>7, <1>9
  <2>2. QED
    BY <1>9, <1>10, <1>11, <2>1 DEF IInv, Shape, Known, now
<1>13. Exchange'
  <2>1. \A k \in Node : nd'[k].conds \in {{}, Node}
    BY <1>0, <1>4, <1>7, <1>9
  <2>2. e.paid = Settled(c, m, r).paid
    BY <1>1, <1>4, <1>6, <1>7, SameSettlement
  <2>3. Settled(c, m, r)'.paid = Settled(c, m, r).paid
    BY <1>1, <1>10, LaterSettlement
  <2>4. Settled(nd[n], Peer(n), half.res)' = Settled(c, m, r)'
    BY <1>0, <1>9, <1>10 DEF Settled
  <2>5. half'.res.at \in 1 .. now'
    BY <1>5, <1>10 DEF now
  <2>6. half'.type = "exec" /\ half'.by = n
    BY <1>10
  <2>7. nd'[Peer(n)].conds = {} /\ nd'[n].conds = Node /\ nd'[Peer(n)].paid = e.paid
    BY <1>0, <1>4, <1>7, <1>9
  <2>8. QED
    BY <2>1, <2>2, <2>3, <2>4, <2>5, <2>6, <2>7 DEF Exchange
<1>14. nd["A"].out.st # "none" /\ "create" \notin nd["O"].tasks /\ nd["O"].out.st # "none"
  BY <1>0, <1>1, <1>4, Nodes DEF IInv, Begun, Node
<1>15. Begun'
  <2>1. /\ nd'["A"].out.st # "none" /\ nd'["O"].out.st # "none"
        /\ nd'["O"].tasks = nd["O"].tasks
    <3>1. nd'[m].out.st = "closed" /\ nd'[m].tasks = nd[m].tasks /\ nd'[n] = nd[n]
      BY <1>1, <1>7, <1>9
    <3>2. (n = "O" /\ m = "A") \/ (n = "A" /\ m = "O")
      BY <1>0 DEF Node, Peer
    <3>3. QED
      BY <1>14, <3>1, <3>2
  <2>2. QED
    BY <1>14, <2>1 DEF Begun
<1>16. Tracked'
  BY <1>0, <1>1, <1>7, <1>9 DEF IInv, Tracked
<1>17. HedgeFollows'
  <2>1. CASE m = "A"
    BY <1>7, <1>9, <1>11, <1>14, <2>1 DEF IInv, HedgeFollows
  <2>2. CASE n = "A"
    BY <1>0, <1>1, <1>9, <1>11, <2>2 DEF IInv, HedgeFollows, Shape
  <2>3. QED
    BY <1>0, <2>1, <2>2, Nodes
<1>18. QED
  BY <1>12, <1>13, <1>15, <1>16, <1>17 DEF IInv

\* The party agrees to a removal.
LEMMA AcceptRemoveStep ==
    ASSUME IInv, NEW n \in Node, AcceptRemove(n)
    PROVE  IInv'
<1>0. PICK m \in Node : m = Peer(n) /\ m # n /\ n = Peer(m) /\ \A k \in Node : k \in {m, n}
  BY Nodes DEF Node, Peer
<1>1. PICK c : c = Refreshed(n) /\ KeepsAll(c, nd[n]) /\ Fields(c)
  BY RefreshedKeeps DEF IInv, KeepsAll, Keeps
<1>2. PICK d : d = Refreshed(m) /\ KeepsAll(d, nd[m]) /\ Fields(d) /\ d.tasks = nd[m].tasks /\ d.out = nd[m].out
  BY RefreshedKeeps DEF IInv, KeepsAll, Keeps
<1>3. half.type = "none" /\ m \in nd[m].conds
  BY <1>0 DEF AcceptRemove, Free, NoHalf
<1>4. nd[n].conds = Node /\ nd[m].conds = Node /\ nd[n].paid = nd[m].paid
  BY <1>0, <1>3 DEF IInv, Exchange, Node, Peer
<1>5. PICK e : e = [d EXCEPT !.conds = {}]
  OBVIOUS
<1>6. Fields(e) /\ e.conds = {} /\ e.paid = d.paid /\ e.active = d.active /\ e.tasks = d.tasks /\ e.out = d.out
  BY <1>2, <1>5 DEF Fields
<1>7. nd' = [nd EXCEPT ![n] = c, ![m] = e]
  BY <1>0, <1>1, <1>2, <1>5 DEF AcceptRemove
<1>8. DOMAIN nd' = Node /\ nd' = [k \in Node |-> nd'[k]] /\ nd'[m] = e /\ nd'[n] = c
  BY <1>0, <1>7 DEF IInv, Shape
<1>9. half' = [by |-> n, type |-> "rem", res |-> NoRes, lost |-> FALSE] /\ price' = price /\ got' = got
  BY DEF AcceptRemove, Half
<1>10. hedge' \in [open : BOOLEAN, close : BOOLEAN] /\ hedge'.open = hedge.open
       /\ hedge'.close = (hedge.close \/ (m = "A" /\ Hedging))
  BY <1>0, DerivativesAssumption DEF AcceptRemove, HedgeClose, IInv, Shape
<1>11. Shape' /\ Known'
  <2>1. \A k \in Node : Fields(nd'[k])
    BY <1>0, <1>1, <1>6, <1>8
  <2>2. QED
    BY <1>8, <1>9, <1>10, <2>1 DEF IInv, Shape, Known, now
<1>12. c.conds = Node /\ c.paid = nd[n].paid /\ c.active = nd[n].active /\ e.paid = nd[m].paid /\ e.active = nd[m].active
  BY <1>1, <1>2, <1>4, <1>6 DEF KeepsAll, Keeps
<1>13. Exchange'
  <2>1. \A k \in Node : nd'[k].conds \in {{}, Node}
    BY <1>0, <1>6, <1>8, <1>12
  <2>2. nd'["O"].paid = nd'["A"].paid
    BY <1>0, <1>4, <1>8, <1>12, Nodes
  <2>3. nd'[Peer(n)].conds = {} /\ nd'[n].conds = Node /\ half'.type = "rem" /\ half'.by = n
    BY <1>0, <1>6, <1>8, <1>9, <1>12
  <2>4. QED
    BY <2>1, <2>2, <2>3 DEF Exchange
<1>14. nd["A"].out.st # "none" /\ "create" \notin nd["O"].tasks /\ nd["O"].out.st # "none"
  BY <1>0, <1>4, Nodes DEF IInv, Begun, Node
<1>15. Begun'
  <2>1. nd'[n].out.st # "none" /\ nd'[m].out.st # "none"
    BY <1>0, <1>1, <1>2, <1>6, <1>8, <1>14, Nodes DEF KeepsAll, Keeps
  <2>2. "create" \notin nd'["O"].tasks
    BY <1>0, <1>1, <1>2, <1>6, <1>8, <1>14, Nodes DEF KeepsAll
  <2>3. QED
    BY <1>0, <2>1, <2>2, Nodes DEF Begun
<1>16. Tracked'
  <2>1. nd[n].active => {nd[n].out.st, nd[n].in.st} \subseteq {"active", "wantclose"}
    BY <1>4, Nodes DEF IInv, Tracked
  <2>2. c.active => {c.out.st, c.in.st} \subseteq {"active", "wantclose"}
    BY <1>1, <1>12, <2>1, Nodes DEF KeepsAll, Keeps
  <2>3. QED
    BY <1>0, <1>6, <1>8, <2>2 DEF Tracked
<1>17. HedgeFollows'
  <2>1. CASE m = "A"
    BY <1>6, <1>8, <1>10, <1>14, <2>1 DEF IInv, HedgeFollows
  <2>2. CASE n = "A"
    BY <1>0, <1>4, <1>8, <1>10, <1>12, <1>14, <2>2, Nodes DEF IInv, HedgeFollows, Shape
  <2>3. QED
    BY <1>0, <2>1, <2>2, Nodes
<1>18. QED
  BY <1>11, <1>13, <1>15, <1>16, <1>17 DEF IInv

-----------------------------------------------------------------------------
(* The answer, and the end of the channel.                                 *)

\* The answer is saved: both nodes have the same pair and the same debts.
LEMMA ConfirmStep ==
    ASSUME IInv, NEW n \in Node, Confirm(n)
    PROVE  IInv'
<1>0. PICK m \in Node : m = Peer(n) /\ m # n /\ n = Peer(m) /\ \A k \in Node : k \in {m, n}
  BY Nodes DEF Node, Peer
<1>1. PICK d : d = nd[n] /\ Fields(d)
  BY DEF IInv, Shape
<1>2. half.by = n /\ half.type \in {"add", "exec", "rem"} /\ half' = NoHalf /\ price' = price /\ got' = got
  BY DEF Confirm
<1>3. nd["A"].out.st # "none" /\ nd["O"].out.st # "none"
  BY <1>2 DEF IInv, Begun
<1>4. NoHalf = [by |-> "O", type |-> "none", res |-> NoRes, lost |-> FALSE]
  BY DEF NoHalf
<1>5. ASSUME NEW e, Fields(e), nd' = [nd EXCEPT ![n] = e], e.conds = nd[m].conds, e.paid = nd[m].paid,
             e.out.st # "none", n = "O" => "create" \notin e.tasks,
             e.active /\ e.conds # {} => {e.out.st, e.in.st} \subseteq {"active", "wantclose"}
      PROVE  /\ DOMAIN nd' = Node /\ nd'[n] = e /\ nd'[m] = nd[m]
             /\ Exchange' /\ Known' /\ Tracked' /\ Begun'
             /\ hedge' \in [open : BOOLEAN, close : BOOLEAN] => Shape'
  <2>1. DOMAIN nd' = Node /\ nd' = [k \in Node |-> nd'[k]] /\ nd'[m] = nd[m] /\ nd'[n] = e
    BY <1>0, <1>5 DEF IInv, Shape
  <2>2. \A k \in Node : Fields(nd'[k])
    BY <1>0, <1>5, <2>1 DEF IInv, Shape
  <2>3. hedge' \in [open : BOOLEAN, close : BOOLEAN] => Shape'
    BY <1>2, <1>4, <2>1, <2>2, Nodes DEF IInv, Shape
  <2>4. Known'
    BY <1>2 DEF IInv, Known, now
  <2>5. \A k \in Node : nd'[k].conds \in {{}, Node}
    BY <1>0, <1>5, <2>1 DEF IInv, Exchange
  <2>6. nd'["O"].conds = nd'["A"].conds /\ nd'["O"].paid = nd'["A"].paid
    BY <1>0, <1>5, <2>1, Nodes
  <2>7. Exchange'
    BY <1>2, <1>4, <2>5, <2>6 DEF Exchange
  <2>8. Tracked'
    BY <1>0, <1>5, <2>1 DEF IInv, Tracked
  <2>9. Begun'
    <3>1. nd'["A"].out.st # "none" /\ nd'["O"].out.st # "none"
      BY <1>0, <1>3, <1>5, <2>1, Nodes
    <3>2. "create" \notin nd'["O"].tasks
      <4>1. CASE n = "O"
        BY <1>5, <2>1, <4>1
      <4>2. CASE n = "A"
        <5>1. half.type # "add"
          BY <1>2, <4>2 DEF IInv, Exchange
        <5>2. QED
          BY <1>0, <1>3, <2>1, <4>2, <5>1, Nodes DEF IInv, Begun
      <4>3. QED
        BY <4>1, <4>2 DEF Node
    <3>3. QED
      BY <3>1, <3>2 DEF Begun
  <2>10. QED
    BY <2>1, <2>3, <2>4, <2>7, <2>8, <2>9
<1>6. ASSUME NEW e, nd'[n] = e, nd'[m] = nd[m], e.conds = {}, HedgeClose(n)
      PROVE  HedgeFollows' /\ hedge' \in [open : BOOLEAN, close : BOOLEAN]
  <2>1. hedge' \in [open : BOOLEAN, close : BOOLEAN] /\ hedge'.open = hedge.open
        /\ hedge'.close = (hedge.close \/ (n = "A" /\ Hedging))
    BY <1>6, DerivativesAssumption DEF HedgeClose, IInv, Shape
  <2>2. CASE n = "A"
    BY <1>3, <1>6, <2>1, <2>2 DEF IInv, HedgeFollows
  <2>3. CASE m = "A"
    BY <1>0, <1>6, <2>1, <2>3 DEF IInv, HedgeFollows, Shape
  <2>4. QED
    BY <1>0, <2>1, <2>2, <2>3, Nodes
<1>7. CASE half.type = "add"
  <2>1. n = "O" /\ m = "A" /\ nd[m].conds = Node /\ d.paid = nd[m].paid
    BY <1>0, <1>1, <1>2, <1>7, Nodes DEF IInv, Exchange
  <2>2. PICK f : /\ f = Pair(d, "active") /\ Fields(f) /\ f.paid = d.paid /\ f.active = d.active
                 /\ f.out.st = "active" /\ f.in.st = "active"
    BY <1>1, PairIs
  <2>3. PICK g : g = Drop(f, "create") /\ Fields(g) /\ g.paid = f.paid /\ g.tasks = f.tasks \ {"create"} /\ g.out = f.out /\ g.in = f.in
    BY <2>2, DropIs
  <2>4. PICK e : e = [g EXCEPT !.conds = Node]
    OBVIOUS
  <2>5. /\ Fields(e) /\ e.conds = Node /\ e.paid = d.paid /\ "create" \notin e.tasks
        /\ e.out.st = "active" /\ e.in.st = "active"
    BY <2>2, <2>3, <2>4 DEF Fields
  <2>6. nd' = [nd EXCEPT ![n] = e] /\ hedge' = hedge
    BY <1>1, <1>7, <2>2, <2>3, <2>4 DEF Confirm
  <2>7. /\ nd'[m] = nd[m] /\ Exchange' /\ Known' /\ Tracked' /\ Begun' /\ Shape'
    BY <1>5, <2>1, <2>5, <2>6 DEF IInv, Shape
  <2>8. HedgeFollows'
    BY <2>1, <2>6, <2>7 DEF IInv, HedgeFollows
  <2>9. QED
    BY <2>7, <2>8 DEF IInv
<1>8. CASE half.type = "exec"
  <2>1. PICK r : r = half.res
    OBVIOUS
  <2>2. nd[m].conds = {} /\ d.conds = Node /\ nd[m].paid = Settled(d, m, r).paid
    BY <1>0, <1>1, <1>2, <1>8, <2>1 DEF IInv, Exchange
  <2>3. PICK f : f = Settled(d, m, r) /\ Fields(f) /\ f.conds = {} /\ f.active = d.active /\ f.tasks = d.tasks
    BY <1>1, SettledIs
  <2>4. PICK g : g = Drop(f, "close") /\ Fields(g) /\ g.conds = {} /\ g.paid = f.paid /\ g.tasks = f.tasks \ {"close"}
    BY <2>3, DropIs
  <2>5. PICK e : e = Pair(g, "closed") /\ Fields(e) /\ e.conds = {} /\ e.paid = f.paid /\ e.tasks = g.tasks /\ e.out.st = "closed"
    BY <2>4, PairIs
  <2>6. nd' = [nd EXCEPT ![n] = e] /\ HedgeClose(n)
    BY <1>0, <1>1, <1>8, <2>1, <2>3, <2>4, <2>5 DEF Confirm
  <2>7. n = "O" => "create" \notin d.tasks
    BY <1>1, <1>3, <1>8, <2>2, Nodes DEF IInv, Begun
  <2>8. /\ nd'[n] = e /\ nd'[m] = nd[m] /\ Exchange' /\ Known' /\ Tracked' /\ Begun'
        /\ hedge' \in [open : BOOLEAN, close : BOOLEAN] => Shape'
    BY <1>5, <2>2, <2>3, <2>4, <2>5, <2>6, <2>7
  <2>9. QED
    BY <1>6, <2>5, <2>6, <2>8 DEF IInv
<1>9. CASE half.type = "rem"
  <2>1. nd[m].conds = {} /\ d.conds = Node /\ nd[m].paid = d.paid
    BY <1>0, <1>1, <1>2, <1>9, Nodes DEF IInv, Exchange
  <2>2. PICK g : /\ g = Drop(d, "remove") /\ Fields(g) /\ g.paid = d.paid /\ g.tasks = d.tasks \ {"remove"}
                 /\ g.out = d.out
    BY <1>1, DropIs
  <2>3. PICK e : e = [g EXCEPT !.conds = {}, !.in.st = "wantremove"]
    OBVIOUS
  <2>4. Fields(e) /\ e.conds = {} /\ e.paid = d.paid /\ e.tasks = g.tasks /\ e.out = d.out
    BY <2>2, <2>3 DEF Fields
  <2>5. nd' = [nd EXCEPT ![n] = e] /\ HedgeClose(n)
    BY <1>0, <1>1, <1>9, <2>2, <2>3 DEF Confirm
  <2>6. d.out.st # "none" /\ (n = "O" => "create" \notin d.tasks)
    BY <1>0, <1>1, <1>3, <1>9, <2>1, Nodes DEF IInv, Begun
  <2>7. /\ nd'[n] = e /\ nd'[m] = nd[m] /\ Exchange' /\ Known' /\ Tracked' /\ Begun'
        /\ hedge' \in [open : BOOLEAN, close : BOOLEAN] => Shape'
    BY <1>5, <2>1, <2>2, <2>4, <2>5, <2>6
  <2>8. QED
    BY <1>6, <2>4, <2>5, <2>7 DEF IInv
<1>10. QED
  BY <1>2, <1>7, <1>8, <1>9

\* The channel becomes inactive on a node.
LEMMA InactiveStep ==
    ASSUME IInv, NEW n \in Node, Inactive(n)
    PROVE  IInv'
<1>1. PICK d : d = nd[n] /\ Fields(d)
  BY DEF IInv, Shape
<1>2. PICK f : f = [d EXCEPT !.active = FALSE]
  OBVIOUS
<1>3. Fields(f) /\ f.conds = d.conds /\ f.paid = d.paid /\ ~f.active /\ f.out = d.out /\ f.tasks = d.tasks
  BY <1>1, <1>2 DEF Fields
<1>4. PICK st \in {"closed", "removed"} : st = IF d.out.res # NoRes \/ d.in.res # NoRes THEN "closed" ELSE "removed"
  OBVIOUS
<1>5. PICK e : e = Final(d)
  OBVIOUS
<1>6. e = f \/ (e = Pair(f, st) /\ d.conds # {})
  BY <1>2, <1>4, <1>5 DEF Final
<1>7. /\ Fields(e) /\ e.conds = d.conds /\ e.paid = d.paid /\ ~e.active /\ e.tasks = d.tasks
      /\ e.out.st = d.out.st \/ (d.conds # {} /\ e.out.st = st)
  BY <1>3, <1>6, PairIs
<1>8. Keeps(e, d)
  BY <1>4, <1>7 DEF Keeps
<1>9. nd' = [nd EXCEPT ![n] = e]
  BY <1>1, <1>5 DEF Inactive
<1>10. DOMAIN nd' = Node /\ nd' = [m \in Node |-> nd'[m]] /\ nd'[n] = e /\ \A m \in Node : m # n => nd'[m] = nd[m]
  BY <1>9 DEF IInv, Shape
<1>11. \A m \in Node : Keeps(nd'[m], nd[m])
  BY <1>1, <1>8, <1>10, KeepsSame DEF IInv, Shape, KeepsAll
<1>12. /\ hedge' \in [open : BOOLEAN, close : BOOLEAN] /\ hedge'.open = hedge.open
       /\ hedge'.close = (hedge.close \/ (n = "A" /\ Hedging /\ d.conds # {}))
  BY <1>1, DerivativesAssumption DEF Inactive, HedgeClose, IInv, Shape
<1>13. nd["A"].out.st = "none" => nd'["A"].out.st = "none" /\ hedge'.close = hedge.close
  <2>1. CASE n = "A"
    BY <1>1, <1>7, <1>10, <1>12, <2>1 DEF IInv, Begun, Shape
  <2>2. CASE n # "A"
    BY <1>10, <1>12, <2>2, Nodes DEF IInv, Shape
  <2>3. QED
    BY <2>1, <2>2
<1>14. nd'["O"].tasks = nd["O"].tasks
  BY <1>1, <1>7, <1>10, Nodes
<1>15. Elapses
  BY Clock DEF Inactive, IInv, Shape, Elapses, now
<1>16. \A k \in Node : got'[k] \subseteq 1 .. now'
  BY DEF Inactive, IInv, Known, now
<1>17. Quiet
  BY <1>10, <1>11, <1>12, <1>13, <1>14, <1>15, <1>16 DEF Quiet, Inactive, IInv, Shape
<1>18. HedgeFollows'
  <2>1. CASE n = "A"
    BY <1>1, <1>7, <1>10, <1>12, <1>13, <2>1 DEF IInv, HedgeFollows, Begun, Shape
  <2>2. CASE n # "A"
    <3>1. nd'["A"] = nd["A"] /\ hedge'.close = hedge.close
      BY <1>10, <1>12, <2>2, Nodes DEF IInv, Shape
    <3>2. QED
      BY <1>17, <3>1, QuietHedge
  <2>3. QED
    BY <2>1, <2>2
<1>19. QED
  BY <1>17, <1>18, QuietStep DEF IInv


-----------------------------------------------------------------------------
(* The theorems.                                                           *)

\* The invariant holds of every state: of the first, and after each step.
THEOREM Inductive == Spec => []IInv
<1>1. Init => IInv
  <2> SUFFICES ASSUME Init
               PROVE  IInv
    OBVIOUS
  <2>1. price \in Seq(Prices) /\ now = 0
    BY DEF Init, now
  <2>2. PICK d : /\ \A n \in Node : nd[n] = d
                 /\ d = [conds |-> {}, paid |-> [s \in Node |-> 0], out |-> NoMeta, in |-> NoMeta, born |-> 0,
                         mon |-> NoMon, hedged |-> FALSE, active |-> TRUE, tasks |-> {}]
    BY DEF Init
  <2>3. Fields(d)
    BY <2>2 DEF Fields, NoMeta
  <2>4. d.conds = {} /\ d.active /\ "create" \notin d.tasks /\ d.out.st = "none"
    BY <2>2 DEF NoMeta
  <2>5. half.type = "none" /\ half = [by |-> half.by, type |-> half.type, res |-> half.res, lost |-> half.lost] /\ half.by = "O"
    BY DEF Init, NoHalf
  <2>6. Shape
    BY <2>1, <2>2, <2>3, <2>5, Nodes DEF Init, Shape
  <2>7. Known
    BY DEF Init, Known
  <2>8. Exchange
    BY <2>2, <2>4, <2>5, Nodes DEF Exchange
  <2>9. Begun /\ Tracked /\ HedgeFollows
    BY <2>2, <2>4, <2>5, Nodes DEF Init, Begun, Tracked, HedgeFollows
  <2>10. QED
    BY <2>6, <2>7, <2>8, <2>9 DEF IInv
<1>2. IInv /\ [Next]_vars => IInv'
  <2> SUFFICES ASSUME IInv, [Next]_vars
               PROVE  IInv'
    OBVIOUS
  <2>1. CASE Tick \/ SetHedged \/ Lose \/ OpenPosition \/ CreateFails \/ CreateDenied \/ AcceptCreate
    BY <2>1, TickStep, SetHedgedStep, LoseStep, OpenPositionStep, CreateFailsStep, AcceptCreateStep
  <2>2. ASSUME NEW n \in Node, NodeStep(n)
        PROVE  IInv'
    BY <2>2, FetchStep, WatchStep, AskCloseStep, AskCancelStep, CloseDoneStep, AcceptCloseStep, RemoveDoneStep,
       AcceptRemoveStep, DenyRemoveStep, ResendStep, ConfirmStep, UncoopStep, InactiveStep DEF NodeStep
  <2>3. CASE UNCHANGED vars
    <3>1. \A n \in Node : KeepsAll(nd'[n], nd[n])
      BY <2>3, KeepsSame DEF vars, IInv, Shape
    <3>2. QED
      BY <2>3, <3>1, BothQuiet DEF vars, IInv, Shape
  <2>4. QED
    BY <2>1, <2>2, <2>3 DEF Next
<1>3. QED
  BY <1>1, <1>2, PTL DEF Spec

\* The two linked conditionals are in the signed state together or not at all, and unless an
\* answer is on its way both nodes have the same pair and the same debts: whatever the prices,
\* the losses of answers and the order of closes, cancels and liquidations.
THEOREM PairWholeHolds == Spec => []PairWhole
<1>1. IInv => PairWhole
  BY DEF IInv, Exchange, PairWhole, Free, NoHalf
<1>2. QED
  BY <1>1, Inductive, PTL

\* No meta says of a pair in the signed state of an active channel that it is over.
THEOREM TrackedHolds == Spec => []Tracked
<1>1. IInv => Tracked
  BY DEF IInv
<1>2. QED
  BY <1>1, Inductive, PTL

\* The hedge of an accepted position is open, and told to close exactly when the position is over.
THEOREM HedgeFollowsHolds == Spec => []HedgeFollows
<1>1. IInv => HedgeFollows
  BY DEF IInv
<1>2. QED
  BY <1>1, Inductive, PTL


-----------------------------------------------------------------------------
(* The price monitor, and cancelling.                                      *)

\* A set of numbers has a least one.
LEMMA Least ==
    ASSUME NEW S \in SUBSET Nat, S # {}
    PROVE  \E x \in S : \A y \in S : x <= y
<1>1. IsWellFoundedOn({ss \in Nat \X Nat : ss[1] < ss[2]}, Nat)
  BY NatLessThanWellFounded, Zenon DEF OpToRel
<1>2. PICK x \in S : \A y \in S : ~(<<y, x>> \in {ss \in Nat \X Nat : ss[1] < ss[2]})
  BY <1>1, WFMin, Zenon
<1>3. \A y \in S : ~(y < x)
  BY <1>2
<1>4. QED
  BY <1>3

\* A bounded set of numbers has a greatest one.
LEMMA Greatest ==
    ASSUME NEW S \in SUBSET Nat, S # {}, NEW b \in Nat, \A y \in S : y <= b
    PROVE  \E x \in S : \A y \in S : x >= y
<1> DEFINE T == {b - y : y \in S}
<1>1. T \in SUBSET Nat /\ T # {}
  OBVIOUS
<1>2. PICK z \in T : \A w \in T : z <= w
  BY <1>1, Least
<1>3. PICK x \in S : z = b - x
  BY <1>2
<1>4. ASSUME NEW y \in S
      PROVE  x >= y
  <2>1. z <= b - y
    BY <1>2
  <2>2. QED
    BY <1>3, <2>1
<1>5. QED
  BY <1>4

\* What Low is.
LEMMA LowIs ==
    ASSUME NEW S \in SUBSET Nat
    PROVE  /\ Low(S) \in Nat
           /\ S # {} => Low(S) \in S /\ \A y \in S : Low(S) <= y
<1>1. CASE S = {}
  BY <1>1 DEF Low
<1>2. CASE S # {}
  <2>1. \E x \in S : \A y \in S : x =< y
    BY <1>2, Least
  <2>2. Min(S) \in S /\ \A y \in S : Min(S) =< y
    BY <2>1 DEF Min
  <2>3. QED
    BY <1>2, <2>2 DEF Low
<1>3. QED
  BY <1>1, <1>2

\* What High is, of numbers with a bound.
LEMMA HighIs ==
    ASSUME NEW S \in SUBSET Nat, NEW b \in Nat, \A y \in S : y <= b
    PROVE  /\ High(S) \in Nat
           /\ S # {} => High(S) \in S /\ \A y \in S : High(S) >= y
<1>1. CASE S = {}
  BY <1>1 DEF High
<1>2. CASE S # {}
  <2>1. \E x \in S : \A y \in S : x >= y
    BY <1>2, Greatest
  <2>2. Max(S) \in S /\ \A y \in S : Max(S) >= y
    BY <2>1 DEF Max
  <2>3. QED
    BY <1>2, <2>2 DEF High
<1>3. QED
  BY <1>1, <1>2

\* The prices so far have a bound: by induction over the seconds, as the least second up to
\* which they had none.
LEMMA PricesBounded ==
    ASSUME Shape
    PROVE  \E b \in Nat : \A t \in 1 .. now : price[t] \in Nat /\ price[t] <= b
<1> DEFINE Bounded(k) == \E b \in Nat : \A t \in 1 .. k : price[t] <= b
           S == {k \in Nat : k <= now /\ ~Bounded(k)}
<1>0. now \in Nat /\ \A t \in 1 .. now : price[t] \in Nat
  BY Clock, DerivativesAssumption DEF Shape, now
<1>1. ASSUME S # {}
      PROVE  FALSE
  <2>1. S \in SUBSET Nat
    OBVIOUS
  <2>2. PICK k \in S : \A j \in S : k <= j
    <3> HIDE DEF S
    <3> QED
      BY <1>1, <2>1, Least
  <2>3. k \in Nat /\ k <= now /\ ~Bounded(k)
    OBVIOUS
  <2>4. k # 0
    <3>1. Bounded(0)
      OBVIOUS
    <3>2. QED
      BY <2>3, <3>1
  <2>5. k - 1 \in Nat /\ k - 1 <= now /\ ~(k <= k - 1)
    BY <1>0, <2>3, <2>4
  <2>6. k - 1 \notin S
    BY <2>2, <2>5
  <2>7. Bounded(k - 1)
    BY <2>5, <2>6
  <2>8. PICK b \in Nat : \A t \in 1 .. (k - 1) : price[t] <= b
    BY <2>7
  <2>9. price[k] \in Nat
    BY <1>0, <2>3, <2>4
  <2>10. PICK c \in Nat : c >= b /\ c >= price[k]
    BY <2>9
  <2>11. \A t \in 1 .. k : price[t] <= c
    <3> SUFFICES ASSUME NEW t \in 1 .. k
                 PROVE  price[t] <= c
      OBVIOUS
    <3>1. CASE t = k
      BY <2>10, <3>1
    <3>2. CASE t # k
      <4>1. t \in 1 .. (k - 1) /\ t \in 1 .. now
        BY <1>0, <2>3, <3>2
      <4>2. price[t] \in Nat /\ price[t] <= b
        BY <1>0, <2>8, <4>1
      <4>3. QED
        BY <2>10, <4>2
    <3>3. QED
      BY <3>1, <3>2
  <2>12. QED
    BY <2>3, <2>10, <2>11
<1>2. Bounded(now)
  <2>1. ASSUME ~Bounded(now)
        PROVE  FALSE
    <3>1. now \in S
      BY <1>0, <2>1
    <3>2. QED
      BY <1>1, <3>1
  <2>2. QED
    BY <2>1
<1>3. QED
  BY <1>0, <1>2

\* What the monitor of node n, with record m, has seen of an order of second b, unless the
\* price history had a gap: every second of the cache up to its last check, and no second
\* the cache may still be missing.
Seen(n, b, m) ==
    /\ b \in Nat
    /\ m = [last |-> m.last, min |-> m.min, max |-> m.max, crossed |-> m.crossed, liq |-> m.liq, old |-> m.old]
    /\ m.last \in Int /\ m.min \in Nat /\ m.max \in Nat /\ m.old \in BOOLEAN
    /\ ~m.old => /\ m.last <= 0 \/ m.last < b \/ \E u \in got[n] : m.last <= u
                 /\ \A t \in got[n] : b <= t /\ t <= m.last =>
                        m.min # 0 /\ m.min <= price[t] /\ price[t] <= m.max

Watched == \A n \in Node : Seen(n, nd[n].born, nd[n].mon)

\* The cache of a provider that fills the missed seconds has no holes.
Filled == \A n \in Since : \A t \in got[n] : 1 .. t \subseteq got[n]

\* The prices since the order was accepted, as an inductive invariant beside IInv.
WInv == Watched /\ Filled

\* The latest second of a cache is in it.
LEMMA LatestIs ==
    ASSUME Shape, Known, NEW n \in Node, got[n] # {}
    PROVE  Latest(n) \in got[n] /\ Latest(n) \in Nat /\ \A t \in got[n] : t <= Latest(n)
<1>1. got[n] \in SUBSET Nat /\ now \in Nat /\ \A t \in got[n] : t <= now
  BY Clock DEF Shape, Known
<1>2. \E x \in got[n] : \A y \in got[n] : x >= y
  BY <1>1, Greatest
<1>3. Max(got[n]) \in got[n] /\ \A y \in got[n] : Max(got[n]) >= y
  BY <1>2 DEF Max
<1>4. Latest(n) = Max(got[n])
  BY DEF Latest
<1>5. QED
  BY <1>1, <1>3, <1>4

\* What the extremes of the monitor are after a check: S are the prices it looked at.
LEMMA Extremes ==
    ASSUME NEW S \in SUBSET (Nat \ {0}), NEW b \in Nat, \A y \in S : y <= b, NEW lo \in Nat, NEW hi \in Nat
    PROVE  LET l == Low(S \cup ({lo} \ {0}))
               h == High(S \cup ({hi} \ {0}))
           IN  /\ l \in Nat /\ h \in Nat
               /\ \A y \in S : l # 0 /\ l <= y /\ y <= h
               /\ lo # 0 => l # 0 /\ l <= lo
               /\ hi <= h
<1> DEFINE L == S \cup ({lo} \ {0})
           H == S \cup ({hi} \ {0})
<1>1. L \in SUBSET Nat /\ 0 \notin L /\ H \in SUBSET Nat
  OBVIOUS
<1>2. PICK c \in Nat : \A y \in H : y <= c
  <2>1. b + hi \in Nat /\ \A y \in H : y <= b + hi
    OBVIOUS
  <2>2. QED
    BY <2>1
<1>3. Low(L) \in Nat /\ (L # {} => Low(L) \in L /\ \A y \in L : Low(L) <= y)
  BY <1>1, LowIs
<1>4. High(H) \in Nat /\ (H # {} => High(H) \in H /\ \A y \in H : High(H) >= y)
  BY <1>1, <1>2, HighIs
<1>5. PICK l, h : l = Low(L) /\ h = High(H)
  OBVIOUS
<1>6. \A y \in S : l # 0 /\ l <= y /\ y <= h
  BY <1>1, <1>3, <1>4, <1>5
<1>7. lo # 0 => l # 0 /\ l <= lo
  BY <1>1, <1>3, <1>5
<1>8. hi <= h
  <2>1. CASE hi = 0
    BY <1>4, <1>5, <2>1
  <2>2. CASE hi # 0
    BY <1>4, <1>5, <2>2
  <2>3. QED
    BY <2>1, <2>2
<1>9. QED
  BY <1>3, <1>4, <1>5, <1>6, <1>7, <1>8

\* A check leaves the monitor with all that the cache has since the order, or with a gap.
LEMMA MonitorSees ==
    ASSUME Shape, Known, NEW n \in Node, Seen(n, nd[n].born, nd[n].mon)
    PROVE  /\ Seen(n, nd[n].born, Monitor(n))
           /\ ~Monitor(n).old => \A t \in got[n] : nd[n].born <= t =>
                Monitor(n).min # 0 /\ Monitor(n).min <= price[t] /\ price[t] <= Monitor(n).max
<1>1. PICK b, m : b = nd[n].born /\ m = nd[n].mon
  OBVIOUS
<1>2. /\ b \in Nat /\ m.last \in Int /\ m.min \in Nat /\ m.max \in Nat /\ m.old \in BOOLEAN
      /\ m = [last |-> m.last, min |-> m.min, max |-> m.max, crossed |-> m.crossed, liq |-> m.liq, old |-> m.old]
  BY <1>1 DEF Seen
<1>3. got[n] \in SUBSET Nat /\ now \in Nat /\ \A t \in got[n] : t \in 1 .. now
  BY Clock DEF Shape, Known
<1>4. PICK f \in Int : f = Max({m.last + 1, b}) /\ f >= b /\ f >= m.last + 1 /\ (f = b \/ f = m.last + 1)
  <2>1. \E x \in {m.last + 1, b} : \A y \in {m.last + 1, b} : x >= y
    BY <1>2
  <2>2. /\ Max({m.last + 1, b}) \in {m.last + 1, b}
        /\ \A y \in {m.last + 1, b} : Max({m.last + 1, b}) >= y
    BY <2>1 DEF Max
  <2>3. QED
    BY <1>2, <2>2
<1>5. PICK S : S = {price[t] : t \in {u \in got[n] : f <= u}}
  OBVIOUS
<1>6. PICK c \in Nat : \A t \in 1 .. now : price[t] \in Nat /\ price[t] <= c
  BY PricesBounded
<1>7. S \in SUBSET (Nat \ {0}) /\ \A y \in S : y <= c
  <2>1. \A t \in 1 .. now : price[t] \in Nat \ {0}
    BY Clock, DerivativesAssumption DEF Shape, now
  <2>2. QED
    BY <1>3, <1>5, <1>6, <2>1
<1>8. PICK lo, hi : lo = Low(S \cup ({m.min} \ {0})) /\ hi = High(S \cup ({m.max} \ {0}))
  OBVIOUS
<1>9. /\ lo \in Nat /\ hi \in Nat
      /\ \A y \in S : lo # 0 /\ lo <= y /\ y <= hi
      /\ m.min # 0 => lo # 0 /\ lo <= m.min
      /\ m.max <= hi
  BY <1>2, <1>7, <1>8, Extremes
<1>10. ~m.old => /\ m.last <= 0 \/ m.last < b \/ \E u \in got[n] : m.last <= u
                 /\ \A t \in got[n] : b <= t /\ t <= m.last => m.min # 0 /\ m.min <= price[t] /\ price[t] <= m.max
  BY <1>1 DEF Seen
<1>11. CASE got[n] = {} \/ Latest(n) < f
  <2>1. Monitor(n) = m
    BY <1>1, <1>4, <1>11 DEF Monitor
  <2>2. ASSUME NEW t \in got[n], b <= t
        PROVE  t <= m.last
    <3>1. t <= Latest(n) /\ Latest(n) < f /\ Latest(n) \in Nat /\ t \in Nat
      BY <1>3, <1>11, LatestIs
    <3>2. QED
      BY <1>2, <1>4, <2>2, <3>1
  <2>3. QED
    BY <1>1, <1>10, <2>1, <2>2
<1>12. CASE got[n] # {} /\ ~(Latest(n) < f)
  <2>1. Latest(n) \in got[n] /\ Latest(n) \in Nat /\ \A t \in got[n] : t <= Latest(n)
    BY <1>12, LatestIs
  <2>2. CASE Latest(n) - f >= Keep
    <3>1. Monitor(n) = [m EXCEPT !.old = TRUE, !.last = now]
      BY <1>1, <1>4, <1>12, <2>2 DEF Monitor
    <3>2. PICK k : k = Monitor(n)
      OBVIOUS
    <3>3. k = [last |-> now, min |-> m.min, max |-> m.max, crossed |-> m.crossed, liq |-> m.liq, old |-> TRUE]
      BY <1>2, <3>1, <3>2
    <3>4. Seen(n, b, k)
      BY <1>2, <1>3, <3>3 DEF Seen
    <3>5. QED
      BY <1>1, <3>2, <3>3, <3>4
  <2>3. CASE ~(Latest(n) - f >= Keep)
    <3>1. PICK x, y : Monitor(n) = [m EXCEPT !.min = lo, !.max = hi, !.last = Latest(n), !.crossed = x, !.liq = y]
      BY <1>1, <1>4, <1>5, <1>8, <1>12, <2>3 DEF Monitor
    <3>2. PICK k, L : k = Monitor(n) /\ L = Latest(n)
      OBVIOUS
    <3>3. k = [last |-> L, min |-> lo, max |-> hi, crossed |-> x, liq |-> y, old |-> m.old]
      BY <1>2, <3>1, <3>2
    <3>4. ASSUME ~m.old, NEW t \in got[n], b <= t
          PROVE  lo # 0 /\ lo <= price[t] /\ price[t] <= hi
      <4>1. CASE f <= t
        BY <1>5, <1>9, <4>1
      <4>2. CASE ~(f <= t)
        <5>1. t <= m.last
          BY <1>2, <1>3, <1>4, <3>4, <4>2
        <5>2. m.min # 0 /\ m.min <= price[t] /\ price[t] <= m.max
          BY <1>10, <3>4, <5>1
        <5>3. price[t] \in Nat
          BY <1>3, <1>6
        <5>4. QED
          BY <1>2, <1>9, <5>2, <5>3
      <4>3. QED
        BY <4>1, <4>2
    <3>5. Seen(n, b, k)
      BY <1>2, <1>9, <2>1, <3>2, <3>3, <3>4 DEF Seen
    <3>6. QED
      BY <1>1, <3>2, <3>3, <3>4, <3>5
  <2>4. QED
    BY <2>2, <2>3
<1>13. QED
  BY <1>11, <1>12

\* The record e of a node has the monitor and the order of d.
Same(e, d) == e.born = d.born /\ e.mon = d.mon

\* What a step other than Tick and Fetch does to the monitor of n: nothing, a check, or
\* the order begins.
Moves(n) ==
    \/ Same(nd'[n], nd[n])
    \/ nd'[n].born = nd[n].born /\ nd'[n].mon = Monitor(n)
    \/ nd'[n].born = now /\ nd'[n].mon = [nd[n].mon EXCEPT !.last = now - 1] /\ CanCreate

\* Statuses, tasks, debts and the pair are apart from the monitor.
LEMMA SameRecord ==
    ASSUME NEW d, Fields(d), NEW x
    PROVE  /\ Same([d EXCEPT !.conds = x], d) /\ Same([d EXCEPT !.tasks = x], d) /\ Same([d EXCEPT !.active = x], d)
           /\ Same([d EXCEPT !.hedged = x], d) /\ Same([d EXCEPT !.out.res = x], d)
           /\ Same([d EXCEPT !.in.st = x], d) /\ Same([d EXCEPT !.out.st = x], d)
           /\ Same([d EXCEPT !.conds = {}, !.in.st = x], d)
           /\ Same(Drop(d, x), d) /\ Same(Pair(d, x), d)
           /\ Same([d EXCEPT !.tasks = @ \cup {x}], d)
BY DEF Fields, Same, Drop, Pair

\* So is asking for a close.
LEMMA SameClose ==
    ASSUME NEW d, NEW n \in Node, Fields(d)
    PROVE  Same(CloseDerivative(d, n), d)
<1>1. CASE n \notin d.conds \/ ~d.active
  BY <1>1 DEF CloseDerivative, Same
<1>2. CASE n \in d.conds /\ d.active
  <2>1. PICK r : r = IF d.out.res.amt > 0 THEN [amt |-> 0, at |-> d.out.res.at]
                     ELSE IF d.in.res # NoRes THEN d.in.res
                     ELSE [amt |-> Profit(n, price[Latest(n)]), at |-> Latest(n)]
    OBVIOUS
  <2>2. CloseDerivative(d, n) = [d EXCEPT !.out.st = "wantclose", !.in.st = "wantclose", !.tasks = @ \cup {"close"},
                                          !.in.res = r]
    BY <1>2, <2>1 DEF CloseDerivative, Fields
  <2>3. QED
    BY <2>2 DEF Fields, Same
<1>3. QED
  BY <1>1, <1>2

\* A resolve and a close.
LEMMA SameResolved ==
    ASSUME NEW d, NEW n \in Node, Fields(d), NEW r
    PROVE  Same([d EXCEPT !.out.res = r], d) /\ Same(CloseDerivative([d EXCEPT !.out.res = r], n), d)
<1>1. PICK e : e = [d EXCEPT !.out.res = r]
  OBVIOUS
<1>2. Fields(e) /\ Same(e, d)
  BY <1>1 DEF Fields, Same
<1>3. Same(CloseDerivative(e, n), e)
  BY <1>2, SameClose
<1>4. QED
  BY <1>1, <1>2, <1>3 DEF Same

\* A liquidation.
LEMMA SameLiquidate ==
    ASSUME NEW d, NEW n \in Node, Fields(d)
    PROVE  Same(Liquidate(d, n), d)
<1> DEFINE r == [amt |-> Amount, at |-> d.mon.liq]
           e == [d EXCEPT !.out.res = r]
<1>1. Same(CloseDerivative(e, n), d)
  BY SameResolved, Zenon
<1>2. Same(CloseDerivative(d, n), d)
  BY SameClose
<1>3. Liquidate(d, n) \in {d, CloseDerivative(d, n), CloseDerivative(e, n)}
  BY DEF Liquidate
<1>4. QED
  BY <1>1, <1>2, <1>3 DEF Same

\* A settlement.
LEMMA SameSettled ==
    ASSUME NEW d, Fields(d), NEW s, NEW r
    PROVE  Same(Settled(d, s, r), d)
<1>1. PICK x, y : Settled(d, s, r) = [d EXCEPT !.conds = {}, !.paid[s] = @ + x, !.paid[Peer(s)] = @ + y]
  BY DEF Settled
<1>2. QED
  BY <1>1 DEF Fields, Same

\* The order begins with its two metas.
LEMMA CreatedMoves ==
    ASSUME NEW d, Fields(d)
    PROVE  \/ Same(Created(d), d)
           \/ Created(d).born = now /\ Created(d).mon = [d.mon EXCEPT !.last = now - 1]
<1>1. CASE d.out.st # "none"
  BY <1>1 DEF Created, Same
<1>2. CASE d.out.st = "none"
  <2>1. PICK f : f = Pair(d, "pending") /\ Fields(f) /\ Same(f, d)
    BY PairIs, SameRecord
  <2>2. Created(d) = [f EXCEPT !.born = now, !.mon.last = now - 1]
    BY <1>2, <2>1 DEF Created
  <2>3. Created(d).born = now /\ Created(d).mon = [f.mon EXCEPT !.last = now - 1]
    BY <2>1, <2>2 DEF Fields
  <2>4. QED
    BY <2>1, <2>3 DEF Same
<1>3. QED
  BY <1>1, <1>2

\* A refresh is a check, or nothing.
LEMMA RefreshedMoves ==
    ASSUME Shape, NEW n \in Node
    PROVE  /\ Fields(Refreshed(n)) /\ Refreshed(n).born = nd[n].born
           /\ Refreshed(n).mon = IF Monitored(nd[n]) THEN Monitor(n) ELSE nd[n].mon
<1>1. Fields(Refreshed(n))
  BY RefreshedKeeps DEF KeepsAll, Keeps
<1>2. CASE Monitored(nd[n])
  <2>1. PICK m : m = Monitor(n)
    OBVIOUS
  <2>2. PICK d : d = nd[n] /\ Fields(d)
    BY DEF Shape
  <2>3. Refreshed(n) = [d EXCEPT !.mon = m]
    BY <1>2, <2>1, <2>2 DEF Refreshed
  <2>4. [d EXCEPT !.mon = m].born = d.born /\ [d EXCEPT !.mon = m].mon = m
    BY <2>2 DEF Fields
  <2>5. QED
    BY <1>1, <1>2, <2>1, <2>2, <2>3, <2>4
<1>3. CASE ~Monitored(nd[n])
  BY <1>1, <1>3 DEF Refreshed
<1>4. QED
  BY <1>2, <1>3

\* If the record of n ends as one with the monitor of its refreshed record, it has moved.
LEMMA MovesRefreshed ==
    ASSUME Shape, NEW n \in Node, Same(nd'[n], Refreshed(n))
    PROVE  Moves(n)
BY RefreshedMoves DEF Same, Moves

\* A step that changes the record of one node moves that node, and the other stays.
LEMMA MovesOne ==
    ASSUME Shape, NEW n \in Node, NEW e, nd' = [nd EXCEPT ![n] = e], Same(e, nd[n]) \/ Same(e, Refreshed(n))
    PROVE  \A k \in Node : Moves(k)
<1>1. nd'[n] = e /\ \A k \in Node : k # n => nd'[k] = nd[k]
  BY DEF Shape
<1>2. Moves(n)
  BY <1>1, MovesRefreshed DEF Moves
<1>3. \A k \in Node : k # n => Moves(k)
  BY <1>1 DEF Moves, Same
<1>4. QED
  BY <1>2, <1>3

\* The steps that leave prices and caches alone.
Still == price' = price /\ got' = got /\ \A n \in Node : Moves(n)

\* Such a step keeps what the monitors have seen.
LEMMA StillSees ==
    ASSUME Shape, Known, WInv, Still
    PROVE  WInv'
<1>1. Filled'
  BY DEF WInv, Filled, Still
<1>2. ASSUME NEW n \in Node
      PROVE  Seen(n, nd[n].born, nd[n].mon)'
  <2>1. Seen(n, nd[n].born, nd[n].mon) /\ Seen(n, nd[n].born, Monitor(n))
    BY MonitorSees DEF WInv, Watched
  <2>2. PICK b, m : b = nd'[n].born /\ m = nd'[n].mon
    OBVIOUS
  <2>3. Seen(n, b, m)
    <3>1. CASE Same(nd'[n], nd[n])
      BY <2>1, <2>2, <3>1 DEF Same
    <3>2. CASE nd'[n].born = nd[n].born /\ nd'[n].mon = Monitor(n)
      BY <2>1, <2>2, <3>2
    <3>3. CASE nd'[n].born = now /\ nd'[n].mon = [nd[n].mon EXCEPT !.last = now - 1]
      <4>1. PICK k : k = nd[n].mon /\ Seen(n, nd[n].born, k)
        BY <2>1
      <4>2. /\ now \in Nat /\ b = now
            /\ m = [last |-> now - 1, min |-> k.min, max |-> k.max, crossed |-> k.crossed, liq |-> k.liq, old |-> k.old]
            /\ k.min \in Nat /\ k.max \in Nat /\ k.old \in BOOLEAN
        BY <2>2, <3>3, <4>1, Clock DEF Seen
      <4>3. got[n] \in SUBSET Nat
        BY DEF Shape
      <4>4. QED
        BY <4>2, <4>3 DEF Seen
    <3>4. QED
      BY <3>1, <3>2, <3>3 DEF Still, Moves
  <2>4. QED
    BY <2>2, <2>3 DEF Still, Seen
<1>3. QED
  BY <1>1, <1>2 DEF WInv, Watched

\* A second more: the caches do not have it yet.
LEMMA TickSees ==
    ASSUME Shape, Known, WInv, Tick
    PROVE  WInv'
<1>1. PICK p \in Prices : price' = Append(price, p)
  BY DEF Tick
<1>2. \A n \in Node : \A t \in got[n] : price'[t] = price[t]
  BY <1>1 DEF Shape, Known, now
<1>3. ASSUME NEW n \in Node
      PROVE  Seen(n, nd[n].born, nd[n].mon)'
  <2>1. PICK b, m : b = nd[n].born /\ m = nd[n].mon /\ Seen(n, b, m)
    BY DEF WInv, Watched
  <2>2. Seen(n, b, m)'
    BY <1>2, <2>1 DEF Tick, Seen
  <2>3. QED
    BY <2>1, <2>2 DEF Tick, Seen
<1>4. QED
  BY <1>3 DEF Tick, WInv, Watched, Filled

\* A fetch adds seconds after the last check only: a provider that fills the missed seconds
\* had filled those before, another one adds the present second.
LEMMA FetchSees ==
    ASSUME Shape, Known, WInv, NEW n \in Node, Fetch(n)
    PROVE  WInv'
<1>1. PICK G : G = IF n \in Since THEN 1 .. now ELSE {now}
  OBVIOUS
<1>2. /\ now \in Nat /\ now > 0 /\ now \notin got[n] /\ nd' = nd /\ price' = price
      /\ got'[n] = got[n] \cup G /\ \A k \in Node : k # n => got'[k] = got[k]
  BY <1>1, Clock DEF Fetch, Shape
<1>3. got[n] \in SUBSET Nat /\ (\A t \in got[n] : 1 <= t /\ t <= now)
      /\ G \in SUBSET Nat /\ (\A t \in G : 1 <= t /\ t <= now)
  BY <1>1, <1>2 DEF Shape, Known
<1>4. ASSUME NEW t \in G, t \notin got[n], NEW u \in got[n]
      PROVE  ~(t <= u)
  <2>1. CASE n \in Since
    <3>1. 1 .. u \subseteq got[n]
      BY <2>1 DEF WInv, Filled
    <3>2. QED
      BY <1>3, <1>4, <3>1
  <2>2. CASE n \notin Since
    <3>1. t = now
      BY <1>1, <2>2
    <3>2. QED
      BY <1>2, <1>3, <3>1
  <2>3. QED
    BY <2>1, <2>2
<1>5. Seen(n, nd[n].born, nd[n].mon)'
  <2>1. PICK b, m : b = nd[n].born /\ m = nd[n].mon /\ Seen(n, b, m)
    BY DEF WInv, Watched
  <2>2. b \in Nat /\ m.last \in Int
    BY <2>1 DEF Seen
  <2>3. ASSUME ~m.old, NEW t \in G, t \notin got[n], b <= t, t <= m.last
        PROVE  FALSE
    <3>1. m.last <= 0 \/ m.last < b \/ \E u \in got[n] : m.last <= u
      BY <2>1, <2>3 DEF Seen
    <3>2. ~(m.last <= 0) /\ ~(m.last < b)
      BY <1>3, <2>2, <2>3
    <3>3. PICK u \in got[n] : m.last <= u
      BY <3>1, <3>2
    <3>4. t <= u
      BY <1>3, <2>2, <2>3, <3>3
    <3>5. QED
      BY <1>4, <2>3, <3>4
  <2>4. Seen(n, b, m)'
    BY <1>2, <2>1, <2>3 DEF Seen
  <2>5. QED
    BY <1>2, <2>1, <2>4
<1>6. ASSUME NEW k \in Node, k # n
      PROVE  Seen(k, nd[k].born, nd[k].mon)'
  <2>1. Seen(k, nd[k].born, nd[k].mon)
    BY DEF WInv, Watched
  <2>2. QED
    BY <1>2, <1>6, <2>1 DEF Seen
<1>7. Filled'
  <2>1. ASSUME NEW k \in Since, NEW t \in got'[k]
        PROVE  1 .. t \subseteq got'[k]
    <3>1. CASE k = n
      <4>1. G = 1 .. now
        BY <1>1, <2>1, <3>1
      <4>2. t \in Nat /\ t <= now
        BY <1>2, <1>3, <2>1, <3>1
      <4>3. QED
        BY <1>2, <3>1, <4>1, <4>2
    <3>2. CASE k # n
      <4>1. k \in Node
        BY DerivativesAssumption
      <4>2. QED
        BY <1>2, <2>1, <3>2, <4>1 DEF WInv, Filled
    <3>3. QED
      BY <3>1, <3>2
  <2>2. QED
    BY <2>1 DEF Filled
<1>8. QED
  BY <1>5, <1>6, <1>7 DEF WInv, Watched

\* Each of the other steps is still: the price worker and the users.
LEMMA AskingStill ==
    ASSUME IInv, NEW n \in Node, Watch(n) \/ AskClose(n) \/ AskCancel(n)
    PROVE  Still
<1>1. PICK d : d = Refreshed(n) /\ Fields(d)
  BY RefreshedMoves DEF IInv
<1>2. CASE Watch(n)
  <2>1. PICK e : nd' = [nd EXCEPT ![n] = e] /\ e \in {Liquidate(d, n), d}
    BY <1>1, <1>2 DEF Watch
  <2>2. Same(e, d)
    BY <1>1, <2>1, SameLiquidate DEF Same
  <2>3. QED
    BY <1>1, <1>2, <2>1, <2>2, MovesOne DEF Watch, Still, IInv
<1>3. CASE AskClose(n)
  <2>1. PICK r : r = [amt |-> Loss(n, price[Latest(n)]), at |-> Latest(n)]
    OBVIOUS
  <2>2. PICK e : nd' = [nd EXCEPT ![n] = e] /\ e \in {CloseDerivative([d EXCEPT !.out.res = r], n), [d EXCEPT !.out.res = r]}
    BY <1>1, <1>3, <2>1 DEF AskClose
  <2>3. Same(e, d)
    BY <1>1, <2>2, SameResolved
  <2>4. QED
    BY <1>1, <1>3, <2>2, <2>3, MovesOne DEF AskClose, Still, IInv
<1>4. CASE AskCancel(n)
  <2>1. PICK e : nd' = [nd EXCEPT ![n] = e] /\ e = [d EXCEPT !.tasks = @ \cup {"remove"}]
    BY <1>1, <1>4 DEF AskCancel
  <2>2. Same(e, d)
    BY <1>1, <2>1, SameRecord
  <2>3. QED
    BY <1>1, <1>4, <2>1, <2>2, MovesOne DEF AskCancel, Still, IInv
<1>5. QED
  BY <1>2, <1>3, <1>4

\* The hedge flag, the request to open, tasks with nothing left to do, and the end of a channel.
LEMMA TasksStill ==
    ASSUME IInv, NEW n \in Node,
           SetHedged \/ OpenPosition \/ CloseDone(n) \/ RemoveDone(n) \/ Uncoop(n) \/ Inactive(n)
    PROVE  Still
<1>1. \A k \in Node : Fields(nd[k])
  BY DEF IInv, Shape
<1>2. CASE SetHedged
  <2>1. PICK x : nd' = [nd EXCEPT !["A"] = [nd["A"] EXCEPT !.hedged = x]]
    BY <1>2 DEF SetHedged
  <2>2. Same([nd["A"] EXCEPT !.hedged = x], nd["A"])
    BY <1>1, Nodes, SameRecord
  <2>3. QED
    BY <1>2, <2>1, <2>2, Nodes, MovesOne DEF SetHedged, Still, IInv
<1>3. CASE OpenPosition
  <2>1. PICK e : e = [nd["O"] EXCEPT !.tasks = @ \cup {"create"}] /\ nd' = [nd EXCEPT !["O"] = e]
    BY <1>3 DEF OpenPosition
  <2>2. Same(e, nd["O"])
    BY <1>1, <2>1, Nodes, SameRecord
  <2>3. QED
    BY <1>3, <2>1, <2>2, Nodes, MovesOne DEF OpenPosition, Still, IInv
<1>4. CASE CloseDone(n) \/ Uncoop(n)
  <2>1. PICK t : nd' = [nd EXCEPT ![n] = Drop(nd[n], t)]
    BY <1>4 DEF CloseDone, Uncoop
  <2>2. Same(Drop(nd[n], t), nd[n])
    BY <1>1, SameRecord
  <2>3. QED
    BY <1>4, <2>1, <2>2, MovesOne DEF CloseDone, Uncoop, Still, IInv
<1>5. CASE RemoveDone(n)
  <2>1. PICK d, x : d = Drop(nd[n], "remove") /\ nd' = [nd EXCEPT ![n] = [d EXCEPT !.in.st = x]]
    BY <1>5 DEF RemoveDone
  <2>2. Fields(d) /\ Same(d, nd[n])
    BY <1>1, <2>1, DropIs, SameRecord
  <2>3. Same([d EXCEPT !.in.st = x], d)
    BY <2>2, SameRecord
  <2>4. Same([d EXCEPT !.in.st = x], nd[n])
    BY <2>2, <2>3 DEF Same
  <2>5. QED
    BY <1>5, <2>1, <2>4, MovesOne DEF RemoveDone, Still, IInv
<1>6. CASE Inactive(n)
  <2>1. PICK e : e = [nd[n] EXCEPT !.active = FALSE]
    OBVIOUS
  <2>2. Fields(e) /\ Same(e, nd[n])
    <3>1. PICK d : d = nd[n] /\ Fields(d) /\ e = [d EXCEPT !.active = FALSE]
      BY <1>1, <2>1
    <3>2. e = [conds |-> d.conds, paid |-> d.paid, out |-> d.out, in |-> d.in, born |-> d.born, mon |-> d.mon,
               hedged |-> d.hedged, active |-> FALSE, tasks |-> d.tasks]
      BY <3>1 DEF Fields
    <3>3. QED
      BY <3>1, <3>2 DEF Fields, Same
  <2>3. PICK f : f = Final(nd[n]) /\ (f = e \/ \E st : f = Pair(e, st))
    BY <2>1 DEF Final
  <2>4. Same(f, nd[n])
    BY <2>2, <2>3, SameRecord DEF Same
  <2>5. nd' = [nd EXCEPT ![n] = f]
    BY <1>6, <2>3 DEF Inactive
  <2>6. QED
    BY <1>6, <2>4, <2>5, MovesOne DEF Inactive, Still, IInv
<1>7. QED
  BY <1>2, <1>3, <1>4, <1>5, <1>6

\* The opening.
LEMMA OpeningStill ==
    ASSUME IInv, CreateFails \/ CreateDenied \/ AcceptCreate
    PROVE  Still
<1>1. Fields(nd["O"]) /\ Fields(nd["A"]) /\ DOMAIN nd = Node /\ Node = {"O", "A"}
  BY Nodes DEF IInv, Shape, Node
<1>2. PICK c : /\ c = Created(nd["O"]) /\ Fields(c)
               /\ \/ Same(c, nd["O"])
                  \/ c.born = now /\ c.mon = [nd["O"].mon EXCEPT !.last = now - 1]
  <2>1. Fields(Created(nd["O"]))
    BY <1>1, CreatedIs
  <2>2. \/ Same(Created(nd["O"]), nd["O"])
        \/ Created(nd["O"]).born = now /\ Created(nd["O"]).mon = [nd["O"].mon EXCEPT !.last = now - 1]
    BY <1>1, CreatedMoves
  <2>3. QED
    BY <2>1, <2>2
<1>3. CASE CreateFails \/ CreateDenied
  <2>1. PICK f : f = Drop(c, "create") /\ Fields(f) /\ Same(f, c)
    BY <1>2, DropIs, SameRecord
  <2>2. nd' = [nd EXCEPT !["O"] = c] \/ nd' = [nd EXCEPT !["O"] = f]
        \/ nd' = [nd EXCEPT !["O"] = [f EXCEPT !.out.st = "wantremove"]]
    BY <1>2, <1>3, <2>1 DEF CreateFails, CreateDenied
  <2>3. Same([f EXCEPT !.out.st = "wantremove"], f)
    BY <2>1, SameRecord
  <2>4. Same(nd'["O"], c) /\ nd'["A"] = nd["A"]
    BY <1>1, <2>1, <2>2, <2>3 DEF Same
  <2>5. Moves("O") /\ Moves("A")
    BY <1>2, <1>3, <2>4 DEF Moves, Same, CreateFails, CreateDenied
  <2>6. QED
    BY <1>1, <1>3, <2>5 DEF CreateFails, CreateDenied, Still
<1>4. CASE AcceptCreate
  <2>1. PICK f : f = Pair(nd["A"], "active") /\ Fields(f) /\ Same(f, nd["A"])
    BY <1>1, PairIs, SameRecord
  <2>2. PICK a : a = [f EXCEPT !.conds = Node, !.born = now, !.mon.last = now - 1]
    OBVIOUS
  <2>3. a.born = now /\ a.mon = [f.mon EXCEPT !.last = now - 1]
    BY <2>1, <2>2 DEF Fields
  <2>4. nd' = [nd EXCEPT !["O"] = c, !["A"] = a]
    BY <1>2, <1>4, <2>1, <2>2 DEF AcceptCreate
  <2>5. nd'["O"] = c /\ nd'["A"] = a
    BY <1>1, <2>4
  <2>6. Moves("O") /\ Moves("A")
    BY <1>2, <1>4, <2>1, <2>3, <2>5 DEF Moves, Same, AcceptCreate
  <2>7. QED
    BY <1>1, <1>4, <2>6 DEF AcceptCreate, Still
<1>5. QED
  BY <1>3, <1>4

\* The exchange of a settled or a cancelled pair.
LEMMA ExchangeStill ==
    ASSUME IInv, NEW n \in Node,
           AcceptClose(n) \/ AcceptRemove(n) \/ DenyRemove(n) \/ Lose \/ Resend(n) \/ Confirm(n)
    PROVE  Still
<1>0. PICK m \in Node : m = Peer(n) /\ m # n /\ \A k \in Node : k \in {m, n}
  BY Nodes DEF Node, Peer
<1>1. DOMAIN nd = Node /\ \A k \in Node : Fields(nd[k])
  BY DEF IInv, Shape
<1>2. PICK c, d : c = Refreshed(n) /\ Fields(c) /\ d = Refreshed(m) /\ Fields(d)
  BY RefreshedMoves DEF IInv
<1>3. CASE AcceptClose(n)
  <2>1. PICK e, r : e = Settled(nd[m], m, r) /\ nd' = [nd EXCEPT ![m] = Pair(e, "closed")]
    BY <1>0, <1>3 DEF AcceptClose
  <2>2. Fields(e) /\ Same(e, nd[m])
    BY <1>1, <2>1, SettledIs, SameSettled
  <2>3. Same(Pair(e, "closed"), nd[m])
    BY <2>2, SameRecord DEF Same
  <2>4. QED
    BY <1>3, <2>1, <2>3, MovesOne DEF AcceptClose, Still, IInv
<1>4. CASE AcceptRemove(n) \/ DenyRemove(n)
  <2>1. PICK e : e = [c EXCEPT !.tasks = @ \cup {"uncoop"}] /\ Same(e, c)
    BY <1>2, SameRecord
  <2>2. PICK f : f = [d EXCEPT !.conds = {}] /\ Same(f, d)
    BY <1>2, SameRecord
  <2>3. nd' = [nd EXCEPT ![n] = c, ![m] = f] \/ nd' = [nd EXCEPT ![n] = e, ![m] = d]
    BY <1>0, <1>2, <1>4, <2>1, <2>2 DEF AcceptRemove, DenyRemove
  <2>4. Same(nd'[n], c) /\ Same(nd'[m], d)
    BY <1>0, <1>1, <2>1, <2>2, <2>3 DEF Same
  <2>5. Moves(n) /\ Moves(m)
    BY <1>2, <2>4, MovesRefreshed DEF IInv
  <2>6. QED
    BY <1>0, <1>4, <2>5 DEF AcceptRemove, DenyRemove, Still
<1>5. CASE Lose
  BY <1>5 DEF Lose, Still, Moves, Same
<1>6. CASE Resend(n)
  <2>1. PICK e : e \in {c, nd[n]} /\ nd' = [nd EXCEPT ![n] = e]
    BY <1>2, <1>6 DEF Resend
  <2>2. QED
    BY <1>2, <1>6, <2>1, MovesOne DEF Resend, Still, Same, IInv
<1>7. CASE Confirm(n)
  <2>1. PICK e : nd' = [nd EXCEPT ![n] = e] /\ Same(e, nd[n])
    <3>1. CASE half.type = "add"
      <4>1. PICK f : f = Drop(Pair(nd[n], "active"), "create") /\ Fields(f) /\ Same(f, nd[n])
        BY <1>1, PairIs, DropIs, SameRecord DEF Same
      <4>2. nd' = [nd EXCEPT ![n] = [f EXCEPT !.conds = Node]]
        BY <1>7, <3>1, <4>1 DEF Confirm
      <4>3. Same([f EXCEPT !.conds = Node], f)
        BY <4>1, SameRecord
      <4>4. QED
        BY <4>1, <4>2, <4>3 DEF Same
    <3>2. CASE half.type = "exec"
      <4>1. PICK f : f = Settled(nd[n], Peer(n), half.res) /\ Fields(f) /\ Same(f, nd[n])
        BY <1>1, SettledIs, SameSettled
      <4>2. PICK g : g = Drop(f, "close") /\ Fields(g) /\ Same(g, f)
        BY <4>1, DropIs, SameRecord
      <4>3. Same(Pair(g, "closed"), g)
        BY <4>2, SameRecord
      <4>4. nd' = [nd EXCEPT ![n] = Pair(g, "closed")]
        BY <1>7, <3>2, <4>1, <4>2 DEF Confirm
      <4>5. QED
        BY <4>1, <4>2, <4>3, <4>4 DEF Same
    <3>3. CASE half.type = "rem"
      <4>1. PICK f : f = Drop(nd[n], "remove") /\ Fields(f) /\ Same(f, nd[n])
        BY <1>1, DropIs, SameRecord
      <4>2. Same([f EXCEPT !.conds = {}, !.in.st = "wantremove"], f)
        BY <4>1, SameRecord
      <4>3. nd' = [nd EXCEPT ![n] = [f EXCEPT !.conds = {}, !.in.st = "wantremove"]]
        BY <1>7, <3>3, <4>1 DEF Confirm
      <4>4. QED
        BY <4>1, <4>2, <4>3 DEF Same
    <3>4. QED
      BY <1>7, <3>1, <3>2, <3>3 DEF Confirm
  <2>2. QED
    BY <1>7, <2>1, MovesOne DEF Confirm, Still, IInv
<1>8. QED
  BY <1>3, <1>4, <1>5, <1>6, <1>7

\* What the monitors have seen is kept by every step.
LEMMA StepSees ==
    ASSUME IInv, WInv, [Next]_vars
    PROVE  WInv'
<1>1. Shape /\ Known
  BY DEF IInv
<1>2. CASE Tick
  BY <1>1, <1>2, TickSees
<1>3. CASE SetHedged \/ OpenPosition \/ CreateFails \/ CreateDenied \/ AcceptCreate
  BY <1>1, <1>3, Nodes, TasksStill, OpeningStill, StillSees
<1>4. CASE Lose
  BY <1>1, <1>4, Nodes, ExchangeStill, StillSees
<1>5. ASSUME NEW n \in Node, NodeStep(n)
      PROVE  WInv'
  <2>1. CASE Fetch(n)
    BY <1>1, <2>1, FetchSees
  <2>2. CASE ~Fetch(n)
    BY <1>1, <1>5, <2>2, AskingStill, TasksStill, ExchangeStill, StillSees DEF NodeStep
  <2>3. QED
    BY <2>1, <2>2
<1>6. CASE UNCHANGED vars
  <2>1. Still
    BY <1>6 DEF vars, Still, Moves, Same
  <2>2. QED
    BY <1>1, <2>1, StillSees
<1>7. QED
  BY <1>2, <1>3, <1>4, <1>5, <1>6 DEF Next

\* The step with which a party lets a position go: it has looked at every price it knows.
LEMMA RemoveUnopened ==
    ASSUME IInv, WInv, NEW n \in Node, AcceptRemove(n), NEW m \in Node, m = Peer(n),
           Monitored(nd[m]), ~nd'[m].mon.old, NEW t \in got[m], t >= nd[m].born
    PROVE  ~Reached(price[t])
<1>1. PICK d : d = Refreshed(m) /\ Fields(d) /\ d.mon = Monitor(m) /\ d.in = nd[m].in
  BY RefreshedMoves, RefreshedKeeps DEF IInv
<1>2. nd'[m] = [d EXCEPT !.conds = {}]
  BY <1>1, Nodes DEF AcceptRemove, IInv, Shape
<1>3. nd'[m].mon = d.mon
  BY <1>1, <1>2 DEF Fields
<1>4. Monitored(d) /\ Removable(d)
  BY <1>1 DEF AcceptRemove, Monitored
<1>5. ~d.mon.old /\ ~Opened(d)
  BY <1>3, <1>4 DEF Removable
<1>6. d.mon.min # 0 /\ d.mon.min <= price[t] /\ price[t] <= d.mon.max
  <2>1. Seen(m, nd[m].born, nd[m].mon)
    BY DEF WInv, Watched
  <2>2. nd[m].born <= t
    BY <2>1 DEF IInv, Shape, Seen
  <2>3. QED
    BY <1>1, <1>5, <2>1, <2>2, MonitorSees DEF IInv
<1>7. d.mon.min \in Nat /\ d.mon.max \in Nat
  BY <1>1, MonitorSees DEF WInv, Watched, Seen, IInv
<1>8. t \in 1 .. now /\ price[t] \in Nat \ {0} /\ Entry \in Nat
  BY Clock, DerivativesAssumption DEF IInv, Shape, Known, now
<1>9. CASE Long
  BY <1>5, <1>6, <1>7, <1>8, <1>9 DEF Opened, Reached
<1>10. CASE ~Long
  BY <1>5, <1>6, <1>7, <1>8, <1>10 DEF Opened, Reached
<1>11. QED
  BY <1>9, <1>10

\* Every other step leaves a free exchange free, or begins something else.
LEMMA OtherSteps ==
    ASSUME [Next]_vars, Free, half'.type = "rem"
    PROVE  \E n \in Node : AcceptRemove(n) /\ half'.by = n
<1>1. half.type = "none" /\ ~half.lost
  BY DEF Free, NoHalf
<1>2. half' # half
  BY <1>1
<1>3. ~UNCHANGED vars /\ ~Tick /\ ~SetHedged /\ ~OpenPosition /\ ~CreateFails /\ ~CreateDenied
  BY <1>2 DEF vars, Tick, SetHedged, OpenPosition, CreateFails, CreateDenied
<1>4. ~Lose /\ ~AcceptCreate
  BY DEF Lose, AcceptCreate, Half
<1>5. PICK n \in Node : NodeStep(n)
  BY <1>3, <1>4 DEF Next
<1>6. ~Fetch(n) /\ ~Watch(n) /\ ~AskClose(n) /\ ~AskCancel(n) /\ ~CloseDone(n) /\ ~RemoveDone(n) /\ ~DenyRemove(n)
      /\ ~Uncoop(n) /\ ~Inactive(n)
  BY <1>2 DEF Fetch, Watch, AskClose, AskCancel, CloseDone, RemoveDone, DenyRemove, Uncoop, Inactive
<1>7. ~Resend(n) /\ ~Confirm(n) /\ ~AcceptClose(n)
  BY <1>1 DEF Resend, Confirm, AcceptClose, Half
<1>8. AcceptRemove(n)
  BY <1>5, <1>6, <1>7 DEF NodeStep
<1>9. QED
  BY <1>8 DEF AcceptRemove, Half

\* A party agrees to cancel only what has not opened at any price it knows of, whatever the
\* order of price samples, checks and requests, for both kinds of price provider: the monitor
\* has seen every second of the cache (WInv), and the agreement looks at it once more.
THEOREM CancelledUnopenedHolds == Spec => CancelledUnopened
<1>1. Init => WInv
  <2> SUFFICES ASSUME Init
               PROVE  WInv
    OBVIOUS
  <2>1. ASSUME NEW n \in Node
        PROVE  Seen(n, nd[n].born, nd[n].mon)
    <3>1. nd[n].born = 0 /\ nd[n].mon = NoMon /\ got[n] = {}
      BY DEF Init
    <3>2. Seen(n, 0, NoMon)
      BY <3>1 DEF Seen, NoMon
    <3>3. QED
      BY <3>1, <3>2
  <2>2. QED
    BY <2>1, DerivativesAssumption DEF Init, WInv, Watched, Filled
<1>2. IInv /\ WInv /\ [Next]_vars => WInv'
  BY StepSees
<1>3. IInv /\ WInv /\ [Next]_vars =>
        [\A m \in Node :
          half'.type = "rem" /\ Free /\ half'.by = Peer(m) /\ Monitored(nd[m]) /\ ~nd'[m].mon.old =>
              \A t \in got[m] : t >= nd[m].born => ~Reached(price[t])]_vars
  <2> SUFFICES ASSUME IInv, WInv, [Next]_vars, NEW m \in Node,
                      half'.type = "rem", Free, half'.by = Peer(m), Monitored(nd[m]), ~nd'[m].mon.old,
                      NEW t \in got[m], t >= nd[m].born
               PROVE  ~Reached(price[t])
    OBVIOUS
  <2>1. PICK n \in Node : AcceptRemove(n) /\ half'.by = n
    BY OtherSteps
  <2>2. m = Peer(n)
    BY <2>1, Nodes
  <2>3. QED
    BY <2>1, <2>2, RemoveUnopened
<1>4. QED
  BY <1>1, <1>2, <1>3, Inductive, PTL DEF Spec, CancelledUnopened

-----------------------------------------------------------------------------
(* What is paid.  A resolve that claims anything is the profit of its node *)
(* at a second of the price history; the party settles by it, once, and    *)
(* what the pair settles to is what one side lost at that second.          *)

Zero == [s \in Node |-> 0]

\* What a node claims is its profit at a second that has passed.
Claims(n, r) == r.amt > 0 => r.at \in 1 .. now /\ r.amt = Profit(n, price[r.at])

\* Debts pd are none, or those of one side for what it lost at some second.
AsPriced(pd) ==
    pd # Zero => \E s \in Node, t \in 1 .. now :
                    /\ pd[Peer(s)] = 0
                    /\ \E c \in Owes(s, price[t]) : pd[s] = Pays(s, c)

\* Nothing is paid while the pair is there or before it, and O places its order before the
\* second second.
Priced ==
    /\ \A n \in Node : Claims(n, nd[n].in.res) /\ AsPriced(nd[n].paid)
    /\ \A n \in Node : nd[n].conds # {} => nd[n].paid = Zero
    /\ nd["A"].out.st = "none" => now <= 1 /\ \A n \in Node : nd[n].paid = Zero
    /\ nd["O"].born \in {0, 1}

\* A quotient, rounded down.
LEMMA Quotient ==
    ASSUME NEW x \in Int, NEW e \in Nat \ {0}
    PROVE  x \div e \in Int /\ (x \div e) * e <= x /\ x < (x \div e) * e + e
OBVIOUS

\* The smaller and the larger of two numbers.
LEMMA MinMaxOfTwo ==
    ASSUME NEW a \in Int, NEW b \in Int
    PROVE  /\ Min({a, b}) = IF a <= b THEN a ELSE b
           /\ Max({a, b}) = IF a >= b THEN a ELSE b
<1>1. \A x, y \in {a, b} : x \in Int /\ y \in Int
  OBVIOUS
<1>2. Min({a, b}) = CHOOSE x \in {a, b} : \A y \in {a, b} : x <= y
  BY DEF Min
<1>3. Max({a, b}) = CHOOSE x \in {a, b} : \A y \in {a, b} : x >= y
  BY DEF Max
<1>4. PICK l \in {a, b} : l = (IF a <= b THEN a ELSE b) /\ \A y \in {a, b} : l <= y
  OBVIOUS
<1>5. PICK h \in {a, b} : h = (IF a >= b THEN a ELSE b) /\ \A y \in {a, b} : h >= y
  OBVIOUS
<1>6. Min({a, b}) \in {a, b} /\ \A y \in {a, b} : Min({a, b}) <= y
  BY <1>2, <1>4
<1>7. Max({a, b}) \in {a, b} /\ \A y \in {a, b} : Max({a, b}) >= y
  BY <1>3, <1>5
<1>8. QED
  BY <1>4, <1>5, <1>6, <1>7

\* A number between nothing and the collateral.
LEMMA Capped ==
    ASSUME NEW k \in Int, Min({Max({k, 0}), Amount}) > 0
    PROVE  k > 0 /\ Min({Max({k, 0}), Amount}) = IF k <= Amount THEN k ELSE Amount
<1>0. Amount \in Nat \ {0}
  BY DerivativesAssumption
<1>1. PICK h : h = Max({k, 0})
  OBVIOUS
<1>2. h = IF k >= 0 THEN k ELSE 0
  BY <1>1, MinMaxOfTwo
<1>3. h \in Int
  BY <1>2
<1>4. Min({h, Amount}) = IF h <= Amount THEN h ELSE Amount
  BY <1>0, <1>3, MinMaxOfTwo
<1>5. Min({h, Amount}) > 0
  BY <1>1
<1>6. k > 0 /\ Min({h, Amount}) = IF k <= Amount THEN k ELSE Amount
  BY <1>0, <1>2, <1>3, <1>4, <1>5
<1>7. QED
  BY <1>1, <1>6

\* A product and its negation.
LEMMA Negated ==
    ASSUME NEW a \in Int, NEW b \in Int, NEW c \in Int
    PROVE  (-a) * b * c = -(a * b * c) /\ a * b * c \in Int
OBVIOUS

\* What one side has won the other has lost, and both count it to the next whole coin.
LEMMA ProfitIsOwed ==
    ASSUME NEW n \in Node, NEW p \in Nat, Profit(n, p) > 0
    PROVE  Profit(n, p) \in Owes(Peer(n), p)
<1>0. Entry \in Nat \ {0} /\ Amount \in Nat \ {0} /\ Leverage \in Nat \ {0} /\ Long \in BOOLEAN
  BY DerivativesAssumption
<1> DEFINE y == IF IsLong(n) THEN p - Entry ELSE Entry - p
           x == y * Amount * Leverage
           q == x \div Entry
<1>1. IsLong(Peer(n)) = ~IsLong(n)
  BY <1>0, Nodes DEF IsLong, Node, Peer
<1>2. y = IF IsLong(Peer(n)) THEN Entry - p ELSE p - Entry
  BY <1>1
<1>3. y \in Int /\ x \in Int
  BY <1>0
<1>4. q \in Int /\ q * Entry <= x /\ x < q * Entry + Entry
  BY <1>0, <1>3, Quotient
<1>5. Profit(n, p) = Min({Max({q, 0}), Amount})
  BY DEF Profit, Roi
<1> HIDE DEF y, x, q
<1>6. q > 0 /\ Profit(n, p) = IF q <= Amount THEN q ELSE Amount
  <2>1. PICK j : j = Profit(n, p) /\ j > 0
    OBVIOUS
  <2>2. QED
    BY <1>4, <1>5, <2>1, Capped
<1>7. x > 0
  BY <1>0, <1>3, <1>4, <1>6
<1>8. CASE q <= Amount
  <2>1. x - q * Entry \in 1 - Entry .. Entry - 1
    BY <1>0, <1>3, <1>4
  <2>2. QED
    BY <1>0, <1>2, <1>4, <1>6, <1>7, <1>8, <2>1 DEF Owes, x
<1>9. CASE q > Amount
  <2>1. Amount * Entry <= q * Entry
    BY <1>0, <1>4, <1>9
  <2>2. Amount * Entry <= x
    BY <1>0, <1>3, <1>4, <2>1
  <2>3. QED
    BY <1>0, <1>2, <1>4, <1>6, <1>7, <1>9, <2>2 DEF Owes, x
<1>10. QED
  BY <1>4, <1>0, <1>8, <1>9

\* What a side has lost it owes.
LEMMA LossIsOwed ==
    ASSUME NEW s \in Node, NEW p \in Nat, Loss(s, p) > 0
    PROVE  Loss(s, p) \in Owes(s, p)
<1>0. Entry \in Nat \ {0} /\ Amount \in Nat \ {0} /\ Leverage \in Nat \ {0} /\ Long \in BOOLEAN
  BY DerivativesAssumption
<1> DEFINE y == IF IsLong(s) THEN Entry - p ELSE p - Entry
           x == y * Amount * Leverage
           q == (-x) \div Entry
<1>1. y \in Int /\ x \in Int /\ -x \in Int
  BY <1>0
<1>2. (IF IsLong(s) THEN p - Entry ELSE Entry - p) = -y
  BY <1>0
<1>3. (-y) * Amount * Leverage = -x
  BY <1>0, <1>1, Negated
<1>4. Loss(s, p) = Min({Max({-q, 0}), Amount})
  BY <1>2, <1>3 DEF Loss, Roi
<1>5. q \in Int /\ q * Entry <= -x /\ -x < q * Entry + Entry
  BY <1>0, <1>1, Quotient
<1> HIDE DEF y, x, q
<1>6. -q \in Int
  BY <1>5
<1>7. -q > 0 /\ Loss(s, p) = IF -q <= Amount THEN -q ELSE Amount
  <2>1. PICK j : j = Loss(s, p) /\ j > 0
    OBVIOUS
  <2>2. QED
    BY <1>4, <1>6, <2>1, Capped
<1> DEFINE k == -q
<1>8. k \in Int /\ k > 0 /\ k * Entry = -(q * Entry)
  BY <1>0, <1>5, <1>7
<1> HIDE DEF k
<1>9. x <= k * Entry /\ x > k * Entry - Entry
  BY <1>0, <1>1, <1>5, <1>8
<1>10. k * Entry >= Entry
  BY <1>0, <1>8
<1>11. x > 0
  BY <1>0, <1>1, <1>8, <1>9, <1>10
<1>12. Loss(s, p) = IF k <= Amount THEN k ELSE Amount
  BY <1>7 DEF k
<1>13. CASE k <= Amount
  <2>1. x - k * Entry \in 1 - Entry .. Entry - 1
    BY <1>0, <1>1, <1>8, <1>9
  <2>2. QED
    BY <1>0, <1>8, <1>11, <1>12, <1>13, <2>1 DEF Owes, x, y
<1>14. CASE k > Amount
  <2>1. Amount * Entry <= (k - 1) * Entry
    BY <1>0, <1>8, <1>14
  <2>2. (k - 1) * Entry = k * Entry - Entry
    BY <1>0, <1>8
  <2>3. Amount * Entry <= x
    BY <1>0, <1>1, <1>8, <1>9, <2>1, <2>2
  <2>4. QED
    BY <1>0, <1>8, <1>11, <1>12, <1>14, <2>3 DEF Owes, x, y
<1>15. QED
  BY <1>0, <1>8, <1>13, <1>14

\* What a second cost stays what it cost.
LEMMA PricedNext ==
    ASSUME IInv, Priced, Elapses,
           nd'["O"].born \in {0, 1},
           nd'["A"].out.st = "none" =>
              now' <= 1 /\ nd["A"].out.st = "none" /\ \A n \in Node : nd'[n].paid = nd[n].paid,
           \A n \in Node : /\ nd'[n].in.res = nd[n].in.res \/ Claims(n, nd'[n].in.res)
                           /\ nd'[n].paid = nd[n].paid \/ AsPriced(nd'[n].paid)
                           /\ nd'[n].conds # {} => nd'[n].paid = Zero
    PROVE  Priced'
<1>1. now \in Nat /\ now' \in Nat /\ now <= now' /\ \A t \in 1 .. now : t \in 1 .. now' /\ price'[t] = price[t]
  BY Clock DEF IInv, Elapses
<1>2. ASSUME NEW n \in Node
      PROVE  Claims(n, nd[n].in.res)'
  <2>1. PICK r : r = nd'[n].in.res
    OBVIOUS
  <2>2. Claims(n, r)
    BY <2>1 DEF Priced
  <2>3. r.amt > 0 => r.at \in 1 .. now' /\ r.amt = Profit(n, price'[r.at])
    BY <1>1, <2>2 DEF Claims
  <2>4. QED
    BY <2>1, <2>3 DEF Claims, Profit, Roi
<1>3. ASSUME NEW n \in Node
      PROVE  AsPriced(nd[n].paid)'
  <2>1. PICK pd : pd = nd'[n].paid
    OBVIOUS
  <2>2. AsPriced(pd)
    BY <2>1 DEF Priced
  <2>3. pd # Zero => \E s \in Node, t \in 1 .. now' :
                        /\ pd[Peer(s)] = 0
                        /\ \E c \in Owes(s, price'[t]) : pd[s] = Pays(s, c)
    BY <1>1, <2>2 DEF AsPriced
  <2>4. QED
    BY <2>1, <2>3, ZenonT(30) DEF AsPriced, Owes, Pays, Zero
<1>4. QED
  BY <1>2, <1>3 DEF Priced, Zero

\* The record e of n owes what d owes, and its resolve is that of d or a claim of n.
Follow(n, e, d) ==
    /\ e.paid = d.paid /\ (e.conds # {} => d.conds # {}) /\ (e.out.st = "none" => d.out.st = "none")
    /\ e.in.res = d.in.res \/ Claims(n, e.in.res)

\* A step of no node but those whose debts stay.
LEMMA FollowPriced ==
    ASSUME IInv, Priced, Still, \A n \in Node : Follow(n, nd'[n], nd[n])
    PROVE  Priced'
<1>1. Elapses /\ now' = now
  BY Clock DEF IInv, Shape, Still, Elapses, now
<1>2. nd'["O"].born \in {0, 1}
  <2>1. Moves("O")
    BY Nodes DEF Still
  <2>2. CASE CanCreate /\ nd'["O"].born = now
    <3>1. nd["A"].out.st = "none"
      BY <2>2 DEF CanCreate, Free, NoHalf, IInv, Begun
    <3>2. now <= 1 /\ now \in Nat
      BY <3>1, Clock DEF Priced, IInv
    <3>3. QED
      BY <2>2, <3>2
  <2>3. QED
    BY <2>1, <2>2 DEF Moves, Same, Priced
<1>3. QED
  BY <1>1, <1>2, Nodes, PricedNext DEF Follow, Priced

\* Statuses, tasks and outgoing resolves are apart from the debts.
LEMMA FollowRecord ==
    ASSUME NEW n \in Node, NEW d, Fields(d), NEW x, x # "none"
    PROVE  /\ Follow(n, d, d)
           /\ Follow(n, [d EXCEPT !.tasks = x], d) /\ Follow(n, [d EXCEPT !.active = x], d)
           /\ Follow(n, [d EXCEPT !.hedged = x], d) /\ Follow(n, [d EXCEPT !.out.res = x], d)
           /\ Follow(n, [d EXCEPT !.in.st = x], d) /\ Follow(n, [d EXCEPT !.out.st = x], d)
           /\ Follow(n, [d EXCEPT !.conds = {}], d) /\ Follow(n, [d EXCEPT !.conds = {}, !.in.st = x], d)
           /\ Follow(n, Drop(d, x), d) /\ Follow(n, Pair(d, x), d)
           /\ Follow(n, [d EXCEPT !.tasks = @ \cup {x}], d)
BY DEF Fields, Follow, Drop, Pair

\* One change after another.
LEMMA FollowBoth ==
    ASSUME NEW n, NEW c, NEW d, NEW e, Follow(n, e, d), Follow(n, d, c)
    PROVE  Follow(n, e, c)
BY DEF Follow

\* A look at the prices changes no debt.
LEMMA FollowRefreshed ==
    ASSUME Shape, NEW n \in Node
    PROVE  Follow(n, Refreshed(n), nd[n]) /\ Fields(Refreshed(n))
BY RefreshedKeeps DEF KeepsAll, Keeps, Follow

\* What a node resolves when it closes is nothing, what it had resolved, or its profit now.
LEMMA FollowClose ==
    ASSUME Shape, Known, NEW n \in Node, NEW d, Fields(d), got[n] # {}
    PROVE  Follow(n, CloseDerivative(d, n), d)
<1>1. CASE n \notin d.conds \/ ~d.active
  BY <1>1 DEF CloseDerivative, Follow
<1>2. CASE n \in d.conds /\ d.active
  <2>1. PICK r : r = IF d.out.res.amt > 0 THEN [amt |-> 0, at |-> d.out.res.at]
                     ELSE IF d.in.res # NoRes THEN d.in.res
                     ELSE [amt |-> Profit(n, price[Latest(n)]), at |-> Latest(n)]
    OBVIOUS
  <2>2. CloseDerivative(d, n) = [d EXCEPT !.out.st = "wantclose", !.in.st = "wantclose", !.tasks = @ \cup {"close"},
                                          !.in.res = r]
    BY <1>2, <2>1 DEF CloseDerivative, Fields
  <2>3. PICK e : e = CloseDerivative(d, n)
    OBVIOUS
  <2>4. e.paid = d.paid /\ e.conds = d.conds /\ e.out.st = "wantclose" /\ e.in.res = r
    <3>1. e = [conds |-> d.conds, paid |-> d.paid, out |-> [st |-> "wantclose", res |-> d.out.res],
               in |-> [st |-> "wantclose", res |-> r], born |-> d.born, mon |-> d.mon, hedged |-> d.hedged,
               active |-> d.active, tasks |-> d.tasks \cup {"close"}]
      BY <2>2, <2>3, ZenonT(60) DEF Fields
    <3>2. QED
      BY <3>1
  <2>5. Latest(n) \in 1 .. now
    BY LatestIs DEF Known
  <2>6. r = d.in.res \/ Claims(n, r)
    BY <2>1, <2>5 DEF Claims
  <2>7. QED
    BY <2>3, <2>4, <2>6 DEF Follow
<1>3. QED
  BY <1>1, <1>2

\* So with a resolve of the losing side.
LEMMA FollowResolved ==
    ASSUME Shape, Known, NEW n \in Node, NEW d, Fields(d), got[n] # {}, NEW r
    PROVE  /\ Follow(n, [d EXCEPT !.out.res = r], d)
           /\ Follow(n, CloseDerivative([d EXCEPT !.out.res = r], n), d)
<1>1. PICK e : e = [d EXCEPT !.out.res = r]
  OBVIOUS
<1>2. Fields(e) /\ Follow(n, e, d)
  BY <1>1 DEF Fields, Follow
<1>3. Follow(n, CloseDerivative(e, n), e)
  BY <1>2, FollowClose
<1>4. QED
  BY <1>1, <1>2, <1>3, FollowBoth

\* So with a liquidation.
LEMMA FollowLiquidate ==
    ASSUME Shape, Known, NEW n \in Node, NEW d, Fields(d), got[n] # {}
    PROVE  Follow(n, Liquidate(d, n), d)
<1> DEFINE r == [amt |-> Amount, at |-> d.mon.liq]
<1>1. Follow(n, CloseDerivative([d EXCEPT !.out.res = r], n), d)
  BY FollowResolved, Zenon
<1>2. Follow(n, CloseDerivative(d, n), d) /\ Follow(n, d, d)
  BY FollowClose DEF Follow
<1>3. QED
  BY <1>1, <1>2 DEF Liquidate

\* A step that changes the record of one node.
LEMMA FollowOne ==
    ASSUME IInv, NEW n \in Node, NEW e, nd' = [nd EXCEPT ![n] = e], Follow(n, e, nd[n])
    PROVE  \A k \in Node : Follow(k, nd'[k], nd[k])
<1>1. nd'[n] = e /\ \A k \in Node : k # n => nd'[k] = nd[k]
  BY DEF IInv, Shape
<1>2. \A k \in Node : k # n => Follow(k, nd'[k], nd[k])
  BY <1>1 DEF Follow
<1>3. QED
  BY <1>1, <1>2

\* A monitor changes only if the node has a price.
LEMMA WatchHasPrice ==
    ASSUME Shape, NEW n \in Node, Refreshed(n) # nd[n]
    PROVE  got[n] # {}
<1>1. Fields(nd[n])
  BY DEF Shape
<1>2. CASE got[n] = {} /\ Monitored(nd[n])
  <2>1. Monitor(n) = nd[n].mon
    BY <1>2 DEF Monitor
  <2>2. Refreshed(n) = [nd[n] EXCEPT !.mon = nd[n].mon]
    BY <1>2, <2>1 DEF Refreshed
  <2>3. Refreshed(n) = nd[n]
    <3>1. PICK d : d = nd[n] /\ Fields(d)
      BY <1>1
    <3>2. [d EXCEPT !.mon = d.mon] = d
      BY <3>1 DEF Fields
    <3>3. QED
      BY <2>2, <3>1, <3>2
  <2>4. QED
    BY <2>3
<1>3. QED
  BY <1>2 DEF Refreshed

\* The price worker and the requests of the users.
LEMMA AskingFollows ==
    ASSUME IInv, NEW n \in Node, Watch(n) \/ AskClose(n) \/ AskCancel(n)
    PROVE  \A k \in Node : Follow(k, nd'[k], nd[k])
<1>0. Shape /\ Known
  BY DEF IInv
<1>1. PICK d : d = Refreshed(n) /\ Fields(d) /\ Follow(n, d, nd[n])
  BY <1>0, FollowRefreshed
<1>2. CASE Watch(n)
  <2>1. PICK e : nd' = [nd EXCEPT ![n] = e] /\ e \in {Liquidate(d, n), d}
    BY <1>1, <1>2 DEF Watch
  <2>2. got[n] # {}
    BY <1>0, <1>2, WatchHasPrice DEF Watch
  <2>3. Follow(n, e, d)
    BY <1>0, <1>1, <2>1, <2>2, FollowLiquidate DEF Follow
  <2>4. QED
    BY <1>1, <2>1, <2>3, FollowBoth, FollowOne
<1>3. CASE AskClose(n)
  <2>1. PICK r : r = [amt |-> Loss(n, price[Latest(n)]), at |-> Latest(n)]
    OBVIOUS
  <2>2. PICK e : /\ nd' = [nd EXCEPT ![n] = e]
                 /\ e \in {CloseDerivative([d EXCEPT !.out.res = r], n), [d EXCEPT !.out.res = r]}
    BY <1>1, <1>3, <2>1 DEF AskClose
  <2>3. got[n] # {}
    BY <1>3 DEF AskClose
  <2>4. Follow(n, e, d)
    BY <1>0, <1>1, <2>2, <2>3, FollowResolved
  <2>5. QED
    BY <1>1, <2>2, <2>4, FollowBoth, FollowOne
<1>4. CASE AskCancel(n)
  <2>1. PICK e : e = [d EXCEPT !.tasks = @ \cup {"remove"}] /\ nd' = [nd EXCEPT ![n] = e]
    BY <1>1, <1>4 DEF AskCancel
  <2>2. Follow(n, e, d)
    BY <1>1, <2>1, FollowRecord
  <2>3. QED
    BY <1>1, <2>1, <2>2, FollowBoth, FollowOne
<1>5. QED
  BY <1>2, <1>3, <1>4

\* Tasks that end, and the end of the channel.
LEMMA TasksFollow ==
    ASSUME IInv, NEW n \in Node,
           SetHedged \/ OpenPosition \/ CloseDone(n) \/ RemoveDone(n) \/ Uncoop(n) \/ Inactive(n)
    PROVE  \A k \in Node : Follow(k, nd'[k], nd[k])
<1>1. \A k \in Node : Fields(nd[k])
  BY DEF IInv, Shape
<1>2. CASE SetHedged
  <2>1. PICK d : d = nd["A"] /\ Fields(d)
    BY <1>1, Nodes
  <2>2. PICK e : e = [d EXCEPT !.hedged = ~@] /\ nd' = [nd EXCEPT !["A"] = e]
    BY <1>2, <2>1 DEF SetHedged
  <2>3. Follow("A", e, d)
    BY <2>1, <2>2 DEF Fields, Follow
  <2>4. QED
    BY <2>1, <2>2, <2>3, Nodes, FollowOne
<1>3. CASE OpenPosition
  <2>1. PICK e : e = [nd["O"] EXCEPT !.tasks = @ \cup {"create"}] /\ nd' = [nd EXCEPT !["O"] = e]
    BY <1>3 DEF OpenPosition
  <2>2. Follow("O", e, nd["O"])
    BY <1>1, <2>1, Nodes, FollowRecord
  <2>3. QED
    BY <2>1, <2>2, Nodes, FollowOne
<1>4. CASE CloseDone(n) \/ Uncoop(n)
  <2>1. PICK t : t # "none" /\ nd' = [nd EXCEPT ![n] = Drop(nd[n], t)]
    BY <1>4 DEF CloseDone, Uncoop
  <2>2. Follow(n, Drop(nd[n], t), nd[n])
    BY <1>1, <2>1, FollowRecord
  <2>3. QED
    BY <2>1, <2>2, FollowOne
<1>5. CASE RemoveDone(n)
  <2>1. PICK d, x : d = Drop(nd[n], "remove") /\ nd' = [nd EXCEPT ![n] = [d EXCEPT !.in.st = x]]
    BY <1>5 DEF RemoveDone
  <2>2. Fields(d) /\ Follow(n, d, nd[n])
    BY <1>1, <2>1, DropIs, FollowRecord
  <2>3. Follow(n, [d EXCEPT !.in.st = x], d)
    BY <2>2 DEF Fields, Follow
  <2>4. QED
    BY <2>1, <2>2, <2>3, FollowBoth, FollowOne
<1>6. CASE Inactive(n)
  <2>1. PICK d : d = nd[n] /\ Fields(d)
    BY <1>1
  <2>2. PICK e : e = [d EXCEPT !.active = FALSE]
    OBVIOUS
  <2>3. e = [conds |-> d.conds, paid |-> d.paid, out |-> d.out, in |-> d.in, born |-> d.born, mon |-> d.mon,
             hedged |-> d.hedged, active |-> FALSE, tasks |-> d.tasks]
    BY <2>1, <2>2 DEF Fields
  <2>4. Fields(e) /\ Follow(n, e, d)
    BY <2>1, <2>3 DEF Fields, Follow
  <2>5. PICK f : f = Final(d) /\ (f = e \/ \E st \in {"closed", "removed"} : f = Pair(e, st))
    BY <2>2 DEF Final
  <2>6. Follow(n, f, e)
    <3>1. \A x : x # "none" => Follow(n, Pair(e, x), e)
      BY <2>4, FollowRecord
    <3>2. Follow(n, e, e)
      BY DEF Follow
    <3>3. f = e \/ \E x : x # "none" /\ f = Pair(e, x)
      BY <2>5
    <3>4. QED
      BY <3>1, <3>2, <3>3
  <2>7. nd' = [nd EXCEPT ![n] = f]
    BY <1>6, <2>1, <2>5 DEF Inactive
  <2>8. QED
    BY <2>1, <2>4, <2>6, <2>7, FollowBoth, FollowOne
<1>7. QED
  BY <1>2, <1>3, <1>4, <1>5, <1>6

\* The metas of an order change no debt.
LEMMA CreatedFollows ==
    ASSUME NEW n \in Node, NEW d, Fields(d)
    PROVE  Follow(n, Created(d), d) /\ Fields(Created(d))
<1>1. Fields(Created(d))
  BY CreatedIs
<1>2. CASE d.out.st # "none"
  BY <1>1, <1>2 DEF Created, Follow
<1>3. CASE d.out.st = "none"
  <2>1. PICK f : f = Pair(d, "pending") /\ Fields(f) /\ Follow(n, f, d)
    BY PairIs, FollowRecord
  <2>2. PICK e : e = Created(d) /\ e = [f EXCEPT !.born = now, !.mon.last = now - 1]
    BY <1>3, <2>1 DEF Created
  <2>3. Follow(n, e, f)
    BY <2>1, <2>2 DEF Fields, Follow
  <2>4. QED
    BY <1>1, <2>1, <2>2, <2>3, FollowBoth
<1>4. QED
  BY <1>2, <1>3

\* An opening that does not come about.
LEMMA OpeningFollows ==
    ASSUME IInv, CreateFails \/ CreateDenied
    PROVE  \A k \in Node : Follow(k, nd'[k], nd[k])
<1>1. PICK d : d = nd["O"] /\ Fields(d)
  BY Nodes DEF IInv, Shape
<1>2. PICK c : c = Created(d) /\ Fields(c) /\ Follow("O", c, d)
  BY <1>1, Nodes, CreatedFollows
<1>3. PICK f : f = Drop(c, "create") /\ Fields(f) /\ Follow("O", f, c)
  BY <1>2, Nodes, DropIs, FollowRecord
<1>4. PICK g : g = [f EXCEPT !.out.st = "wantremove"] /\ Follow("O", g, f)
  BY <1>3, Nodes, FollowRecord
<1>5. PICK e \in {c, f, g} : nd' = [nd EXCEPT !["O"] = e]
  BY <1>1, <1>2, <1>3, <1>4 DEF CreateFails, CreateDenied
<1>6. Follow("O", e, d)
  BY <1>2, <1>3, <1>4, <1>5, FollowBoth
<1>7. QED
  BY <1>1, <1>5, <1>6, Nodes, FollowOne

\* A pair that is cancelled, or is not.
LEMMA ExchangeFollows ==
    ASSUME IInv, NEW n \in Node,
           AcceptRemove(n) \/ DenyRemove(n) \/ Lose \/ Resend(n) \/ (Confirm(n) /\ half.type = "rem")
    PROVE  \A k \in Node : Follow(k, nd'[k], nd[k])
<1>0. PICK m \in Node : m = Peer(n) /\ m # n /\ \A k \in Node : k \in {m, n}
  BY Nodes DEF Node, Peer
<1>1. DOMAIN nd = Node /\ Shape /\ \A k \in Node : Fields(nd[k])
  BY DEF IInv, Shape
<1>2. PICK c, d : /\ c = Refreshed(n) /\ Fields(c) /\ Follow(n, c, nd[n])
                  /\ d = Refreshed(m) /\ Fields(d) /\ Follow(m, d, nd[m])
  BY <1>1, FollowRefreshed
<1>3. CASE AcceptRemove(n) \/ DenyRemove(n)
  <2>1. PICK e : e = [c EXCEPT !.tasks = @ \cup {"uncoop"}] /\ Follow(n, e, c)
    BY <1>2, FollowRecord
  <2>2. PICK f : f = [d EXCEPT !.conds = {}] /\ Follow(m, f, d)
    <3>1. PICK f : f = [d EXCEPT !.conds = {}]
      OBVIOUS
    <3>2. Follow(m, f, d)
      BY <1>2, <3>1 DEF Fields, Follow
    <3>3. QED
      BY <3>1, <3>2
  <2>3. nd' = [nd EXCEPT ![n] = c, ![m] = f] \/ nd' = [nd EXCEPT ![n] = e, ![m] = d]
    BY <1>0, <1>2, <1>3, <2>1, <2>2 DEF AcceptRemove, DenyRemove
  <2>4. nd'[n] \in {c, e} /\ nd'[m] \in {d, f}
    BY <1>0, <1>1, <2>3
  <2>5. Follow(n, nd'[n], nd[n]) /\ Follow(m, nd'[m], nd[m])
    BY <1>2, <2>1, <2>2, <2>4, FollowBoth, ZenonT(30)
  <2>6. QED
    BY <1>0, <2>5
<1>4. CASE Lose
  BY <1>4 DEF Lose, Follow
<1>5. CASE Resend(n)
  <2>1. PICK e : e \in {c, nd[n]} /\ nd' = [nd EXCEPT ![n] = e]
    BY <1>2, <1>5 DEF Resend
  <2>2. Follow(n, e, nd[n])
    BY <1>2, <2>1 DEF Follow
  <2>3. QED
    BY <2>1, <2>2, FollowOne
<1>6. CASE Confirm(n) /\ half.type = "rem"
  <2>1. PICK f : f = Drop(nd[n], "remove") /\ Fields(f) /\ Follow(n, f, nd[n])
    BY <1>1, DropIs, FollowRecord
  <2>2. PICK e : e = [f EXCEPT !.conds = {}, !.in.st = "wantremove"] /\ Follow(n, e, f)
    BY <2>1, FollowRecord, ZenonT(30)
  <2>3. nd' = [nd EXCEPT ![n] = e]
    BY <1>6, <2>1, <2>2 DEF Confirm
  <2>4. Follow(n, e, nd[n])
    BY <2>1, <2>2, FollowBoth
  <2>5. QED
    BY <2>3, <2>4, FollowOne
<1>7. QED
  BY <1>3, <1>4, <1>5, <1>6

\* The pair is opened when nothing has been paid.
LEMMA AcceptCreatePriced ==
    ASSUME IInv, Priced, AcceptCreate
    PROVE  Priced'
<1>1. Still
  BY OpeningStill
<1>2. Elapses /\ now' = now
  BY <1>1, Clock DEF IInv, Shape, Still, Elapses, now
<1>3. CanCreate /\ nd["A"].out.st = "none"
  BY DEF AcceptCreate, CanCreate, Free, NoHalf, IInv, Begun
<1>4. now <= 1 /\ now \in Nat /\ \A n \in Node : nd[n].paid = Zero
  BY <1>3, Clock DEF Priced, IInv
<1>5. nd'["O"].born \in {0, 1}
  <2>1. nd'["O"].born \in {now, nd["O"].born}
    BY <1>1, Nodes DEF Still, Moves, Same
  <2>2. now \in {0, 1} /\ nd["O"].born \in {0, 1}
    BY <1>4 DEF Priced
  <2>3. QED
    BY <2>1, <2>2
<1>6. PICK c : c = Created(nd["O"]) /\ Follow("O", c, nd["O"])
  BY Nodes, CreatedFollows DEF IInv, Shape
<1>7. PICK f : f = Pair(nd["A"], "active") /\ Fields(f) /\ Follow("A", f, nd["A"]) /\ f.out.st = "active"
  <2>1. PICK d : d = nd["A"] /\ Fields(d)
    BY Nodes DEF IInv, Shape
  <2>2. Fields(Pair(d, "active")) /\ Pair(d, "active").out.st = "active"
    BY <2>1, PairIs
  <2>3. Follow("A", Pair(d, "active"), d)
    BY <2>1, Nodes, FollowRecord
  <2>4. QED
    BY <2>1, <2>2, <2>3
<1>8. PICK a : a = [f EXCEPT !.conds = Node, !.born = now, !.mon.last = now - 1]
  OBVIOUS
<1>9. a.paid = f.paid /\ a.in = f.in /\ a.out.st = "active"
  BY <1>7, <1>8 DEF Fields
<1>10. nd' = [nd EXCEPT !["O"] = c, !["A"] = a]
  BY <1>6, <1>7, <1>8 DEF AcceptCreate
<1>11. nd'["O"] = c /\ nd'["A"] = a
  BY <1>10, Nodes DEF IInv, Shape
<1>12. nd'["A"].out.st # "none"
  BY <1>9, <1>11
<1>13. ASSUME NEW n \in Node
       PROVE  /\ nd'[n].in.res = nd[n].in.res \/ Claims(n, nd'[n].in.res)
              /\ nd'[n].paid = nd[n].paid
  BY <1>6, <1>7, <1>9, <1>11, <1>13 DEF Node, Follow
<1>14. QED
  BY <1>2, <1>4, <1>5, <1>12, <1>13, PricedNext

\* What a settlement makes of no debts, if the resolve is what n claims of m.
LEMMA SettledPriced ==
    ASSUME IInv, NEW n \in Node, NEW m \in Node, m = Peer(n), NEW d, Fields(d), d.paid = Zero,
           NEW r, Claims(n, r), r.at \in 1 .. now, n \in d.conds
    PROVE  AsPriced(Settled(d, m, r).paid)
<1>1. n = Peer(m) /\ m # n /\ \A k \in Node : k \in {m, n}
  BY Nodes DEF Node, Peer
<1>2. price[r.at] \in Nat
  BY DerivativesAssumption DEF IInv, Shape, now
<1>3. PICK x : x = IF r.amt > 0 THEN Pays(m, r.amt) ELSE 0
  OBVIOUS
<1>4. PICK l : l = IF r.amt = 0 THEN Loss(n, price[r.at]) ELSE 0
  OBVIOUS
<1>5. PICK y : y = IF l > 0 THEN Pays(n, l) ELSE 0
  OBVIOUS
<1>6. Settled(d, m, r) = [d EXCEPT !.conds = {}, !.paid[m] = @ + x, !.paid[n] = @ + y]
  BY <1>1, <1>3, <1>4, <1>5 DEF Settled
<1>7. Settled(d, m, r).paid = [d.paid EXCEPT ![m] = @ + x, ![n] = @ + y]
  BY <1>6 DEF Fields
<1>8. PICK pd : pd = Settled(d, m, r).paid
  OBVIOUS
<1>9. pd = [Zero EXCEPT ![m] = 0 + x, ![n] = 0 + y]
  BY <1>1, <1>7, <1>8 DEF Zero
<1>10. DOMAIN pd = Node /\ pd[m] = 0 + x /\ pd[n] = 0 + y
  BY <1>1, <1>9 DEF Zero
<1>11. \A k \in Node, a \in Int : Pays(k, a) \in Int
  <2> SUFFICES ASSUME NEW k \in Node, NEW a \in Int PROVE Pays(k, a) \in Int
    OBVIOUS
  <2>1. Amount \in Int /\ Fee \in Int
    BY DerivativesAssumption
  <2>2. PICK b : b = Min({a, Amount}) /\ b \in Int
    BY <2>1, MinMaxOfTwo
  <2>3. Max({b - Fee, 0}) \in Int /\ b + Fee \in Int
    <3>1. b - Fee \in Int /\ 0 \in Int /\ b + Fee \in Int
      BY <2>1, <2>2
    <3>2. Max({b - Fee, 0}) = IF b - Fee >= 0 THEN b - Fee ELSE 0
      BY <3>1, MinMaxOfTwo
    <3>3. QED
      BY <3>1, <3>2
  <2>4. QED
    BY <2>2, <2>3 DEF Pays
<1>12. CASE r.amt > 0
  <2>1. r.amt = Profit(n, price[r.at])
    BY <1>12 DEF Claims
  <2>2. r.amt \in Owes(m, price[r.at])
    BY <1>2, <1>12, <2>1, ProfitIsOwed
  <2>3. r.amt \in Int
    BY <2>2, DerivativesAssumption DEF Owes
  <2>4. x \in Int /\ x = Pays(m, r.amt) /\ y = 0
    BY <1>3, <1>4, <1>5, <1>11, <1>12, <2>3
  <2>5. pd[m] = Pays(m, r.amt) /\ pd[Peer(m)] = 0
    <3>1. 0 + x = x /\ 0 + y = 0
      BY <2>4
    <3>2. QED
      BY <1>1, <1>10, <2>4, <3>1
  <2>6. QED
    BY <1>8, <2>2, <2>5 DEF AsPriced
<1>13. CASE ~(r.amt > 0) /\ l > 0
  <2>1. l = Loss(n, price[r.at])
    BY <1>4, <1>13
  <2>2. l \in Owes(n, price[r.at])
    BY <1>2, <1>13, <2>1, LossIsOwed
  <2>3. l \in Int
    BY <2>2, DerivativesAssumption DEF Owes
  <2>4. x = 0 /\ y = Pays(n, l) /\ y \in Int
    BY <1>3, <1>5, <1>11, <1>13, <2>3
  <2>5. pd[n] = Pays(n, l) /\ pd[Peer(n)] = 0
    <3>1. 0 + x = 0 /\ 0 + y = y
      BY <2>4
    <3>2. QED
      BY <1>1, <1>10, <2>4, <3>1
  <2>6. QED
    BY <1>8, <2>2, <2>5 DEF AsPriced
<1>14. CASE ~(r.amt > 0) /\ ~(l > 0)
  <2>1. x = 0 /\ y = 0
    BY <1>3, <1>5, <1>14
  <2>2. pd = Zero
    <3>1. 0 + x = 0 /\ 0 + y = 0
      BY <2>1
    <3>2. pd = [Zero EXCEPT ![m] = 0, ![n] = 0]
      BY <1>9, <3>1
    <3>3. QED
      BY <3>2 DEF Zero
  <2>3. QED
    BY <1>8, <2>2 DEF AsPriced
<1>15. QED
  BY <1>12, <1>13, <1>14

\* The party settles.
LEMMA AcceptClosePriced ==
    ASSUME IInv, Priced, NEW n \in Node, AcceptClose(n)
    PROVE  Priced'
<1>0. PICK m \in Node : m = Peer(n) /\ m # n /\ \A k \in Node : k \in {m, n}
  BY Nodes DEF Node, Peer
<1>1. Still
  BY ExchangeStill
<1>2. Elapses /\ now' = now
  BY <1>1, Clock DEF IInv, Shape, Still, Elapses, now
<1>3. PICK d, r : d = nd[m] /\ Fields(d) /\ r = nd[n].in.res
  BY DEF IInv, Shape
<1>4. /\ nd' = [nd EXCEPT ![m] = Pair(Settled(d, m, r), "closed")]
      /\ m \in d.conds /\ r.at \in got[m] /\ ~CanCreate
  <2>1. /\ nd' = [nd EXCEPT ![m] = Pair(Settled(d, m, r), "closed")]
        /\ m \in d.conds /\ r.at \in got[m] /\ Peer(n) \in nd[n].conds /\ Free
    BY <1>0, <1>3 DEF AcceptClose, TakesResolve, Valid, CanClose
  <2>2. half.type = "none"
    BY <2>1 DEF Free, NoHalf
  <2>3. nd["O"].conds = nd["A"].conds
    BY <2>2 DEF IInv, Exchange
  <2>4. nd["O"].conds # {}
    BY <1>0, <1>3, <2>1, <2>3 DEF Node
  <2>5. ~CanCreate
    BY <2>4 DEF CanCreate, IInv, Begun
  <2>6. QED
    BY <2>1, <2>5
<1>5. d.paid = Zero /\ n \in d.conds /\ r.at \in 1 .. now /\ Claims(n, r)
  <2>1. d.conds = Node
    BY <1>3, <1>4 DEF IInv, Exchange
  <2>2. QED
    BY <1>3, <1>4, <2>1 DEF Priced, IInv, Known
<1>6. PICK e : e = Settled(d, m, r) /\ Fields(e) /\ e.conds = {} /\ AsPriced(e.paid) /\ e.in = d.in
  <2>1. Fields(Settled(d, m, r)) /\ Settled(d, m, r).conds = {}
    BY <1>3, SettledIs
  <2>2. AsPriced(Settled(d, m, r).paid)
    BY <1>0, <1>3, <1>5, SettledPriced
  <2>3. Settled(d, m, r).in = d.in
    <3>1. PICK x, y : Settled(d, m, r) = [d EXCEPT !.conds = {}, !.paid[m] = @ + x, !.paid[Peer(m)] = @ + y]
      BY DEF Settled
    <3>2. QED
      BY <1>3, <3>1 DEF Fields
  <2>4. QED
    BY <2>1, <2>2, <2>3
<1>7. PICK f : /\ f = Pair(e, "closed") /\ f.conds = {} /\ f.paid = e.paid /\ f.in.res = d.in.res
               /\ f.out.st = "closed"
  <2>1. PICK f : f = Pair(e, "closed") /\ f.conds = {} /\ f.paid = e.paid /\ f.out.st = "closed"
    BY <1>6, PairIs
  <2>2. f.in.res = e.in.res
    BY <1>6, <2>1 DEF Pair, Fields
  <2>3. QED
    BY <1>6, <2>1, <2>2
<1>8. nd'[m] = f /\ nd'[n] = nd[n]
  BY <1>0, <1>4, <1>6, <1>7 DEF IInv, Shape
<1>9. nd'["O"].born \in {0, 1}
  BY <1>1, <1>4, Nodes DEF Still, Moves, Same, Priced
<1>10. nd'["A"].out.st # "none"
  <2>1. CASE m = "A"
    BY <1>7, <1>8, <2>1
  <2>2. CASE n = "A"
    BY <1>3, <1>4, <1>8, <2>2, Nodes DEF AcceptClose, CanClose, Free, NoHalf, IInv, Exchange, Begun
  <2>3. QED
    BY <1>0, <2>1, <2>2, Nodes
<1>11. ASSUME NEW k \in Node
       PROVE  /\ nd'[k].in.res = nd[k].in.res
              /\ nd'[k].paid = nd[k].paid \/ AsPriced(nd'[k].paid)
              /\ nd'[k].conds # {} => nd'[k].paid = Zero
  BY <1>0, <1>3, <1>6, <1>7, <1>8 DEF Priced
<1>12. QED
  BY <1>2, <1>9, <1>10, <1>11, PricedNext

\* The proposer saves the opening: it owes what the party owes, nothing.
LEMMA ConfirmAddPriced ==
    ASSUME IInv, Priced, NEW n \in Node, Confirm(n), half.type = "add"
    PROVE  Priced'
<1>1. Still
  BY ExchangeStill
<1>2. Elapses /\ now' = now
  BY <1>1, Clock DEF IInv, Shape, Still, Elapses, now
<1>3. /\ n = "O" /\ nd["A"].conds = Node /\ nd["O"].paid = nd["A"].paid
      /\ nd' = [nd EXCEPT ![n] = [Drop(Pair(nd[n], "active"), "create") EXCEPT !.conds = Node]]
  BY DEF Confirm, IInv, Exchange
<1>4. nd["A"].paid = Zero /\ nd["O"].paid = Zero /\ nd["A"].out.st # "none" /\ ~CanCreate
  BY <1>3, Nodes DEF Priced, IInv, Begun, CanCreate, Free, NoHalf
<1>5. PICK d : d = nd["O"] /\ Fields(d)
  BY Nodes DEF IInv, Shape
<1>6. PICK f : f = Pair(d, "active") /\ Fields(f) /\ f.paid = d.paid /\ f.in.res = d.in.res
  <2>1. PICK f : f = Pair(d, "active") /\ Fields(f) /\ f.paid = d.paid
    BY <1>5, PairIs
  <2>2. f.in.res = d.in.res
    BY <1>5, <2>1 DEF Pair, Fields
  <2>3. QED
    BY <2>1, <2>2
<1>7. PICK g : g = Drop(f, "create") /\ Fields(g) /\ g.paid = f.paid /\ g.in = f.in
  BY <1>6, DropIs
<1>8. PICK e : e = [g EXCEPT !.conds = Node]
  OBVIOUS
<1>9. e.paid = g.paid /\ e.in = g.in
  BY <1>7, <1>8 DEF Fields
<1>10. nd'["O"] = e /\ nd'["A"] = nd["A"]
  BY <1>3, <1>5, <1>6, <1>7, <1>8, Nodes DEF IInv, Shape
<1>11. nd'["O"].born \in {0, 1}
  BY <1>1, <1>4, Nodes DEF Still, Moves, Same, Priced
<1>12. ASSUME NEW k \in Node
       PROVE  /\ nd'[k].in.res = nd[k].in.res
              /\ nd'[k].paid = nd[k].paid
              /\ nd'[k].paid = Zero
  BY <1>4, <1>5, <1>6, <1>7, <1>9, <1>10 DEF Node
<1>13. QED
  BY <1>2, <1>4, <1>10, <1>11, <1>12, PricedNext

\* The proposer saves the settlement: it owes what the party has settled to.
LEMMA ConfirmExecPriced ==
    ASSUME IInv, Priced, NEW n \in Node, Confirm(n), half.type = "exec"
    PROVE  Priced'
<1>0. PICK m \in Node : m = Peer(n) /\ m # n /\ \A k \in Node : k \in {m, n}
  BY Nodes DEF Node, Peer
<1>1. Still
  BY ExchangeStill
<1>2. Elapses /\ now' = now
  BY <1>1, Clock DEF IInv, Shape, Still, Elapses, now
<1>3. PICK d : d = nd[n] /\ Fields(d)
  BY DEF IInv, Shape
<1>4. PICK e : e = Settled(d, m, half.res) /\ Fields(e) /\ e.conds = {} /\ e.in = d.in
  <2>1. Fields(Settled(d, m, half.res)) /\ Settled(d, m, half.res).conds = {}
    BY <1>3, SettledIs
  <2>2. Settled(d, m, half.res).in = d.in
    <3>1. PICK x, y : Settled(d, m, half.res) = [d EXCEPT !.conds = {}, !.paid[m] = @ + x, !.paid[Peer(m)] = @ + y]
      BY DEF Settled
    <3>2. QED
      BY <1>3, <3>1 DEF Fields
  <2>3. QED
    BY <2>1, <2>2
<1>5. e.paid = nd[m].paid /\ nd["A"].out.st # "none" /\ ~CanCreate
  <2>1. half.by = n
    BY DEF Confirm
  <2>2. nd[m].paid = Settled(d, m, half.res).paid
    BY <1>0, <1>3, <2>1 DEF IInv, Exchange
  <2>3. QED
    BY <1>4, <2>2 DEF IInv, Begun, CanCreate, Free, NoHalf
<1>6. PICK g : g = Drop(e, "close") /\ Fields(g) /\ g.conds = {} /\ g.paid = e.paid /\ g.in = e.in
  BY <1>4, DropIs
<1>7. PICK f : f = Pair(g, "closed") /\ f.conds = {} /\ f.paid = g.paid /\ f.out.st = "closed"
  BY <1>6, PairIs
<1>8. f.in.res = g.in.res
  BY <1>6, <1>7 DEF Pair, Fields
<1>9. nd' = [nd EXCEPT ![n] = f]
  BY <1>0, <1>3, <1>4, <1>6, <1>7 DEF Confirm
<1>10. nd'[n] = f /\ nd'[m] = nd[m]
  BY <1>0, <1>9 DEF IInv, Shape
<1>11. nd'["O"].born \in {0, 1}
  BY <1>1, <1>5, Nodes DEF Still, Moves, Same, Priced
<1>12. nd'["A"].out.st # "none"
  BY <1>0, <1>5, <1>7, <1>10, Nodes
<1>13. ASSUME NEW k \in Node
       PROVE  /\ nd'[k].in.res = nd[k].in.res
              /\ nd'[k].paid = nd[k].paid \/ AsPriced(nd'[k].paid)
              /\ nd'[k].conds # {} => nd'[k].paid = Zero
  <2>1. CASE k = n
    <3>1. AsPriced(nd[m].paid)
      BY DEF Priced
    <3>2. QED
      BY <1>3, <1>4, <1>5, <1>6, <1>7, <1>8, <1>10, <2>1, <3>1
  <2>2. CASE k = m
    BY <1>10, <2>2 DEF Priced
  <2>3. QED
    BY <1>0, <2>1, <2>2
<1>14. QED
  BY <1>2, <1>11, <1>12, <1>13, PricedNext

\* A new second: A knows of the position when the second second begins.
LEMMA TickPriced ==
    ASSUME IInv, Priced, Tick
    PROVE  Priced'
<1>1. PICK p \in Prices : price' = Append(price, p)
  BY DEF Tick
<1>2. price \in Seq(Prices) /\ nd' = nd
  BY DEF IInv, Shape, Tick
<1>3. now \in Nat /\ now' = now + 1 /\ Elapses
  BY <1>1, <1>2 DEF now, Elapses
<1>4. nd["A"].out.st = "none" => now' <= 1
  BY <1>3 DEF Tick, Running
<1>5. nd'["O"].born \in {0, 1} /\ \A n \in Node : nd'[n] = nd[n] /\ (nd[n].conds # {} => nd[n].paid = Zero)
  BY <1>2 DEF Priced
<1>6. QED
  BY <1>2, <1>3, <1>4, <1>5, PricedNext

\* The samples of a node are no debts.
LEMMA FetchPriced ==
    ASSUME IInv, Priced, price' = price, nd' = nd
    PROVE  Priced'
<1>1. Elapses /\ now' = now /\ now \in Nat
  BY Clock DEF IInv, Shape, Elapses, now
<1>2. \A n \in Node : Claims(n, nd[n].in.res)' = Claims(n, nd[n].in.res) /\ AsPriced(nd[n].paid)' = AsPriced(nd[n].paid)
  BY <1>1 DEF Claims, AsPriced, Profit, Roi, Owes, Pays, Zero
<1>3. QED
  BY <1>1, <1>2 DEF Priced, Zero

\* Every step keeps what is said of the debts.
LEMMA StepPriced ==
    ASSUME IInv, Priced, [Next]_vars
    PROVE  Priced'
<1>1. CASE Tick
  BY <1>1, TickPriced
<1>2. CASE SetHedged \/ OpenPosition
  BY <1>2, Nodes, TasksStill, TasksFollow, FollowPriced
<1>3. CASE CreateFails \/ CreateDenied
  BY <1>3, OpeningStill, OpeningFollows, FollowPriced
<1>4. CASE AcceptCreate
  BY <1>4, AcceptCreatePriced
<1>5. CASE Lose
  BY <1>5, Nodes, ExchangeStill, ExchangeFollows, FollowPriced
<1>6. ASSUME NEW n \in Node, NodeStep(n)
      PROVE  Priced'
  <2>1. CASE Fetch(n)
    BY <2>1, FetchPriced DEF Fetch
  <2>2. CASE Watch(n) \/ AskClose(n) \/ AskCancel(n)
    BY <2>2, AskingStill, AskingFollows, FollowPriced
  <2>3. CASE CloseDone(n) \/ RemoveDone(n) \/ Uncoop(n) \/ Inactive(n)
    BY <2>3, TasksStill, TasksFollow, FollowPriced
  <2>4. CASE AcceptClose(n)
    BY <2>4, AcceptClosePriced
  <2>5. CASE AcceptRemove(n) \/ DenyRemove(n) \/ Resend(n) \/ (Confirm(n) /\ half.type = "rem")
    BY <2>5, ExchangeStill, ExchangeFollows, FollowPriced
  <2>6. CASE Confirm(n) /\ half.type # "rem"
    BY <2>6, ConfirmAddPriced, ConfirmExecPriced DEF Confirm
  <2>7. QED
    BY <1>6, <2>1, <2>2, <2>3, <2>4, <2>5, <2>6 DEF NodeStep
<1>7. CASE UNCHANGED vars
  BY <1>7, FetchPriced DEF vars
<1>8. QED
  BY <1>1, <1>2, <1>3, <1>4, <1>5, <1>6, <1>7 DEF Next

\* Whatever the order of closes, liquidations, crossing resolves and lost answers, and for
\* every order and price history, a position is settled once, by one side, and for what a
\* price since the opening cost that side (computeLinkedDerivativeSettle, Execute): both
\* nodes settle by the same resolve (Exchange), which is what its node won at a second that
\* has passed (Priced), and nothing is owed while the pair is there.
THEOREM PaidAsPricedHolds == Spec => []PaidAsPriced
<1>1. Init => Priced
  <2> SUFFICES ASSUME Init
               PROVE  Priced
    OBVIOUS
  <2>1. \A n \in Node : nd[n].paid = Zero /\ nd[n].in.res = NoRes /\ nd[n].conds = {} /\ nd[n].born = 0
    BY DEF Init, Zero, NoMeta
  <2>2. now = 0
    BY DEF Init, now
  <2>3. \A n \in Node : Claims(n, NoRes) /\ AsPriced(Zero)
    BY DEF Claims, NoRes, AsPriced
  <2>4. QED
    BY <2>1, <2>2, <2>3, Nodes DEF Priced
<1>2. IInv /\ Priced /\ [Next]_vars => Priced'
  BY StepPriced
<1>3. IInv /\ Priced => PaidAsPriced
  <2> SUFFICES ASSUME IInv, Priced, NEW n \in Node, nd[n].paid # [s \in Node |-> 0]
               PROVE  \E s \in Node, t \in 1 .. now :
                         /\ nd[n].paid[Peer(s)] = 0
                         /\ t >= nd["O"].born
                         /\ \E c \in Owes(s, price[t]) : nd[n].paid[s] = Pays(s, c)
    BY DEF PaidAsPriced
  <2>1. PICK s \in Node, t \in 1 .. now :
            /\ nd[n].paid[Peer(s)] = 0
            /\ \E c \in Owes(s, price[t]) : nd[n].paid[s] = Pays(s, c)
    BY DEF Priced, AsPriced, Zero
  <2>2. t >= nd["O"].born
    BY Clock DEF Priced, IInv
  <2>3. QED
    BY <2>1, <2>2
<1>4. QED
  BY <1>1, <1>2, <1>3, Inductive, PTL DEF Spec
=============================================================================
