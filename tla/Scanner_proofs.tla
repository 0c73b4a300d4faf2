--------------------------- MODULE Scanner_proofs ---------------------------
(***************************************************************************)
(* Proofs about Scanner, for any number of blocks, transactions, restarts  *)
(* and losses: the node's picture of a contract is one the chain has had,  *)
(* never goes back, and of a watched contract has no gap.                  *)
(***************************************************************************)
EXTENDS Scanner, TLAPS

USE ScannerAssumption

Event == [type : {"tx", "block"}, acc : Accounts \cup {"none"}, lt : Nat, version : Nat]

Shape ==
    /\ blocks \in Seq([Accounts -> Nat]) /\ blocks # <<>>
    /\ since \in [Accounts -> Int]
    /\ updates \in Seq(Event) /\ waiting \in SUBSET Event
    /\ db \in [known : BOOLEAN, lt : [Accounts -> Nat], version : [Accounts -> Nat],
               seen : [Accounts -> SUBSET Nat], offset : Nat]

\* Accounts only grow from block to block.
Growing ==
    \A i, j \in 1..Len(blocks) : i <= j => \A a \in Accounts : blocks[i][a] <= blocks[j][a]

\* v is a version between two blocks, and the one after the first block with transaction n.
InBlock(a, n, v) ==
    /\ \E b \in 1..Len(blocks) : v = blocks[b][a]
    /\ \A b \in 1..Len(blocks) : n <= blocks[b][a] => v <= blocks[b][a]

\* An event reports a transaction and a version the chain has, or a block it has.
Sound(e) ==
    \/ /\ e.type = "tx" /\ e.acc \in Accounts
       /\ 0 < e.lt /\ e.lt <= e.version /\ e.version <= Top[e.acc]
       /\ mode = "blocks" => InBlock(e.acc, e.lt, e.version)
    \/ e.type = "block" /\ e.lt \in 1..Len(blocks)

Reports ==
    /\ \A i \in 1..Len(updates) : Sound(updates[i])
    /\ \A e \in waiting : Sound(e) /\ e.type = "tx"

\* What is stored when blocks are scanned is a picture between two blocks.
Stored == mode = "blocks" => \A a \in Accounts : InBlock(a, db.lt[a], db.version[a])

\* A watcher holds one event, which is newer than what is stored.
OneWaits ==
    mode = "accounts" =>
        /\ updates = <<>>
        /\ \A e, f \in waiting : e.acc = f.acc => e = f
        /\ \A e \in waiting : e.version >= db.version[e.acc]

\* The contracts of a known channel are watched; of an unknown one nothing is stored
\* and only its discovery can wait.
Watched ==
    mode = "accounts" =>
        IF db.known THEN \A a \in Accounts : since[a] >= 0
        ELSE /\ since = NotWatched /\ \A e \in waiting : e.acc = "our"
             /\ \A a \in Accounts : db.lt[a] = 0 /\ db.seen[a] = {}

\* The watcher is at most one transaction ahead of what is stored, with that
\* transaction waiting, and what was looked at is an unbroken run up to the last.
Unbroken ==
    mode = "accounts" /\ losses = 0 =>
        \A a \in Accounts :
            /\ \E lo \in Nat \ {0} : lo <= db.lt[a] + 1 /\ db.seen[a] = lo..db.lt[a]
            /\ db.known => /\ \A e \in waiting : e.acc = a => e.lt = since[a] /\ e.lt <= db.lt[a] + 1
                           /\ (\A e \in waiting : e.acc # a) => since[a] <= db.lt[a]

\* The inductive invariant.
IInv == Shape /\ TypeOK /\ Growing /\ Reports /\ Stored /\ OneWaits /\ Watched /\ Unbroken

-----------------------------------------------------------------------------
\* What Append does.
LEMMA AppendFacts ==
  ASSUME NEW S, NEW s \in Seq(S), NEW x \in S
  PROVE  /\ Append(s, x) \in Seq(S) /\ Len(Append(s, x)) = Len(s) + 1
         /\ \A i \in 1..Len(s) : Append(s, x)[i] = s[i]
         /\ Append(s, x)[Len(s) + 1] = x
  OBVIOUS

\* The last block is a block.
LEMMA TopBlock ==
  ASSUME Shape
  PROVE  Len(blocks) \in Nat \ {0} /\ Top \in [Accounts -> Nat] /\ Top = blocks[Len(blocks)]
  BY DEF Shape, Top

\* At the start nothing is watched.
LEMMA InvInit == Init => IInv
  <1> SUFFICES ASSUME Init PROVE IInv
    OBVIOUS
  <1>1. Zero \in [Accounts -> Nat] /\ NotWatched \in [Accounts -> Int]
    BY DEF Zero, NotWatched
  <1>2. blocks = <<Zero>> /\ Len(blocks) = 1 /\ Top = Zero /\ blocks[1] = Zero
    BY DEF Init, Top
  <1>3. PICK k \in BOOLEAN :
          /\ db = [known |-> k, lt |-> Zero, version |-> Zero,
                   seen |-> [a \in Accounts |-> {}], offset |-> 1]
          /\ since = IF k /\ mode = "accounts" THEN Zero ELSE NotWatched
    BY DEF Init
  <1>4. Shape
    BY <1>1, <1>2, <1>3 DEF Init, Shape
  <1>5. TypeOK
    BY <1>1, <1>2, <1>3 DEF Init, TypeOK, Zero, NotWatched
  <1>6. Growing /\ Stored
    BY <1>2, <1>3 DEF Growing, Stored, InBlock, Zero
  <1>7. Reports /\ OneWaits /\ Watched
    BY <1>2, <1>3 DEF Init, Reports, OneWaits, Watched, Zero
  <1>8. Unbroken
    <2> SUFFICES ASSUME NEW a \in Accounts
                 PROVE  /\ \E lo \in Nat \ {0} : lo <= db.lt[a] + 1 /\ db.seen[a] = lo..db.lt[a]
                        /\ db.known /\ mode = "accounts" => since[a] <= db.lt[a]
      BY DEF Init, Unbroken
    <2>1. db.lt[a] = 0 /\ db.seen[a] = {} /\ 1..0 = {}
      BY <1>3 DEF Zero
    <2> QED
      BY <2>1, <1>3 DEF Zero
  <1> QED
    BY <1>4, <1>5, <1>6, <1>7, <1>8 DEF IInv

-----------------------------------------------------------------------------
(* The chain and the scanners.                                             *)

\* A new block: what was sound stays sound.
LEMMA MineInv == ASSUME IInv, Mine PROVE IInv'
  <1> USE DEF IInv
  <1>1. PICK n \in [Accounts -> 0..MaxPerBlock] :
          blocks' = Append(blocks, [a \in Accounts |-> Top[a] + n[a]])
    BY DEF Mine
  <1> DEFINE L == Len(blocks)
             new == [a \in Accounts |-> Top[a] + n[a]]
  <1>2. L \in Nat \ {0} /\ Top \in [Accounts -> Nat] /\ Top = blocks[L]
    BY TopBlock
  <1>3. new \in [Accounts -> Nat] /\ \A a \in Accounts : new[a] >= Top[a]
    <2>1. \A a \in Accounts : n[a] \in Nat /\ Top[a] \in Nat
      BY <1>2
    <2> QED
      BY <2>1
  <1> HIDE DEF new
  <1>4. /\ blocks' \in Seq([Accounts -> Nat]) /\ Len(blocks') = L + 1 /\ blocks' # <<>>
        /\ \A i \in 1..L : blocks'[i] = blocks[i]
        /\ blocks'[L + 1] = new /\ Top' = new
    <2>1. blocks \in Seq([Accounts -> Nat]) /\ blocks' = Append(blocks, new)
      BY <1>1 DEF Shape, new
    <2>2. /\ blocks' \in Seq([Accounts -> Nat]) /\ Len(blocks') = L + 1
          /\ \A i \in 1..L : blocks'[i] = blocks[i]
          /\ blocks'[L + 1] = new
      BY <2>1, <1>3, AppendFacts
    <2>3. blocks' # <<>> /\ Top' = new
      BY <2>2, <1>2 DEF Top
    <2> QED
      BY <2>2, <2>3
  <1>5. UNCHANGED <<mode, cursor, since, updates, waiting, db, crashes, losses>>
    BY DEF Mine
  <1>6. \A i \in 1..L : blocks[i] \in [Accounts -> Nat]
                        /\ \A a \in Accounts : blocks[i][a] <= Top[a]
    <2> SUFFICES ASSUME NEW i \in 1..L
                 PROVE  blocks[i] \in [Accounts -> Nat] /\ \A a \in Accounts : blocks[i][a] <= blocks[L][a]
      BY <1>2
    <2>1. blocks[i] \in [Accounts -> Nat]
      BY DEF Shape
    <2>2. L \in 1..L /\ i <= L
      BY <1>2
    <2> QED
      BY <2>1, <2>2 DEF Growing
  <1>7. Shape'
    BY <1>4, <1>5 DEF Shape
  <1>8. TypeOK'
    <2>1. cursor' \in 1..Len(blocks') /\ db'.offset \in 1..Len(blocks')
      BY <1>2, <1>4, <1>5 DEF TypeOK
    <2>2. ASSUME NEW a \in Accounts
          PROVE  /\ since'[a] \in -1..Top'[a]
                 /\ db'.lt[a] <= db'.version[a] /\ db'.version[a] <= Top'[a]
      <3>1. Top[a] \in Nat /\ Top'[a] \in Nat /\ Top'[a] >= Top[a] /\ db.version[a] \in Nat
        BY <1>2, <1>3, <1>4 DEF Shape
      <3> QED
        BY <3>1, <1>5, SMTT(30) DEF TypeOK
    <2> QED
      BY <2>1, <2>2, <1>5 DEF TypeOK
  <1>9. Growing'
    <2> SUFFICES ASSUME NEW i \in 1..L + 1, NEW j \in 1..L + 1, i <= j, NEW a \in Accounts
                 PROVE  blocks'[i][a] <= blocks'[j][a]
      BY <1>4 DEF Growing
    <2>1. CASE j \in 1..L
      <3>1. i \in 1..L
        BY <2>1, <1>2
      <3> QED
        BY <2>1, <3>1, <1>4 DEF Growing
    <2>2. CASE j = L + 1 /\ i \in 1..L
      <3>1. blocks'[i][a] = blocks[i][a] /\ blocks[i][a] \in Nat /\ blocks[i][a] <= Top[a]
        BY <2>2, <1>4, <1>6
      <3>2. blocks'[j][a] = new[a] /\ new[a] \in Nat /\ Top[a] \in Nat /\ new[a] >= Top[a]
        BY <2>2, <1>2, <1>3, <1>4
      <3> QED
        BY <3>1, <3>2
    <2>3. CASE i = L + 1 /\ j = L + 1
      BY <2>3, <1>3, <1>4
    <2> QED
      BY <2>1, <2>2, <2>3, <1>2
  <1>10. ASSUME NEW a \in Accounts, NEW m \in Nat, NEW v, InBlock(a, m, v)
         PROVE  InBlock(a, m, v)'
    <2>1. PICK b \in 1..L : v = blocks[b][a]
      BY <1>10 DEF InBlock
    <2>2. v = blocks'[b][a] /\ b \in 1..L + 1 /\ v <= Top[a] /\ v \in Nat
      BY <2>1, <1>2, <1>4, <1>6
    <2>3. ASSUME NEW c \in 1..L + 1, m <= blocks'[c][a] PROVE v <= blocks'[c][a]
      <3>1. CASE c \in 1..L
        BY <2>3, <3>1, <1>4, <1>10 DEF InBlock
      <3>2. CASE c = L + 1
        <4>1. blocks'[c][a] = new[a] /\ new[a] \in Nat /\ Top[a] \in Nat /\ new[a] >= Top[a]
          BY <3>2, <1>2, <1>3, <1>4
        <4> QED
          BY <4>1, <2>2
      <3> QED
        BY <3>1, <3>2, <1>2
    <2> QED
      BY <2>2, <2>3, <1>4 DEF InBlock
  <1>11. ASSUME NEW e \in Event, Sound(e) PROVE Sound(e)'
    <2>1. CASE e.type = "tx" /\ e.acc \in Accounts
      <3>1. e.lt \in Nat /\ e.version \in Nat /\ 0 < e.lt /\ e.lt <= e.version
            /\ e.version <= Top[e.acc] /\ (mode = "blocks" => InBlock(e.acc, e.lt, e.version))
        BY <1>11, <2>1 DEF Sound, Event
      <3>2. e.version <= Top'[e.acc]
        BY <3>1, <2>1, <1>2, <1>3, <1>4
      <3>3. mode' = "blocks" => InBlock(e.acc, e.lt, e.version)'
        BY <3>1, <2>1, <1>5, <1>10
      <3> QED
        BY <2>1, <3>1, <3>2, <3>3 DEF Sound
    <2>2. CASE e.type = "block"
      BY <1>11, <2>2, <1>2, <1>4 DEF Sound
    <2> QED
      BY <1>11, <2>1, <2>2 DEF Sound
  <1>12. Reports'
    BY <1>5, <1>11 DEF Reports, Shape
  <1>13. Stored'
    BY <1>5, <1>10 DEF Stored, Shape
  <1>14. OneWaits' /\ Watched' /\ Unbroken'
    BY <1>5 DEF OneWaits, Watched, Unbroken
  <1> QED
    BY <1>7, <1>8, <1>9, <1>12, <1>13, <1>14

\* The event of an account of a block is sound.
LEMMA BlockTxSound ==
  ASSUME IInv, NEW b \in 2..Len(blocks), NEW a \in Accounts, blocks[b][a] # blocks[b - 1][a]
  PROVE  /\ TxEvent(a, blocks[b - 1][a] + 1, blocks[b][a]) \in Event
         /\ Sound(TxEvent(a, blocks[b - 1][a] + 1, blocks[b][a]))
  <1> DEFINE e == TxEvent(a, blocks[b - 1][a] + 1, blocks[b][a])
             L == Len(blocks)
  <1>1. L \in Nat \ {0} /\ b \in 1..L /\ b - 1 \in 1..L /\ Top = blocks[L]
    BY TopBlock DEF IInv
  <1>2. \A c \in 1..L : blocks[c][a] \in Nat
    BY DEF IInv, Shape
  <1>3. blocks[b - 1][a] < blocks[b][a] /\ blocks[b][a] <= Top[a]
    <2>1. blocks[b - 1][a] <= blocks[b][a] /\ blocks[b][a] <= blocks[L][a]
      BY <1>1 DEF IInv, Growing
    <2> QED
      BY <2>1, <1>1, <1>2
  <1>4. InBlock(a, blocks[b - 1][a] + 1, blocks[b][a])
    <2> SUFFICES ASSUME NEW c \in 1..L, blocks[b - 1][a] + 1 <= blocks[c][a]
                 PROVE  blocks[b][a] <= blocks[c][a]
      BY <1>1 DEF InBlock
    <2>1. ~(c <= b - 1)
      <3> SUFFICES ASSUME c <= b - 1 PROVE FALSE
        OBVIOUS
      <3>1. blocks[c][a] <= blocks[b - 1][a]
        BY <1>1 DEF IInv, Growing
      <3> QED
        BY <3>1, <1>1, <1>2
    <2>2. b <= c
      BY <2>1, <1>1
    <2> QED
      BY <2>2, <1>1 DEF IInv, Growing
  <1>5. /\ e.type = "tx" /\ e.acc = a /\ e.lt = blocks[b - 1][a] + 1 /\ e.version = blocks[b][a]
        /\ e \in Event
    BY <1>1, <1>2 DEF TxEvent, Event, Accounts
  <1> QED
    BY <1>1, <1>2, <1>3, <1>4, <1>5 DEF Sound

\* The next block's events are sound.
LEMMA FetchInv == ASSUME IInv, FetchBlock PROVE IInv'
  <1> USE DEF IInv
  <1>1. UNCHANGED <<mode, blocks, since, waiting, db, crashes>> /\ cursor' = cursor + 1
        /\ mode = "blocks" /\ cursor < Len(blocks)
    BY DEF FetchBlock
  <1>2. Len(blocks) \in Nat \ {0} /\ Top' = Top /\ Top \in [Accounts -> Nat]
    BY <1>1, TopBlock DEF Top
  <1>3. losses' \in 0..MaxLosses
    BY DEF FetchBlock, TypeOK
  <1> DEFINE b == cursor + 1
  <1>4. b \in 2..Len(blocks)
    BY <1>1, <1>2 DEF TypeOK
  <1> HIDE DEF b
  <1> DEFINE Good == {e \in Event : Sound(e)}
  <1>5. ASSUME NEW a \in Accounts PROVE BlockTx(b, a) \in Seq(Good)
    <2>1. CASE blocks[b][a] = blocks[b - 1][a]
      BY <2>1 DEF BlockTx
    <2>2. CASE blocks[b][a] # blocks[b - 1][a]
      <3>1. TxEvent(a, blocks[b - 1][a] + 1, blocks[b][a]) \in Good
        BY <2>2, <1>4, <1>5, BlockTxSound
      <3> QED
        BY <2>2, <3>1 DEF BlockTx
    <2> QED
      BY <2>1, <2>2
  <1>6. <<BlockEvent(b)>> \in Seq(Good)
    BY <1>2, <1>4 DEF BlockEvent, Sound, Event
  <1>7. updates' \in Seq(Good)
    <2>1. PICK lost \in SUBSET Accounts, s \in {<<"our", "their">>, <<"their", "our">>} :
            updates' = (IF s[1] \in lost THEN <<>> ELSE BlockTx(b, s[1]))
                       \o (IF s[2] \in lost THEN <<>> ELSE BlockTx(b, s[2])) \o <<BlockEvent(b)>>
      BY DEF FetchBlock, b
    <2>2. s[1] \in Accounts /\ s[2] \in Accounts
      BY DEF Accounts
    <2> DEFINE s1 == IF s[1] \in lost THEN <<>> ELSE BlockTx(b, s[1])
               s2 == IF s[2] \in lost THEN <<>> ELSE BlockTx(b, s[2])
    <2>3. s1 \in Seq(Good) /\ s2 \in Seq(Good)
      BY <2>2, <1>5
    <2>4. updates' = s1 \o s2 \o <<BlockEvent(b)>>
      BY <2>1
    <2> HIDE DEF s1, s2, Good
    <2> QED
      BY <2>3, <2>4, <1>6
  <1>8. updates' \in Seq(Event) /\ \A i \in 1..Len(updates') : Sound(updates'[i])
    <2>1. \A i \in 1..Len(updates') : updates'[i] \in Good
      BY <1>7
    <2> QED
      BY <1>7, <2>1
  <1>9. \A e : Sound(e) <=> Sound(e)'
    BY <1>1, <1>2 DEF Sound, InBlock
  <1>10. Shape'
    BY <1>1, <1>8 DEF Shape
  <1>11. TypeOK'
    BY <1>1, <1>2, <1>3 DEF TypeOK
  <1>12. Reports'
    BY <1>1, <1>8, <1>9 DEF Reports
  <1>13. Growing' /\ Stored' /\ OneWaits' /\ Watched' /\ Unbroken'
    BY <1>1 DEF Growing, Stored, InBlock, OneWaits, Watched, Unbroken
  <1> QED
    BY <1>10, <1>11, <1>12, <1>13

\* An event of a watcher or of a discovery.
LEMMA TxEventParts ==
  ASSUME NEW a \in Accounts, NEW n \in Nat, NEW v \in Nat
  PROVE  /\ TxEvent(a, n, v) \in Event /\ TxEvent(a, n, v).type = "tx" /\ TxEvent(a, n, v).acc = a
         /\ TxEvent(a, n, v).lt = n /\ TxEvent(a, n, v).version = v
  BY DEF TxEvent, Event

\* An account is watched from the stored position on.
LEMMA WatchInv == ASSUME IInv, NEW a \in Accounts, WatchAccount(a) PROVE IInv'
  <1> USE DEF IInv
  <1>1. /\ UNCHANGED <<mode, blocks, cursor, updates, db, crashes>> /\ mode = "accounts"
        /\ since[a] >= 0 /\ since[a] < Top[a] /\ \A e \in waiting : e.acc # a
    BY DEF WatchAccount
  <1>2. Len(blocks) \in Nat \ {0} /\ Top' = Top /\ Top \in [Accounts -> Nat]
    BY <1>1, TopBlock DEF Top
  <1>3. since[a] \in Nat /\ since[a] + 1 \in Nat /\ Top[a] \in Nat /\ since[a] + 1 <= Top[a]
    BY <1>1, <1>2 DEF Shape
  <1> PICK ev : ev = TxEvent(a, since[a] + 1, Top[a])
    OBVIOUS
  <1>4. ev \in Event /\ ev.type = "tx" /\ ev.acc = a /\ ev.lt = since[a] + 1 /\ ev.version = Top[a]
    BY <1>3, TxEventParts
  <1>5. /\ since' = [since EXCEPT ![a] = @ + 1] /\ losses' \in 0..MaxLosses
        /\ \/ losses' = losses /\ waiting' = waiting \cup {ev}
           \/ losses' = losses + 1 /\ waiting' = waiting
    BY DEF WatchAccount, TypeOK
  <1>6. since'[a] = since[a] + 1 /\ \A c \in Accounts : c # a => since'[c] = since[c]
    BY <1>5 DEF Shape
  <1>7. Shape'
    BY <1>1, <1>4, <1>5 DEF Shape
  <1>8. TypeOK'
    BY <1>1, <1>2, <1>3, <1>5, <1>6 DEF TypeOK
  <1>9. \A e : Sound(e) => Sound(e)'
    BY <1>1, <1>2 DEF Sound, InBlock
  <1>10. Sound(ev)'
    BY <1>1, <1>2, <1>3, <1>4 DEF Sound
  <1>11. Reports'
    BY <1>1, <1>4, <1>5, <1>9, <1>10 DEF Reports
  <1>12. Growing' /\ Stored'
    BY <1>1 DEF Growing, Stored, InBlock
  <1>13. OneWaits'
    BY <1>1, <1>4, <1>5 DEF OneWaits, TypeOK
  <1>14. db.known /\ Watched'
    <2>1. db.known
      BY <1>1 DEF Watched, NotWatched
    <2>2. \A c \in Accounts : since'[c] >= 0
      BY <2>1, <1>1, <1>3, <1>6 DEF Watched
    <2> QED
      BY <2>1, <2>2, <1>1 DEF Watched
  <1>15. Unbroken'
    <2> SUFFICES ASSUME losses' = 0, NEW c \in Accounts
                 PROVE  /\ \E lo \in Nat \ {0} : lo <= db.lt[c] + 1 /\ db.seen[c] = lo..db.lt[c]
                        /\ \A e \in waiting' : e.acc = c => e.lt = since'[c] /\ e.lt <= db.lt[c] + 1
                        /\ (\A e \in waiting' : e.acc # c) => since'[c] <= db.lt[c]
      BY <1>1, <1>14 DEF Unbroken
    <2>1. losses = 0 /\ waiting' = waiting \cup {ev}
      BY <1>5 DEF TypeOK
    <2>2. /\ \E lo \in Nat \ {0} : lo <= db.lt[c] + 1 /\ db.seen[c] = lo..db.lt[c]
          /\ \A e \in waiting : e.acc = c => e.lt = since[c] /\ e.lt <= db.lt[c] + 1
          /\ (\A e \in waiting : e.acc # c) => since[c] <= db.lt[c]
      BY <2>1, <1>1, <1>14 DEF Unbroken
    <2>3. CASE c = a
      <3>1. since[a] <= db.lt[a] /\ db.lt[a] \in Nat
        BY <2>2, <2>3, <1>1 DEF Shape
      <3>2. \A e \in waiting' : e.acc = a => e = ev
        BY <2>1, <1>1
      <3> QED
        BY <2>1, <2>2, <2>3, <3>1, <3>2, <1>3, <1>4, <1>6
    <2>4. CASE c # a
      BY <2>1, <2>2, <2>4, <1>4, <1>6
    <2> QED
      BY <2>3, <2>4
  <1> QED
    BY <1>7, <1>8, <1>11, <1>12, <1>13, <1>14, <1>15

\* A channel of ours is found in a block.
LEMMA DiscoverInv == ASSUME IInv, DiscoverChannel PROVE IInv'
  <1> USE DEF IInv
  <1> PICK ev : ev = TxEvent("our", Top["our"], Top["our"])
    OBVIOUS
  <1>1. /\ UNCHANGED <<mode, blocks, cursor, since, updates, db, crashes, losses>>
        /\ ~db.known /\ Top["our"] > 0 /\ waiting' = waiting \cup {ev}
        /\ \A e \in waiting : e.acc # "our"
    BY DEF DiscoverChannel
  <1>2. /\ Len(blocks) \in Nat \ {0} /\ Top' = Top /\ Top \in [Accounts -> Nat]
        /\ Top = blocks[Len(blocks)] /\ "our" \in Accounts
    BY <1>1, TopBlock DEF Top, Accounts
  <1>3. /\ ev \in Event /\ ev.type = "tx" /\ ev.acc = "our" /\ ev.lt = Top["our"]
        /\ ev.version = Top["our"] /\ Top["our"] \in Nat
    BY <1>2, TxEventParts
  <1>4. Shape' /\ TypeOK' /\ Growing' /\ Stored'
    BY <1>1, <1>2, <1>3 DEF Shape, TypeOK, Growing, Stored, InBlock
  <1>5. \A e : Sound(e) => Sound(e)'
    BY <1>1, <1>2 DEF Sound, InBlock
  <1>6. Sound(ev)'
    <2>1. InBlock("our", Top["our"], Top["our"])'
      BY <1>1, <1>2 DEF InBlock
    <2> QED
      BY <2>1, <1>1, <1>2, <1>3 DEF Sound
  <1>7. Reports'
    BY <1>1, <1>3, <1>5, <1>6 DEF Reports
  <1>8. OneWaits' /\ Watched' /\ Unbroken'
    <2>1. OneWaits'
      BY <1>1, <1>2, <1>3 DEF OneWaits, TypeOK
    <2>2. Watched'
      BY <1>1, <1>3 DEF Watched
    <2>3. Unbroken'
      BY <1>1 DEF Unbroken
    <2> QED
      BY <2>1, <2>2, <2>3
  <1> QED
    BY <1>4, <1>7, <1>8

-----------------------------------------------------------------------------
(* The service.                                                            *)

\* A record of the parts of a stored state is one.
LEMMA Record ==
  ASSUME NEW k \in BOOLEAN, NEW l \in [Accounts -> Nat], NEW v \in [Accounts -> Nat],
         NEW s \in [Accounts -> SUBSET Nat], NEW o \in Nat
  PROVE  [known |-> k, lt |-> l, version |-> v, seen |-> s, offset |-> o]
           \in [known : BOOLEAN, lt : [Accounts -> Nat], version : [Accounts -> Nat],
                seen : [Accounts -> SUBSET Nat], offset : Nat]
  OBVIOUS

\* What Process stores.
LEMMA ProcessStores ==
  ASSUME Shape, NEW e \in Event, e.acc \in Accounts, Process(e), ~Repeated(e)
  PROVE  /\ db' \in [known : BOOLEAN, lt : [Accounts -> Nat], version : [Accounts -> Nat],
                     seen : [Accounts -> SUBSET Nat], offset : Nat]
         /\ db'.known /\ db'.offset = db.offset
         /\ db'.lt[e.acc] = e.lt /\ db'.version[e.acc] = e.version
         /\ db'.seen[e.acc] = db.seen[e.acc] \cup {e.lt}
         /\ \A a \in Accounts : a # e.acc =>
              db'.lt[a] = db.lt[a] /\ db'.version[a] = db.version[a] /\ db'.seen[a] = db.seen[a]
  <1>1. /\ db' = [db EXCEPT !.known = TRUE, !.lt[e.acc] = e.lt, !.version[e.acc] = e.version,
                            !.seen[e.acc] = @ \cup {e.lt}]
        /\ e.lt \in Nat /\ e.version \in Nat
    BY DEF Process, Event
  <1>2. /\ db'.known = TRUE /\ db'.offset = db.offset
        /\ db'.lt = [db.lt EXCEPT ![e.acc] = e.lt]
        /\ db'.version = [db.version EXCEPT ![e.acc] = e.version]
        /\ db'.seen = [db.seen EXCEPT ![e.acc] = @ \cup {e.lt}]
    BY <1>1 DEF Shape
  <1>3. /\ db'.lt \in [Accounts -> Nat] /\ db'.version \in [Accounts -> Nat]
        /\ db'.seen \in [Accounts -> SUBSET Nat]
    BY <1>1, <1>2, SMTT(30) DEF Shape
  <1>4. db' = [known |-> TRUE, lt |-> db'.lt, version |-> db'.version, seen |-> db'.seen,
               offset |-> db.offset]
    BY <1>1, <1>2 DEF Shape
  <1>5. db' \in [known : BOOLEAN, lt : [Accounts -> Nat], version : [Accounts -> Nat],
                seen : [Accounts -> SUBSET Nat], offset : Nat]
    <2>1. db.offset \in Nat
      BY DEF Shape
    <2>2. \A l, v \in [Accounts -> Nat], s \in [Accounts -> SUBSET Nat] :
            [known |-> TRUE, lt |-> l, version |-> v, seen |-> s, offset |-> db.offset]
              \in [known : BOOLEAN, lt : [Accounts -> Nat], version : [Accounts -> Nat],
                   seen : [Accounts -> SUBSET Nat], offset : Nat]
      BY <2>1, Record
    <2>3. [known |-> TRUE, lt |-> db'.lt, version |-> db'.version, seen |-> db'.seen,
           offset |-> db.offset]
            \in [known : BOOLEAN, lt : [Accounts -> Nat], version : [Accounts -> Nat],
                 seen : [Accounts -> SUBSET Nat], offset : Nat]
      BY <1>3, <2>2, Zenon
    <2> QED
      BY <1>4, <2>3, Zenon
  <1>6. /\ db'.lt[e.acc] = e.lt /\ db'.version[e.acc] = e.version
        /\ db'.seen[e.acc] = db.seen[e.acc] \cup {e.lt}
        /\ \A a \in Accounts : a # e.acc =>
             db'.lt[a] = db.lt[a] /\ db'.version[a] = db.version[a] /\ db'.seen[a] = db.seen[a]
    BY <1>2 DEF Shape
  <1> QED
    BY <1>2, <1>5, <1>6

\* An event that is not a repetition is not older than what is stored.
LEMMA NotOlder ==
  ASSUME IInv, NEW e \in Event, Sound(e), e.type = "tx", ~Repeated(e),
         mode = "accounts" => e \in waiting
  PROVE  e.version >= db.version[e.acc] /\ e.lt > db.lt[e.acc]
  <1>1. e.acc \in Accounts /\ e.lt \in Nat /\ e.version \in Nat /\ db.lt[e.acc] \in Nat
        /\ db.version[e.acc] \in Nat /\ e.lt > db.lt[e.acc] /\ e.lt <= e.version
    BY DEF IInv, Shape, Sound, Event, Repeated
  <1>2. CASE mode = "accounts"
    BY <1>1, <1>2 DEF IInv, OneWaits
  <1>3. CASE mode = "blocks"
    <2>1. PICK b \in 1..Len(blocks) : e.version = blocks[b][e.acc]
      BY <1>3 DEF Sound, InBlock
    <2>2. db.lt[e.acc] <= blocks[b][e.acc]
      BY <1>1, <2>1
    <2>3. db.version[e.acc] <= blocks[b][e.acc]
      BY <1>1, <1>3, <2>2 DEF IInv, Stored, InBlock
    <2> QED
      BY <1>1, <2>1, <2>3
  <1> QED
    BY <1>2, <1>3 DEF IInv, TypeOK

\* Where a watcher begins.
LEMMA ListenFromFacts ==
  ASSUME NEW lt \in [Accounts -> Nat]
  PROVE  /\ ListenFrom(lt) \in [Accounts -> Int]
         /\ \A a \in Accounts : ListenFrom(lt)[a] >= 0 /\ ListenFrom(lt)[a] <= lt[a]
  BY DEF ListenFrom

\* Working off an event of a contract keeps the invariant.
LEMMA UpdateInv ==
  ASSUME IInv, NEW e \in Event, Sound(e), e.type = "tx", Update(e),
         UNCHANGED <<mode, blocks, cursor, crashes, losses>>,
         mode = "accounts" => e \in waiting,
         updates' \in Seq(Event), \A i \in 1..Len(updates') : Sound(updates'[i]),
         mode = "accounts" => updates' = updates
  PROVE  IInv'
  <1> USE DEF IInv
  <1>1. e.acc \in Accounts /\ e.lt \in Nat /\ e.version \in Nat /\ 0 < e.lt
        /\ e.lt <= e.version /\ e.version <= Top[e.acc]
    BY DEF Sound, Event
  <1>2. Len(blocks) \in Nat \ {0} /\ Top' = Top /\ Top \in [Accounts -> Nat]
    BY TopBlock DEF Top
  <1>3. (\A f : Sound(f) => Sound(f)') /\ Growing'
    BY <1>2 DEF Sound, InBlock, Growing
  <1>4. waiting' \subseteq waiting \cup {e} /\ Reports'
    BY <1>3 DEF Update, Reports
  <1>5. CASE e.acc = "their" /\ ~db.known
    <2>1. waiting' = waiting \cup {e} /\ UNCHANGED <<db, since>>
      BY <1>5 DEF Update
    <2>2. mode # "accounts"
      BY <1>5 DEF Watched
    <2> QED
      BY <1>2, <1>3, <1>4, <2>1, <2>2 DEF Shape, TypeOK, Stored, InBlock, OneWaits, Watched, Unbroken
  <1>6. CASE ~(e.acc = "their" /\ ~db.known)
    <2>1. /\ Process(e) /\ waiting' = waiting \ {e}
          /\ since' = IF mode = "accounts" /\ since = NotWatched THEN ListenFrom(db'.lt) ELSE since
      BY <1>6 DEF Update
    <2>2. CASE Repeated(e)
      <3>1. db' = db
        BY <2>1, <2>2 DEF Process
      <3>2. mode = "accounts" => db.known /\ since' = since
        BY <1>1, <2>1, <2>2 DEF Watched, Repeated, NotWatched
      <3>3. since' = since
        BY <2>1, <3>2
      <3>4. Unbroken'
        <4> SUFFICES ASSUME mode = "accounts", losses = 0, NEW a \in Accounts,
                            \A f \in waiting' : f.acc # a
                     PROVE  since[a] <= db.lt[a]
          BY <2>1, <3>1, <3>3 DEF Unbroken
        <4>1. CASE a = e.acc
          BY <4>1, <1>1, <2>2, <3>2 DEF Unbroken, Repeated
        <4>2. CASE a # e.acc
          BY <4>2, <2>1, <3>2 DEF Unbroken
        <4> QED
          BY <4>1, <4>2
      <3> QED
        BY <1>2, <1>3, <1>4, <2>1, <3>1, <3>2, <3>3, <3>4
           DEF Shape, TypeOK, Stored, InBlock, OneWaits, Watched
    <2>3. CASE ~Repeated(e)
      <3>1. /\ db' \in [known : BOOLEAN, lt : [Accounts -> Nat], version : [Accounts -> Nat],
                        seen : [Accounts -> SUBSET Nat], offset : Nat]
            /\ db'.known /\ db'.offset = db.offset
            /\ db'.lt[e.acc] = e.lt /\ db'.version[e.acc] = e.version
            /\ db'.seen[e.acc] = db.seen[e.acc] \cup {e.lt}
            /\ \A a \in Accounts : a # e.acc =>
                 db'.lt[a] = db.lt[a] /\ db'.version[a] = db.version[a] /\ db'.seen[a] = db.seen[a]
        BY <1>1, <2>1, <2>3, ProcessStores
      <3>2. db'.lt \in [Accounts -> Nat] /\ db'.version \in [Accounts -> Nat]
        BY <3>1
      <3>3. /\ ListenFrom(db'.lt) \in [Accounts -> Int]
            /\ \A a \in Accounts : ListenFrom(db'.lt)[a] >= 0 /\ ListenFrom(db'.lt)[a] <= db'.lt[a]
        BY <3>2, ListenFromFacts
      <3>4. \A a \in Accounts : db'.lt[a] <= db'.version[a] /\ db'.version[a] <= Top[a]
        BY <1>1, <3>1 DEF TypeOK
      <3>5. Shape'
        BY <1>4, <2>1, <3>1, <3>3 DEF Shape
      <3>6. \A a \in Accounts : since'[a] \in -1..Top[a]
        <4> SUFFICES ASSUME NEW a \in Accounts PROVE since'[a] \in -1..Top[a]
          OBVIOUS
        <4>1. /\ ListenFrom(db'.lt)[a] \in Int /\ ListenFrom(db'.lt)[a] >= 0
              /\ ListenFrom(db'.lt)[a] <= db'.lt[a] /\ db'.lt[a] \in Nat /\ db'.version[a] \in Nat
              /\ Top[a] \in Nat /\ db'.lt[a] <= db'.version[a] /\ db'.version[a] <= Top[a]
          BY <1>2, <3>2, <3>3, <3>4
        <4> QED
          BY <2>1, <4>1, SMTT(30) DEF TypeOK
      <3>7. TypeOK'
        BY <1>2, <3>1, <3>4, <3>6 DEF TypeOK
      <3>8. Stored'
        <4> SUFFICES ASSUME mode = "blocks", NEW a \in Accounts
                     PROVE  InBlock(a, db'.lt[a], db'.version[a])
          BY DEF Stored, InBlock
        <4>1. CASE a = e.acc
          BY <4>1, <3>1 DEF Sound
        <4>2. CASE a # e.acc
          BY <4>2, <3>1 DEF Stored
        <4> QED
          BY <4>1, <4>2
      <3>9. OneWaits'
        <4> SUFFICES ASSUME mode = "accounts", NEW f \in waiting'
                     PROVE  f.version >= db'.version[f.acc]
          BY <2>1 DEF OneWaits
        <4>1. f \in waiting /\ f # e /\ f.acc # e.acc /\ f.acc \in Accounts
          BY <2>1 DEF OneWaits, Reports, Sound
        <4> QED
          BY <4>1, <3>1 DEF OneWaits
      <3>10. Watched'
        <4> SUFFICES ASSUME mode = "accounts", NEW a \in Accounts PROVE since'[a] >= 0
          BY <3>1 DEF Watched
        <4> QED
          BY <2>1, <3>3 DEF Watched
      <3>11. Unbroken'
        <4> SUFFICES ASSUME mode = "accounts", losses = 0, NEW a \in Accounts
                     PROVE  /\ \E lo \in Nat \ {0} : lo <= db'.lt[a] + 1 /\ db'.seen[a] = lo..db'.lt[a]
                            /\ \A f \in waiting' : f.acc = a =>
                                 f.lt = since'[a] /\ f.lt <= db'.lt[a] + 1
                            /\ (\A f \in waiting' : f.acc # a) => since'[a] <= db'.lt[a]
          BY DEF Unbroken
        <4>1. CASE db.known
          <5>1. since' = since
            BY <2>1, <4>1 DEF Watched, NotWatched, Accounts
          <5>2. CASE a = e.acc
            <6>1. e.lt = since[a] /\ e.lt <= db.lt[a] + 1 /\ e.lt > db.lt[a] /\ db.lt[a] \in Nat
              <7>1. e.lt = since[a] /\ e.lt <= db.lt[a] + 1
                BY <4>1, <5>2 DEF Unbroken
              <7>2. e.lt > db.lt[a]
                BY <2>3, <5>2, NotOlder
              <7> QED
                BY <7>1, <7>2 DEF Shape
            <6>2. e.lt = db.lt[a] + 1
              BY <1>1, <6>1
            <6>3. PICK lo \in Nat \ {0} : lo <= db.lt[a] + 1 /\ db.seen[a] = lo..db.lt[a]
              BY DEF Unbroken
            <6>4. db'.seen[a] = lo..db'.lt[a] /\ lo <= db'.lt[a] + 1
              <7>1. db'.lt[a] = db.lt[a] + 1 /\ db'.seen[a] = (lo..db.lt[a]) \cup {db.lt[a] + 1}
                BY <3>1, <5>2, <6>2, <6>3
              <7>2. lo..(db.lt[a] + 1) = (lo..db.lt[a]) \cup {db.lt[a] + 1}
                BY <6>1, <6>3
              <7> QED
                BY <7>1, <7>2, <6>1, <6>3
            <6>5. \A f \in waiting' : f.acc # a
              BY <2>1, <5>2 DEF OneWaits
            <6> QED
              BY <6>1, <6>4, <6>5, <5>1, <5>2, <3>1, <1>1
          <5>3. CASE a # e.acc
            <6>1. (\A f \in waiting' : f.acc # a) => (\A f \in waiting : f.acc # a)
              BY <2>1, <5>3
            <6>2. db'.lt[a] = db.lt[a] /\ db'.seen[a] = db.seen[a]
              BY <3>1, <5>3
            <6>3. /\ \E lo \in Nat \ {0} : lo <= db.lt[a] + 1 /\ db.seen[a] = lo..db.lt[a]
                  /\ \A f \in waiting : f.acc = a => f.lt = since[a] /\ f.lt <= db.lt[a] + 1
                  /\ (\A f \in waiting : f.acc # a) => since[a] <= db.lt[a]
              BY <4>1 DEF Unbroken
            <6> QED
              BY <2>1, <5>1, <6>1, <6>2, <6>3
          <5> QED
            BY <5>2, <5>3
        <4>2. CASE ~db.known
          <5>1. /\ since = NotWatched /\ db.lt[a] = 0 /\ db.seen[a] = {}
                /\ \A f \in waiting : f.acc = "our"
            BY <4>2 DEF Watched
          <5>2. waiting' = {} /\ e.acc = "our"
            BY <2>1, <5>1 DEF OneWaits
          <5>3. since'[a] <= db'.lt[a]
            BY <2>1, <3>3, <5>1
          <5>4. \E lo \in Nat \ {0} : lo <= db'.lt[a] + 1 /\ db'.seen[a] = lo..db'.lt[a]
            <6>1. CASE a = e.acc
              <7>1. db'.lt[a] = e.lt /\ db'.seen[a] = {e.lt} /\ {e.lt} = e.lt..e.lt
                BY <6>1, <5>1, <3>1, <1>1
              <7> QED
                BY <7>1, <1>1, SMTT(30)
            <6>2. CASE a # e.acc
              <7>1. db'.lt[a] = 0 /\ db'.seen[a] = {}
                BY <6>2, <5>1, <3>1
              <7>2. 1..0 = {} /\ 1 \in Nat \ {0} /\ 1 <= 0 + 1
                OBVIOUS
              <7> QED
                BY <7>1, <7>2
            <6> QED
              BY <6>1, <6>2
          <5> QED
            BY <5>2, <5>3, <5>4
        <4> QED
          BY <4>1, <4>2
      <3> QED
        BY <1>3, <1>4, <3>5, <3>7, <3>8, <3>9, <3>10, <3>11
    <2> QED
      BY <2>2, <2>3
  <1> QED
    BY <1>5, <1>6

\* One account of a block goes on to its next transaction.
LEMMA NextOfBlockInv == ASSUME IInv, NextOfBlock PROVE IInv'
  <1> USE DEF IInv
  <1>1. /\ updates # <<>> /\ updates' = Tail(updates)
        /\ UNCHANGED <<mode, blocks, cursor, crashes, losses>>
    BY DEF NextOfBlock
  <1>2. /\ Tail(updates) \in Seq(Event) /\ Head(updates) \in Event /\ Sound(Head(updates))
        /\ \A i \in 1..Len(Tail(updates)) : Sound(Tail(updates)[i])
    <2>1. updates \in Seq(Event) /\ Len(updates) \in Nat \ {0} /\ Head(updates) = updates[1]
      BY <1>1 DEF Shape
    <2>2. /\ Tail(updates) \in Seq(Event) /\ Len(Tail(updates)) = Len(updates) - 1
          /\ \A i \in 1..Len(Tail(updates)) : Tail(updates)[i] = updates[i + 1]
      BY <2>1, <1>1
    <2> QED
      BY <2>1, <2>2 DEF Reports
  <1>3. mode # "accounts"
    BY <1>1 DEF OneWaits
  <1>4. CASE Head(updates).type = "tx"
    <2> PICK e \in Event : e = Head(updates)
      BY <1>2
    <2>1. Update(e) /\ Sound(e) /\ e.type = "tx"
      BY <1>2, <1>4 DEF NextOfBlock
    <2> QED
      BY <1>1, <1>2, <1>3, <2>1, UpdateInv
  <1>5. CASE Head(updates).type # "tx"
    <2>1. /\ db' = [db EXCEPT !.offset = Head(updates).lt] /\ UNCHANGED <<waiting, since>>
          /\ Head(updates).lt \in 1..Len(blocks)
      BY <1>2, <1>5 DEF NextOfBlock, Sound
    <2>2. Len(blocks) \in Nat \ {0} /\ Head(updates).lt \in Nat
      BY <1>2, TopBlock DEF Event
    <2>3. /\ db'.known = db.known /\ db'.lt = db.lt /\ db'.version = db.version
          /\ db'.seen = db.seen /\ db'.offset = Head(updates).lt
      BY <2>1 DEF Shape
    <2>4. Shape'
      BY <1>1, <1>2, <2>1, <2>2 DEF Shape
    <2>5. TypeOK' /\ Growing' /\ Stored'
      BY <1>1, <2>1, <2>3 DEF TypeOK, Top, Growing, Stored, InBlock
    <2>6. Reports'
      BY <1>1, <1>2, <2>1 DEF Reports, Sound, InBlock, Top
    <2>7. OneWaits' /\ Watched' /\ Unbroken'
      BY <1>1, <1>3 DEF OneWaits, Watched, Unbroken
    <2> QED
      BY <2>4, <2>5, <2>6, <2>7
  <1> QED
    BY <1>4, <1>5

\* An account that has waited is taken up.
LEMMA NextWaitingInv == ASSUME IInv, NEW a \in Accounts, NextWaiting(a) PROVE IInv'
  <1>1. PICK e \in waiting : Update(e) /\ UNCHANGED <<mode, blocks, cursor, updates, crashes, losses>>
    BY DEF NextWaiting
  <1>2. /\ e \in Event /\ Sound(e) /\ e.type = "tx" /\ updates' \in Seq(Event)
        /\ \A i \in 1..Len(updates') : Sound(updates'[i])
    BY <1>1 DEF IInv, Reports, Shape
  <1> QED
    BY <1>1, <1>2, UpdateInv

\* After a restart everything begins at the stored positions.
LEMMA RestartInv == ASSUME IInv, Restart PROVE IInv'
  <1> USE DEF IInv
  <1>1. /\ UNCHANGED <<mode, blocks, db, losses>> /\ updates' = <<>> /\ waiting' = {}
        /\ since' = (IF mode = "accounts" /\ db.known THEN ListenFrom(db.lt) ELSE NotWatched)
        /\ crashes' \in 0..MaxCrash
    BY DEF Restart, TypeOK
  <1>2. Len(blocks) \in Nat \ {0} /\ Top' = Top /\ Top \in [Accounts -> Nat]
    BY <1>1, TopBlock DEF Top
  <1>3. cursor' \in 1..Len(blocks)
    BY <1>2 DEF Restart, Resume, TypeOK
  <1>4. db.lt \in [Accounts -> Nat] /\ db.version \in [Accounts -> Nat]
    BY DEF Shape
  <1>5. /\ ListenFrom(db.lt) \in [Accounts -> Int]
        /\ \A a \in Accounts : ListenFrom(db.lt)[a] >= 0 /\ ListenFrom(db.lt)[a] <= db.lt[a]
    BY <1>4, ListenFromFacts
  <1>6. NotWatched \in [Accounts -> Int] /\ \A a \in Accounts : NotWatched[a] = -1
    BY DEF NotWatched
  <1>7. Shape'
    <2>1. since' \in [Accounts -> Int]
      BY <1>1, <1>5, <1>6
    <2>2. updates' \in Seq(Event) /\ waiting' \in SUBSET Event
      BY <1>1
    <2> QED
      BY <1>1, <2>1, <2>2 DEF Shape
  <1>8. \A a \in Accounts : since'[a] \in -1..Top[a]
    <2> SUFFICES ASSUME NEW a \in Accounts PROVE since'[a] \in -1..Top[a]
      OBVIOUS
    <2>1. /\ ListenFrom(db.lt)[a] \in Int /\ db.lt[a] \in Nat /\ db.version[a] \in Nat
          /\ Top[a] \in Nat /\ db.lt[a] <= db.version[a] /\ db.version[a] <= Top[a]
      BY <1>2, <1>4, <1>5 DEF TypeOK
    <2> QED
      BY <2>1, <1>1, <1>5, <1>6
  <1>9. TypeOK'
    BY <1>1, <1>2, <1>3, <1>8 DEF TypeOK
  <1>10. Growing' /\ Stored' /\ Reports' /\ OneWaits'
    BY <1>1 DEF Growing, Stored, InBlock, Reports, OneWaits
  <1>11. Watched'
    BY <1>1, <1>5 DEF Watched
  <1>12. Unbroken'
    <2> SUFFICES ASSUME mode = "accounts", losses = 0, NEW a \in Accounts
                 PROVE  /\ \E lo \in Nat \ {0} : lo <= db.lt[a] + 1 /\ db.seen[a] = lo..db.lt[a]
                        /\ db.known => since'[a] <= db.lt[a]
      BY <1>1 DEF Unbroken
    <2>1. \E lo \in Nat \ {0} : lo <= db.lt[a] + 1 /\ db.seen[a] = lo..db.lt[a]
      BY DEF Unbroken
    <2> QED
      BY <2>1, <1>1, <1>5
  <1> QED
    BY <1>7, <1>9, <1>10, <1>11, <1>12

\* Every step keeps the invariant.
LEMMA InvStep == IInv /\ [Next]_vars => IInv'
  <1> SUFFICES ASSUME IInv, [Next]_vars PROVE IInv'
    OBVIOUS
  <1>1. CASE UNCHANGED vars
    BY <1>1 DEF vars, IInv, Shape, TypeOK, Top, Growing, Reports, Sound, InBlock, Stored,
       OneWaits, Watched, Unbroken
  <1> QED
    BY <1>1, MineInv, FetchInv, DiscoverInv, NextOfBlockInv, RestartInv, WatchInv,
       NextWaitingInv DEF Next

-----------------------------------------------------------------------------
\* The invariant of the scanners and the service holds in every reachable state.
THEOREM Inductive == Spec => []IInv
  BY InvInit, InvStep, PTL DEF Spec

\* The node never knows a version the chain does not have, nor a block, whatever is
\* lost, put off or scanned again.
THEOREM TypeCorrect == Spec => []TypeOK
  <1>1. IInv => TypeOK
    BY DEF IInv
  <1> QED
    BY <1>1, Inductive, PTL

\* A watched contract whose fetches succeed has no gap: the watcher restarts one
\* transaction before the last stored one (OnChannelUpdate, "to report last tx").
THEOREM NoGapHolds == Spec => []NoGap
  <1>1. IInv => NoGap
    <2> SUFFICES ASSUME IInv, mode = "accounts", losses = 0, NEW a \in Accounts,
                        NEW m \in db.seen[a], NEW n \in db.seen[a]
                 PROVE  (m..n) \subseteq db.seen[a]
      BY DEF NoGap
    <2>1. PICK lo \in Nat \ {0} : lo <= db.lt[a] + 1 /\ db.seen[a] = lo..db.lt[a]
      BY DEF IInv, Unbroken
    <2>2. db.lt[a] \in Nat
      BY DEF IInv, Shape
    <2> QED
      BY <2>1, <2>2
  <1> QED
    BY <1>1, Inductive, PTL

\* The logical time and the version the service stores never decrease: an event it
\* does not recognise as repeated (Repeated) is newer in both respects.
THEOREM NeverBackHolds == Spec => NeverBack
  <1> DEFINE Forward == \A a \in Accounts :
                          db'.version[a] >= db.version[a] /\ db'.lt[a] >= db.lt[a]
  <1>1. ASSUME IInv, NEW e \in Event, Sound(e), e.type = "tx", Update(e),
               mode = "accounts" => e \in waiting
        PROVE  Forward
    <2>1. \A a \in Accounts : db.version[a] \in Nat /\ db.lt[a] \in Nat
      BY <1>1 DEF IInv, Shape
    <2>2. CASE db' = db
      BY <2>1, <2>2
    <2>3. CASE db' # db
      <3>1. e.acc \in Accounts /\ Process(e) /\ ~Repeated(e)
        BY <1>1, <2>3 DEF Update, Process, Sound
      <3>2. e.version >= db.version[e.acc] /\ e.lt > db.lt[e.acc] /\ e.lt \in Nat
        BY <1>1, <3>1, NotOlder DEF Event
      <3>3. /\ db'.lt[e.acc] = e.lt /\ db'.version[e.acc] = e.version
            /\ \A a \in Accounts : a # e.acc =>
                 db'.lt[a] = db.lt[a] /\ db'.version[a] = db.version[a]
        BY <1>1, <3>1, ProcessStores DEF IInv
      <3> QED
        BY <2>1, <3>1, <3>2, <3>3
    <2> QED
      BY <2>2, <2>3
  <1>2. IInv /\ [Next]_vars => [Forward]_vars
    <2> SUFFICES ASSUME IInv, Next PROVE Forward
      OBVIOUS
    <2>1. \A a \in Accounts : db.version[a] \in Nat /\ db.lt[a] \in Nat
      BY DEF IInv, Shape
    <2>2. CASE db'.version = db.version /\ db'.lt = db.lt
      BY <2>1, <2>2
    <2>3. CASE NextOfBlock
      <3>1. Head(updates) \in Event /\ Sound(Head(updates)) /\ mode # "accounts"
        BY <2>3, SMTT(30) DEF NextOfBlock, IInv, Shape, Reports, OneWaits
      <3>2. CASE Head(updates).type = "tx"
        BY <1>1, <2>3, <3>1, <3>2 DEF NextOfBlock
      <3>3. CASE Head(updates).type # "tx"
        BY <2>2, <2>3, <3>3 DEF NextOfBlock, IInv, Shape
      <3> QED
        BY <3>2, <3>3
    <2>4. CASE \E a \in Accounts : NextWaiting(a)
      <3>1. PICK e \in waiting : Update(e)
        BY <2>4 DEF NextWaiting
      <3> QED
        BY <1>1, <3>1 DEF IInv, Shape, Reports
    <2>5. CASE Mine \/ FetchBlock \/ DiscoverChannel \/ Restart \/ \E a \in Accounts : WatchAccount(a)
      BY <2>2, <2>5 DEF Mine, FetchBlock, DiscoverChannel, Restart, WatchAccount
    <2> QED
      BY <2>3, <2>4, <2>5 DEF Next
  <1> QED
    BY <1>2, Inductive, PTL DEF Spec, NeverBack
=============================================================================
