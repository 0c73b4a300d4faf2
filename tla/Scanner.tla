------------------------------ MODULE Scanner ------------------------------
(***************************************************************************)
(* How what happens to the two contracts of a channel reaches the node.    *)
(* Either every block is scanned or every known contract is watched; both  *)
(* feed one queue of updates that the service works off, and both go on    *)
(* after a restart from what the service has stored.                       *)
(*                                                                         *)
(* A transaction is the n-th one of its account, and n is its logical      *)
(* time.  Version n of an account is its state after transaction n.        *)
(***************************************************************************)
EXTENDS Integers, Sequences

CONSTANTS
    Modes,      \* subset of {"blocks", "accounts"}: --use-block-scanner or not
    MaxBlocks,  \* bound: blocks
    MaxPerBlock,\* bound: transactions of an account in a block
    MaxCrash,   \* bound: restarts
    MaxLosses   \* bound: blocks or accounts that cannot be fetched in 20 attempts

ASSUME ScannerAssumption ==
    /\ Modes \subseteq {"blocks", "accounts"}
    /\ {MaxBlocks, MaxPerBlock, MaxCrash, MaxLosses} \subseteq Nat

Accounts == {"our", "their"}

VARIABLES
    mode,
    blocks,   \* blocks[b][a]: the number of transactions of account a up to block b
    cursor,   \* the last block the scanner reported
    since,    \* since[a]: the last transaction the watcher of account a reported, or -1
    updates,  \* what the block scanner is reporting, over a channel without buffer
    waiting,  \* events other goroutines hold: watchers, discoverChannel, timers
    db,       \* what is stored: known, lt, version, seen, offset
    crashes, losses

vars == <<mode, blocks, cursor, since, updates, waiting, db, crashes, losses>>

Zero == [a \in Accounts |-> 0]
NotWatched == [a \in Accounts |-> -1]
Top == blocks[Len(blocks)]

Init ==
    /\ mode \in Modes
    /\ blocks = <<Zero>>
    /\ cursor = 1
    /\ updates = <<>> /\ waiting = {}
    /\ \E k \in BOOLEAN :
         /\ db = [known |-> k, lt |-> Zero, version |-> Zero,
                  seen |-> [a \in Accounts |-> {}], offset |-> 1]
         /\ since = IF k /\ mode = "accounts" THEN Zero ELSE NotWatched
    /\ crashes = 0 /\ losses = 0

\* The blockchain, external.
Mine ==
    /\ Len(blocks) <= MaxBlocks
    /\ \E n \in [Accounts -> 0..MaxPerBlock] :
         blocks' = Append(blocks, [a \in Accounts |-> Top[a] + n[a]])
    /\ UNCHANGED <<mode, cursor, since, updates, waiting, db, crashes, losses>>

-----------------------------------------------------------------------------
(* The two scanners.                                                       *)

TxEvent(a, n, v) == [type |-> "tx", acc |-> a, lt |-> n, version |-> v]
BlockEvent(b) == [type |-> "block", acc |-> "none", lt |-> b, version |-> 0]

\* One event for an account of the block: its first transaction, and the state after all.
BlockTx(b, a) ==
    IF blocks[b][a] = blocks[b - 1][a] THEN <<>>
    ELSE <<TxEvent(a, blocks[b - 1][a] + 1, blocks[b][a])>>

\* fetchBlock of the block after the last one, and the report of its events.
FetchBlock ==
    /\ mode = "blocks" /\ cursor < Len(blocks) /\ updates = <<>>
    /\ \E lost \in SUBSET Accounts :
         /\ losses' = losses + (IF lost = {} THEN 0 ELSE 1) /\ losses' <= MaxLosses
         /\ \E s \in {<<"our", "their">>, <<"their", "our">>} :  \* the order of their times
              LET b == cursor + 1
                  tx(i) == IF s[i] \in lost THEN <<>> ELSE BlockTx(b, s[i])
              IN  updates' = tx(1) \o tx(2) \o <<BlockEvent(b)>>
    /\ cursor' = cursor + 1
    /\ UNCHANGED <<mode, blocks, since, waiting, db, crashes>>

\* subscribeOnTransactions and accFetch: transactions in order, with the state of now.
WatchAccount(a) ==
    /\ mode = "accounts" /\ since[a] >= 0 /\ since[a] < Top[a]
    /\ ~ \E e \in waiting : e.acc = a
    /\ since' = [since EXCEPT ![a] = @ + 1]
    /\ \E lost \in BOOLEAN :
         /\ losses' = losses + (IF lost THEN 1 ELSE 0) /\ losses' <= MaxLosses
         /\ waiting' = IF lost THEN waiting
                       ELSE waiting \cup {TxEvent(a, since[a] + 1, Top[a])}
    /\ UNCHANGED <<mode, blocks, cursor, updates, db, crashes>>

\* discoverChannel: somebody talks about a channel that is not known.
DiscoverChannel ==
    /\ ~db.known /\ Top["our"] > 0
    /\ ~ \E e \in waiting : e.acc = "our"   \* bound: once at a time
    /\ waiting' = waiting \cup {TxEvent("our", Top["our"], Top["our"])}
    /\ UNCHANGED <<mode, blocks, cursor, since, updates, db, crashes, losses>>

-----------------------------------------------------------------------------
(* The service.                                                            *)

\* Fault: an event that was processed before is processed again.
RepeatedNever(e) == FALSE

Repeated(e) == e.lt <= db.lt[e.acc]

\* Fault: the watcher begins with the transaction after the next one.
ListenFromLate(lt) == [a \in Accounts |-> lt[a] + 1]

\* OnChannelUpdate: "to report last tx".
ListenFrom(lt) == [a \in Accounts |-> IF lt[a] > 0 THEN lt[a] - 1 ELSE 0]

Process(e) ==
    db' = IF Repeated(e) THEN db
          ELSE [db EXCEPT !.known = TRUE, !.lt[e.acc] = e.lt, !.version[e.acc] = e.version,
                          !.seen[e.acc] = @ \cup {e.lt}]

\* The loop of Start, for an event of a contract.  An event of the party's contract
\* that comes before ours is put off by a timer.
Update(e) ==
    IF e.acc = "their" /\ ~db.known
    THEN waiting' = waiting \cup {e} /\ UNCHANGED <<db, since>>
    ELSE /\ Process(e)
         /\ waiting' = waiting \ {e}
         /\ since' = IF mode = "accounts" /\ since = NotWatched THEN ListenFrom(db'.lt) ELSE since

NextOfBlock ==
    /\ updates # <<>>
    /\ updates' = Tail(updates)
    /\ IF Head(updates).type = "tx" THEN Update(Head(updates))
       ELSE db' = [db EXCEPT !.offset = Head(updates).lt] /\ UNCHANGED <<waiting, since>>
    /\ UNCHANGED <<mode, blocks, cursor, crashes, losses>>

NextWaiting(a) ==
    \E e \in waiting :
        /\ e.acc = a /\ Update(e)
        /\ UNCHANGED <<mode, blocks, cursor, updates, crashes, losses>>

\* Fault: the scan goes on after the last block that was fetched, not stored.
ResumeAtTop == Len(blocks)

\* Scanner.Start: the block of the stored offset is scanned again.
Resume == db.offset - 1

Restart ==
    /\ crashes < MaxCrash
    /\ crashes' = crashes + 1
    /\ updates' = <<>> /\ waiting' = {}
    /\ cursor' = IF Resume > 1 THEN Resume ELSE 1
    /\ since' = IF mode = "accounts" /\ db.known THEN ListenFrom(db.lt) ELSE NotWatched
    /\ UNCHANGED <<mode, blocks, db, losses>>

Next ==
    \/ Mine \/ FetchBlock \/ DiscoverChannel \/ NextOfBlock \/ Restart
    \/ \E a \in Accounts : WatchAccount(a) \/ NextWaiting(a)

Spec == Init /\ [][Next]_vars

\* The scanners and the service run; a sender gets its turn at the unbuffered channel.
LiveSpec ==
    /\ Spec /\ WF_vars(FetchBlock) /\ WF_vars(NextOfBlock)
    /\ \A a \in Accounts : WF_vars(WatchAccount(a)) /\ SF_vars(NextWaiting(a))

-----------------------------------------------------------------------------
(* Properties                                                              *)

\* Types, and the node knows no version that does not exist.
TypeOK ==
    /\ mode \in Modes /\ cursor \in 1..Len(blocks) /\ db.offset \in 1..Len(blocks)
    /\ \A a \in Accounts : /\ since[a] \in -1..Top[a]
                           /\ db.lt[a] <= db.version[a] /\ db.version[a] <= Top[a]
    /\ crashes \in 0..MaxCrash /\ losses \in 0..MaxLosses

\* The picture the node has of a contract never goes back in time, although events are
\* reported twice, after a restart again, and after a wait in another order.
NeverBack ==
    [][\A a \in Accounts : db'.version[a] >= db.version[a] /\ db'.lt[a] >= db.lt[a]]_vars

\* A watched contract has no gap: between two transactions that were looked at, every
\* one was looked at, so that no settlement in its body is overlooked.
NoGap ==
    mode = "accounts" /\ losses = 0 =>
        \A a \in Accounts : \A m, n \in db.seen[a] : (m..n) \subseteq db.seen[a]

\* Every change of a contract of a known channel is known in the end, restarts or not,
\* unless no node of the blockchain answers in 20 attempts.
\* (Not of the party's contract if blocks are scanned: an event that is put off is kept
\* in memory while the offset moves on.)
CaughtUp ==
    \A a \in Accounts : \A v \in 1..(MaxBlocks * MaxPerBlock) :
        (db.known /\ Top[a] = v /\ (mode = "accounts" \/ a = "our")) ~> (db.version[a] >= v \/ losses > 0)
=============================================================================
