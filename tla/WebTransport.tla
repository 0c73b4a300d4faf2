---------------------------- MODULE WebTransport ----------------------------
(***************************************************************************)
(* A browser node and the server node it has a channel with.  The browser  *)
(* holds a stream of events open (EventSource) and posts everything else:  *)
(* its own queries and its answers to the queries the server has pushed    *)
(* into the stream.  A stream is tied to a peer object at each end, a peer *)
(* must authenticate once, and each end looks its peer up by channel key.  *)
(*                                                                         *)
(* A browser opens a stream again by itself, with the URL it has, as long  *)
(* as the token in the URL is fresh (45 seconds).                          *)
(***************************************************************************)
EXTENDS Integers, Sequences, FiniteSets

CONSTANTS
    MaxQuery,   \* bound: queries the server makes
    QueueSize,  \* capacity of pushQueue (4 in the code)
    MaxPeer,    \* bound: calls of Connect in the browser
    MaxStream,  \* bound: streams opened
    MaxCalls,   \* bound: posts of the browser on their way at a time
    MaxFaults   \* bound: broken streams, failed posts, reloads

ASSUME WebAssumption ==
    /\ {MaxQuery, QueueSize, MaxPeer, MaxStream, MaxCalls} \subseteq Nat \ {0}
    /\ MaxFaults \in Nat

Peer == 1 .. MaxPeer
Stream == 1 .. MaxStream
Query == 1 .. MaxQuery
None == 0

VARIABLES
    stream,  \* stream[c]: the SSE handler and the PeerConnection of stream c
    queue,   \* queue[c]: its pushQueue
    pending, \* pending[c]: its map of queries
    cur,     \* the server's peers[key]
    srvKey,  \* the server's peersByKey: a stream
    query,   \* query[q]: the call of Query on the server
    answers, \* answers of the browser on their way
    peer,    \* peer[e]: the peer objects of the browser
    hpeer,   \* the browser's HTTP.peer
    cliKey,  \* the browser's peersByKey: a peer object
    calls,   \* posts of the browser: authentication, pings and other queries
    faults

server == <<stream, cur, srvKey>>
queries == <<queue, pending, query, answers>>
browser == <<peer, hpeer, cliKey>>
vars == <<stream, cur, srvKey, queue, pending, query, answers, peer, hpeer, cliKey, calls, faults>>

Init ==
    /\ stream = [c \in Stream |-> [st |-> "none", auth |-> FALSE, late |-> FALSE, prev |-> None, of |-> None]]
    /\ queue = [c \in Stream |-> <<>>]
    /\ pending = [c \in Stream |-> {}]
    /\ cur = None /\ srvKey = None
    /\ query = [q \in Query |-> [st |-> "idle", on |-> None]]
    /\ answers = {}
    /\ peer = [e \in Peer |-> [st |-> "none", auth |-> FALSE, due |-> FALSE, fresh |-> FALSE, on |-> None]]
    /\ hpeer = None /\ cliKey = None
    /\ calls = {}
    /\ faults = 0

Done(c) == stream[c].st \in {"closed", "leaving", "ended"}

\* Closed, and the transport has been told.
Over(c) == stream[c].st \in {"closed", "ended"} /\ \A d \in Stream : stream[d].prev # c

-----------------------------------------------------------------------------
(* The browser's connection.                                               *)

\* HTTP.Connect, up to the subscription: the token has been signed.
Connect(e) ==
    /\ cliKey = None /\ hpeer = None
    /\ peer[e].st = "none" /\ \A d \in Peer : (d < e => peer[d].st # "none") /\ peer[d].st # "connecting"
    /\ peer' = [peer EXCEPT ![e].st = "connecting", ![e].fresh = TRUE]
    /\ UNCHANGED <<server, queries, hpeer, cliKey, calls, faults>>

\* 45 seconds later the server does not accept the token any more; it is not looked at
\* while there is a stream.
Expire(e) ==
    /\ peer[e].fresh /\ peer[e].st = "up" /\ peer[e].on = None
    /\ peer' = [peer EXCEPT ![e].fresh = FALSE]
    /\ UNCHANGED <<server, queries, hpeer, cliKey, calls, faults>>

\* The callback of the first event of a stream; Connect returns and its caller will authenticate.
Hello(e) ==
    /\ peer[e].st = "connecting" /\ peer[e].on # None /\ stream[peer[e].on].st = "open"
    /\ peer' = [peer EXCEPT ![e].st = "up", ![e].due = TRUE]
    /\ hpeer' = e
    /\ UNCHANGED <<server, queries, cliKey, calls, faults>>

\* Fault: the peer object stays registered.
OffKept(e) ==
    /\ peer' = [peer EXCEPT ![e].st = "off", ![e].on = None]
    /\ hpeer' = IF peer[e].st = "connecting" THEN hpeer ELSE None
    /\ UNCHANGED cliKey

\* onDisconnect and handleDisconnect; HTTP.peer is cleared whichever peer it is.
Off(e) ==
    /\ peer' = [peer EXCEPT ![e].st = "off", ![e].on = None]
    /\ hpeer' = IF peer[e].st = "connecting" THEN hpeer ELSE None
    /\ cliKey' = IF cliKey = e THEN None ELSE cliKey

\* Connect gives up after its timeout.
ConnectTimeout(e) ==
    /\ peer[e].st = "connecting" /\ faults < MaxFaults
    /\ Off(e)
    /\ faults' = faults + 1
    /\ UNCHANGED <<server, queries, calls>>

\* The browser loses the stream: the server has ended it, or the network has failed.
StreamEnded(e) ==
    /\ peer[e].on # None /\ Done(peer[e].on)
    /\ peer' = [peer EXCEPT ![e].on = None]
    /\ UNCHANGED <<server, queries, hpeer, cliKey, calls, faults>>

StreamBroken(e) ==
    /\ peer[e].on # None /\ ~Done(peer[e].on) /\ faults < MaxFaults
    /\ faults' = faults + 1
    /\ peer' = [peer EXCEPT ![e].on = None]
    /\ UNCHANGED <<server, queries, hpeer, cliKey, calls>>

\* The server refuses the old token, and the EventSource is closed.
Refused(e) ==
    /\ peer[e].st = "up" /\ peer[e].on = None /\ ~peer[e].fresh
    /\ Off(e)
    /\ UNCHANGED <<server, queries, calls, faults>>

\* The page is loaded again.
Reload ==
    /\ faults < MaxFaults /\ faults' = faults + 1
    /\ peer' = [e \in Peer |-> IF peer[e].st = "none" THEN peer[e] ELSE [peer[e] EXCEPT !.st = "off", !.on = None, !.due = FALSE]]
    /\ hpeer' = None /\ cliKey' = None
    /\ calls' = {[x EXCEPT !.waits = FALSE] : x \in {y \in calls : y.at # "answered"}}
    /\ UNCHANGED <<server, queries>>

-----------------------------------------------------------------------------
(* The SSE handler of the server.                                          *)

Returned == [st |-> "done", on |-> None]

\* Every Query on the stream returns errPeerClosed.
Quit(c) == [q \in Query |-> IF query[q].on = c THEN Returned ELSE query[q]]

\* sseHandler, up to the unlock: the new stream takes the place of the previous one.
Subscribe(e, c) ==
    /\ peer[e].st \in {"connecting", "up"} /\ peer[e].on = None /\ peer[e].fresh
    /\ stream[c].st = "none" /\ \A d \in Stream : d < c => stream[d].st # "none"
    /\ stream' = [d \in Stream |->
                    IF d = c THEN [stream[c] EXCEPT !.st = "new", !.prev = cur, !.of = e]
                    ELSE IF d = cur THEN [stream[d] EXCEPT !.st = "closed"] ELSE stream[d]]
    /\ pending' = [d \in Stream |-> IF d = cur THEN {} ELSE pending[d]]
    /\ queue' = [d \in Stream |-> IF d = cur THEN <<>> ELSE queue[d]]
    /\ query' = IF cur = None THEN query ELSE Quit(cur)
    /\ cur' = c
    /\ peer' = [peer EXCEPT ![e].on = c]
    /\ UNCHANGED <<srvKey, answers, hpeer, cliKey, calls, faults>>

\* Fault: whatever peer has the key is forgotten.
HandleDisconnectAny(c) == None

\* Transport.handleDisconnect of the server.
HandleDisconnect(c) == IF c # None /\ srvKey = c THEN None ELSE srvKey

\* Fault: the previous peer is not reported.
ReplacedSilently(c) ==
    /\ stream[c].st = "new"
    /\ stream' = [stream EXCEPT ![c].st = "open", ![c].prev = None]
    /\ UNCHANGED <<cur, srvKey, queries, browser, calls, faults>>

\* The previous peer is reported, then the first event is written.
Replaced(c) ==
    /\ stream[c].st = "new"
    /\ srvKey' = HandleDisconnect(stream[c].prev)
    /\ stream' = [stream EXCEPT ![c].st = "open", ![c].prev = None]
    /\ UNCHANGED <<cur, queries, browser, calls, faults>>

Listening(c) == stream[c].of # None /\ peer[stream[c].of].on = c

\* The request is over: the deferred function closes the connection ...
End(c) ==
    /\ stream[c].st \in {"open", "closed"}
    /\ stream[c].st = "closed" \/ ~Listening(c)
    /\ stream' = [stream EXCEPT ![c].st = IF cur = c THEN "leaving" ELSE "ended"]
    /\ cur' = IF cur = c THEN None ELSE cur
    /\ pending' = [pending EXCEPT ![c] = {}] /\ queue' = [queue EXCEPT ![c] = <<>>]
    /\ query' = Quit(c)
    /\ UNCHANGED <<srvKey, answers, browser, calls, faults>>

\* ... and reports the peer.
Leave(c) ==
    /\ stream[c].st = "leaving"
    /\ srvKey' = HandleDisconnect(c)
    /\ stream' = [stream EXCEPT ![c].st = "ended"]
    /\ UNCHANGED <<cur, queries, browser, calls, faults>>

-----------------------------------------------------------------------------
(* Queries of the browser, and the answers to them.                        *)

Post(e, type) ==
    /\ Cardinality(calls) < MaxCalls
    /\ \A y \in calls : ~(y.of = e /\ y.type = type /\ y.waits)
    /\ calls' = calls \cup {[of |-> e, type |-> type, at |-> "sent", via |-> None, res |-> "none", waits |-> TRUE]}

\* preparePeer: the caller of Connect has the new peer, others the registered one or else
\* that of Connect; the lock of the peer is held while it authenticates.
Authenticate(e) ==
    /\ peer[e].due \/ (cliKey = None /\ hpeer = e)
    /\ ~peer[e].auth
    /\ Post(e, "auth")
    /\ peer' = [peer EXCEPT ![e].due = FALSE]
    /\ UNCHANGED <<server, queries, hpeer, cliKey, faults>>

\* The loop of AddUrgentPeer.
Ping ==
    /\ cliKey # None
    /\ Post(cliKey, "ping")
    /\ UNCHANGED <<server, queries, browser, faults>>

\* Nobody waits for the answer of a post that has failed, so it is not kept.
Answer(x, res) ==
    calls' = (calls \ {x}) \cup (IF x.waits THEN {[x EXCEPT !.at = "answered", !.res = res]} ELSE {})

\* pushHandler looks up the stream of the key: without one it answers 401.
Look(x) ==
    /\ x.at = "sent"
    /\ IF cur = None THEN Answer(x, "gone")
       ELSE calls' = (calls \ {x}) \cup {[x EXCEPT !.at = "found", !.via = cur]}
    /\ UNCHANGED <<server, queries, browser, faults>>

\* handleQuery: Authenticate and Ping.  Whether the stream was closed is looked at before.
Handle(x) ==
    /\ x.at = "found"
    /\ IF x.type = "auth"
       THEN /\ stream' = [stream EXCEPT ![x.via].auth = TRUE, ![x.via].late = @ \/ Done(x.via)]
            /\ srvKey' = IF stream[x.via].auth THEN srvKey ELSE x.via
       ELSE UNCHANGED <<stream, srvKey>>
    /\ Answer(x, "ok")
    /\ UNCHANGED <<cur, queries, browser, faults>>

HandleClosed(x) ==
    /\ x.at = "found" /\ Done(x.via)
    /\ Answer(x, "gone")
    /\ UNCHANGED <<server, queries, browser, faults>>

\* Query of the browser returns: after 401 it closes its peer; auth registers the peer.
Return(x) ==
    /\ x.at = "answered"
    /\ calls' = calls \ {x}
    /\ IF x.res = "gone" THEN Off(x.of)
       ELSE IF x.type = "auth"
       THEN /\ peer' = [peer EXCEPT ![x.of].auth = TRUE]
            /\ cliKey' = x.of
            /\ UNCHANGED hpeer
       ELSE UNCHANGED browser
    /\ UNCHANGED <<server, queries, faults>>

\* A post fails in the network, on its way or on the way back, or the clocks of the two
\* nodes are too far apart to authenticate.
CallFails(x) ==
    /\ x.waits /\ faults < MaxFaults /\ faults' = faults + 1
    /\ calls' = (calls \ {x}) \cup (IF x.at = "answered" THEN {} ELSE {[x EXCEPT !.waits = FALSE]})
    /\ UNCHANGED <<server, queries, browser>>

-----------------------------------------------------------------------------
(* Queries of the server.                                                  *)

NextQuery(q) == query[q].st = "idle" /\ \A p \in Query : p < q => query[p].st # "idle"

Registers(q, c) ==
    /\ query' = [query EXCEPT ![q] = [st |-> IF Len(queue[c]) < QueueSize THEN "sent" ELSE "waiting", on |-> c]]
    /\ pending' = [pending EXCEPT ![c] = @ \cup {q}]
    /\ queue' = IF Len(queue[c]) < QueueSize THEN [queue EXCEPT ![c] = Append(@, q)] ELSE queue

\* Fault: a query is registered although the connection is closed.
AskUnchecked(q) ==
    /\ NextQuery(q) /\ srvKey # None
    /\ Registers(q, srvKey)
    /\ UNCHANGED <<server, answers, browser, calls, faults>>

\* PeerConnection.Query: a server cannot connect, it needs a registered peer.
Ask(q) ==
    /\ NextQuery(q) /\ srvKey # None
    /\ IF Done(srvKey) THEN query' = [query EXCEPT ![q] = Returned] /\ UNCHANGED <<queue, pending>>
       ELSE Registers(q, srvKey)
    /\ UNCHANGED <<server, answers, browser, calls, faults>>

\* A query that found the queue full goes on when there is room.
Push(q) ==
    /\ query[q].st = "waiting" /\ Len(queue[query[q].on]) < QueueSize
    /\ queue' = [queue EXCEPT ![query[q].on] = Append(@, q)]
    /\ query' = [query EXCEPT ![q].st = "sent"]
    /\ UNCHANGED <<server, pending, answers, browser, calls, faults>>

\* The loop of sseHandler, and the callback of the event: an unauthenticated peer is not
\* answered, and what is written to a broken stream is lost.
Write(c) ==
    /\ stream[c].st = "open" /\ queue[c] # <<>>
    /\ queue' = [queue EXCEPT ![c] = Tail(@)]
    /\ answers' = IF Listening(c) /\ peer[stream[c].of].auth THEN answers \cup {Head(queue[c])} ELSE answers
    /\ UNCHANGED <<server, pending, query, browser, calls, faults>>

\* pushHandler, an answer: the stream of the key, then its map of queries.
Deliver(q) ==
    /\ q \in answers
    /\ answers' = answers \ {q}
    /\ IF cur # None /\ q \in pending[cur]
       THEN /\ query' = [query EXCEPT ![q] = Returned]
            /\ pending' = [pending EXCEPT ![cur] = @ \ {q}]
       ELSE UNCHANGED <<query, pending>>
    /\ UNCHANGED <<server, queue, browser, calls, faults>>

Timeout(q) ==
    /\ query[q].st \in {"waiting", "sent"}
    /\ query' = [query EXCEPT ![q] = Returned]
    /\ pending' = [pending EXCEPT ![query[q].on] = @ \ {q}]
    /\ UNCHANGED <<server, queue, answers, browser, calls, faults>>

-----------------------------------------------------------------------------
Type == {"auth", "ping"}

\* Steps that a node takes by itself.
BrowserStep(e) ==
    \/ Connect(e) \/ Hello(e) \/ Authenticate(e)
    \/ Expire(e) \/ Refused(e) \/ StreamEnded(e) \/ \E c \in Stream : Subscribe(e, c)

HandlerStep(c) == Replaced(c) \/ End(c) \/ Leave(c)

CallStep(x) == Look(x) \/ Handle(x) \/ Return(x)

Next ==
    \/ \E e \in Peer : BrowserStep(e) \/ ConnectTimeout(e) \/ StreamBroken(e)
    \/ Reload \/ Ping
    \/ \E c \in Stream : HandlerStep(c) \/ Write(c)
    \/ \E x \in calls : CallStep(x) \/ HandleClosed(x) \/ CallFails(x)
    \/ \E q \in Query : Ask(q) \/ Push(q) \/ Deliver(q) \/ Timeout(q)

Spec == Init /\ [][Next]_vars

\* The browser pings its urgent peer for ever, and connects to it first if it must.  A
\* post is answered or fails, a broken stream is noticed at both ends, a token grows old.
\* (Each of these happens finitely often, so one condition for all of them is enough.)
FairSpec ==
    /\ Spec
    /\ WF_vars(\E e \in Peer : BrowserStep(e))
    /\ WF_vars(\E c \in Stream : HandlerStep(c))
    /\ WF_vars(Ping)
    /\ \A t \in Type : WF_vars(\E x \in calls : x.type = t /\ CallStep(x))

-----------------------------------------------------------------------------
(* Properties.                                                             *)

\* The shape of the state; no pushQueue grows past its capacity.
TypeOK ==
    /\ stream \in [Stream -> [st : {"none", "new", "open", "closed", "leaving", "ended"}, auth : BOOLEAN,
                              late : BOOLEAN, prev : 0 .. MaxStream, of : 0 .. MaxPeer]]
    /\ \A c \in Stream : Len(queue[c]) <= QueueSize /\ \A i \in 1 .. Len(queue[c]) : queue[c][i] \in Query
    /\ pending \in [Stream -> SUBSET Query]
    /\ {cur, srvKey} \subseteq 0 .. MaxStream
    /\ query \in [Query -> [st : {"idle", "waiting", "sent", "done"}, on : 0 .. MaxStream]]
    /\ answers \subseteq Query
    /\ peer \in [Peer -> [st : {"none", "connecting", "up", "off"}, auth : BOOLEAN, due : BOOLEAN, fresh : BOOLEAN,
                          on : 0 .. MaxStream]]
    /\ {hpeer, cliKey} \subseteq 0 .. MaxPeer
    /\ calls \subseteq [of : Peer, type : Type, at : {"sent", "found", "answered"}, via : 0 .. MaxStream,
                        res : {"none", "ok", "gone"}, waits : BOOLEAN]
    /\ Cardinality(calls) <= MaxCalls /\ faults \in 0 .. MaxFaults

\* However streams are replaced and closed while queries are made, time out and are
\* answered: a query that still waits can be answered, a stream remembers no other, and
\* none waits on a stream that is closed
\* (close clears the map under the lock under which Query registers; assertNoPendingQueries).
Registered ==
    \A c \in Stream :
        /\ pending[c] = {q \in Query : query[q].on = c}
        /\ Done(c) => pending[c] = {}

\* A stream that is over is not the peer of its key, neither in the table of the HTTP server
\* nor in that of the transport (handleDisconnect is called once for each stream, by the
\* stream that replaces it or by itself), unless it authenticated after it was closed.
Forgotten ==
    \A c \in {cur, srvKey} \ {None} : Over(c) => stream[c].late

\* The browser has opened the stream of a peer object again by itself.
Reopened(e) == \E c, d \in Stream : c # d /\ stream[c].of = e /\ stream[d].of = e

Late == \E c \in Stream : stream[c].late

\* If the browser's peer object is authenticated and its stream is the one the server has,
\* then the server has that stream authenticated and finds the browser by it: the two ends
\* never disagree for good.  The exceptions are a stream the browser opened again without a
\* new peer object, and an authentication that overtakes the end of its stream.
Agree ==
    \A e \in Peer :
        peer[e].auth /\ peer[e].on # None /\ peer[e].on = cur =>
            (stream[cur].auth /\ srvKey = cur) \/ Reopened(e) \/ Late

Linked ==
    /\ cur # None /\ srvKey = cur /\ cliKey # None
    /\ Listening(cur) /\ peer[stream[cur].of].auth

\* Bound: the browser has connected as often as it may.
Exhausted == \A e \in Peer : peer[e].st # "none"

\* The authentication of a peer object was answered after its stream had gone, and there
\* is the stream of another.
Dead == cliKey # None /\ peer[cliKey].st = "off" /\ cur # None

\* Once the network stays up, the two nodes find each other and stay together (AddUrgentPeer,
\* Connect, onDisconnect).  The exceptions are those of Agree, and a browser that goes on
\* with a dead peer object, whose pings are answered through the stream of another.
StayLinked == <>[](Linked \/ Late \/ Dead \/ Exhausted \/ \E e \in Peer : Reopened(e))

=============================================================================
