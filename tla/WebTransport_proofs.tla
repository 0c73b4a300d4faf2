-------------------------- MODULE WebTransport_proofs --------------------------
(***************************************************************************)
(* Proofs about WebTransport, for any number of streams, peer objects,     *)
(* queries and failures: no query is left waiting on a stream that is over *)
(* (Registered), no stream that is over keeps its key (Forgotten), and the *)
(* two ends agree about who is authenticated (Agree).                      *)
(***************************************************************************)
EXTENDS WebTransport, TLAPS

StreamRecord == [st : {"none", "new", "open", "closed", "leaving", "ended"}, auth : BOOLEAN,
                 late : BOOLEAN, prev : 0 .. MaxStream, of : 0 .. MaxPeer]
PeerRecord == [st : {"none", "connecting", "up", "off"}, auth : BOOLEAN, due : BOOLEAN, fresh : BOOLEAN,
               on : 0 .. MaxStream]
QueryRecord == [st : {"idle", "waiting", "sent", "done"}, on : 0 .. MaxStream]
Call == [of : Peer, type : Type, at : {"sent", "found", "answered"}, via : 0 .. MaxStream,
         res : {"none", "ok", "gone"}, waits : BOOLEAN]

\* The types the proofs need, without the bounds of the model.
ServerShape == stream \in [Stream -> StreamRecord] /\ cur \in 0 .. MaxStream /\ srvKey \in 0 .. MaxStream
QueryShape == pending \in [Stream -> SUBSET Query] /\ query \in [Query -> QueryRecord]
BrowserShape == peer \in [Peer -> PeerRecord] /\ hpeer \in 0 .. MaxPeer /\ cliKey \in 0 .. MaxPeer
CallShape == calls \subseteq Call
Shape == ServerShape /\ QueryShape /\ BrowserShape /\ CallShape

\* Only a query that waits is on a stream.
Waits == \A q \in Query : query[q].st = "idle" => query[q].on = None

\* The stream the server has for the key is the one that is new or open, and a stream
\* that replaces another is not that other.
StreamOne(c) ==
    /\ stream[c].st \in {"new", "open"} <=> cur = c
    /\ stream[c].prev # c
    /\ stream[c].st = "none" =>
         ~stream[c].auth /\ ~stream[c].late /\ stream[c].prev = None /\ stream[c].of = None

OneStream == \A c \in Stream : StreamOne(c)

\* A post that found a stream found one that there is.
Found == \A x \in calls : x.at = "found" => x.via \in Stream /\ stream[x.via].st # "none"

\* The server finds the browser by the stream it has, if that one is authenticated.
Keyed == cur # None /\ stream[cur].auth => srvKey = cur \/ Late

\* A peer object has had a stream.
HadStream(e) == \E c \in Stream : stream[c].of = e

\* The server has a stream of e, and it is the only one e ever had.
Sole(e) == cur # None /\ stream[cur].of = e /\ ~Reopened(e)

\* A post is of a peer object that has had a stream; if it has had only the one the server
\* has, its authentication is on its way through that stream or has been through it.
Through(x) ==
    /\ HadStream(x.of)
    /\ x.type = "auth" /\ Sole(x.of) =>
         /\ x.at = "found" => x.via = cur
         /\ x.at = "answered" /\ x.res # "gone" => stream[cur].auth

\* A peer object does nothing before it has a stream, has only streams of its own, and is
\* authenticated only if the server has its stream authenticated.
Used(e) ==
    /\ \A c \in Stream : peer[e].on = c => stream[c].of = e
    /\ peer[e].auth \/ peer[e].due \/ hpeer = e \/ cliKey = e => HadStream(e)
    /\ peer[e].auth /\ Sole(e) => stream[cur].auth

BrowserParts == Found /\ (\A x \in calls : Through(x)) /\ (\A e \in Peer : Used(e))

\* The inductive invariant.
IInv == Shape /\ Waits /\ Registered /\ OneStream /\ Forgotten /\ Keyed /\ BrowserParts

-----------------------------------------------------------------------------
(* Types.                                                                  *)

\* Streams and peer objects are numbered from 1, so None is neither.
LEMMA Numbers ==
    /\ Stream \subseteq 0 .. MaxStream /\ None \notin Stream /\ None \in 0 .. MaxStream
    /\ Peer \subseteq 0 .. MaxPeer /\ None \notin Peer /\ None \in 0 .. MaxPeer
    /\ \A c \in 0 .. MaxStream : c # None => c \in Stream
    /\ \A e \in 0 .. MaxPeer : e # None => e \in Peer
BY WebAssumption DEF Stream, Peer, None

\* The answer to a post is a post of the model.
LEMMA AnswerShape ==
    ASSUME CallShape, NEW x \in calls, NEW res \in {"ok", "gone"}, Answer(x, res)
    PROVE  CallShape'
<1>1. x \in Call
  BY DEF CallShape
<1>2. [x EXCEPT !.at = "answered", !.res = res] \in Call
  BY <1>1 DEF Call
<1>3. QED
  BY <1>2 DEF Answer, CallShape

\* The browser forgets a peer object (Off).
LEMMA OffShape ==
    ASSUME BrowserShape, NEW e \in Peer, Off(e)
    PROVE  BrowserShape'
<1>1. [peer[e] EXCEPT !.st = "off", !.on = None] \in PeerRecord
  BY Numbers DEF BrowserShape, PeerRecord
<1>2. peer' \in [Peer -> PeerRecord]
  BY <1>1 DEF Off, BrowserShape
<1>3. QED
  BY <1>2, Numbers DEF Off, BrowserShape

\* A post of the browser is a post of the model.
LEMMA PostShape ==
    ASSUME CallShape, NEW e \in Peer, NEW type \in Type, Post(e, type)
    PROVE  CallShape'
<1>1. [of |-> e, type |-> type, at |-> "sent", via |-> None, res |-> "none", waits |-> TRUE] \in Call
  BY Numbers DEF Call
<1>2. QED
  BY <1>1 DEF Post, CallShape

\* Types are kept by the steps of the browser.
LEMMA BrowserTypes ==
    ASSUME Shape, NEW e \in Peer, BrowserStep(e) \/ ConnectTimeout(e) \/ StreamBroken(e)
    PROVE  Shape'
<1> USE DEF Shape
<1>1. CASE Connect(e)
  BY <1>1, Numbers, ZenonT(60) DEF Connect, server, queries, ServerShape, QueryShape, BrowserShape, CallShape, PeerRecord
<1>2. CASE Hello(e)
  <2>1. peer[e] \in PeerRecord
    BY DEF BrowserShape
  <2>2. [peer[e] EXCEPT !.st = "up", !.due = TRUE] \in PeerRecord
    BY <2>1 DEF PeerRecord
  <2>3. peer' = [peer EXCEPT ![e] = [peer[e] EXCEPT !.st = "up", !.due = TRUE]]
    BY <1>2 DEF Hello, BrowserShape, PeerRecord
  <2>4. BrowserShape'
    BY <1>2, <2>2, <2>3, Numbers DEF Hello, BrowserShape
  <2>5. QED
    BY <1>2, <2>4 DEF Hello, server, queries, ServerShape, QueryShape, CallShape
<1>3. CASE Authenticate(e)
  <2>1. CallShape'
    BY <1>3, PostShape DEF Authenticate, Type
  <2>2. BrowserShape'
    BY <1>3 DEF Authenticate, BrowserShape, PeerRecord
  <2>3. QED
    BY <1>3, <2>1, <2>2 DEF Authenticate, server, queries, ServerShape, QueryShape
<1>4. CASE Expire(e)
  BY <1>4, Numbers DEF Expire, server, queries, ServerShape, QueryShape, BrowserShape, CallShape, PeerRecord
<1>5. CASE Refused(e)
  BY <1>5, OffShape DEF Refused, server, queries, ServerShape, QueryShape, CallShape
<1>6. CASE StreamEnded(e) \/ StreamBroken(e)
  BY <1>6, Numbers DEF StreamEnded, StreamBroken, server, queries, ServerShape, QueryShape, BrowserShape, CallShape, PeerRecord
<1>7. ASSUME NEW c \in Stream, Subscribe(e, c)
      PROVE  Shape'
  <2>0. stream[c] \in StreamRecord /\ cur \in 0 .. MaxStream /\ e \in 0 .. MaxPeer
    BY <1>7, Numbers DEF ServerShape
  <2>1. [stream[c] EXCEPT !.st = "new", !.prev = cur, !.of = e] \in StreamRecord
    BY <2>0 DEF StreamRecord
  <2>2. \A d \in Stream : [stream[d] EXCEPT !.st = "closed"] \in StreamRecord
    BY DEF ServerShape, StreamRecord
  <2>3. stream' \in [Stream -> StreamRecord]
    BY <1>7, <2>1, <2>2 DEF Subscribe, ServerShape
  <2>4. ServerShape'
    BY <1>7, <2>3, Numbers DEF Subscribe, ServerShape
  <2>5. query' \in [Query -> QueryRecord]
    BY <1>7, Numbers DEF Subscribe, Quit, Returned, QueryShape, QueryRecord
  <2>6. QueryShape'
    BY <1>7, <2>5 DEF Subscribe, QueryShape
  <2>7. BrowserShape'
    BY <1>7, Numbers DEF Subscribe, BrowserShape, PeerRecord
  <2>8. QED
    BY <1>7, <2>4, <2>6, <2>7 DEF Subscribe, CallShape
<1>8. CASE ConnectTimeout(e)
  BY <1>8, OffShape DEF ConnectTimeout, server, queries, ServerShape, QueryShape, CallShape
<1>9. QED
  BY <1>1, <1>2, <1>3, <1>4, <1>5, <1>6, <1>7, <1>8 DEF BrowserStep

\* Types are kept when the page is loaded again, and by a ping.
LEMMA PageTypes ==
    ASSUME Shape, Reload \/ Ping
    PROVE  Shape'
<1> USE DEF Shape
<1>1. CASE Reload
  <2>1. \A e \in Peer : [peer[e] EXCEPT !.st = "off", !.on = None, !.due = FALSE] \in PeerRecord
    BY Numbers DEF BrowserShape, PeerRecord
  <2>2. BrowserShape'
    BY <1>1, <2>1, Numbers DEF Reload, BrowserShape
  <2>3. \A x \in Call : [x EXCEPT !.waits = FALSE] \in Call
    BY DEF Call
  <2>4. CallShape'
    BY <1>1, <2>3 DEF Reload, CallShape
  <2>5. QED
    BY <1>1, <2>2, <2>4 DEF Reload, server, queries, ServerShape, QueryShape
<1>2. CASE Ping
  <2>1. cliKey \in Peer
    BY <1>2, Numbers DEF Ping, BrowserShape
  <2>2. CallShape'
    BY <1>2, <2>1, PostShape DEF Ping, Type
  <2>3. QED
    BY <1>2, <2>2 DEF Ping, server, queries, browser, ServerShape, QueryShape, BrowserShape
<1>3. QED
  BY <1>1, <1>2

\* Types are kept by the handler of a stream.
LEMMA HandlerTypes ==
    ASSUME Shape, NEW c \in Stream, HandlerStep(c) \/ Write(c)
    PROVE  Shape'
<1> USE DEF Shape
<1>1. CASE Replaced(c)
  BY <1>1, Numbers, ZenonT(60) DEF Replaced, HandleDisconnect, queries, browser, ServerShape, QueryShape, BrowserShape, CallShape, StreamRecord
<1>2. CASE End(c)
  <2>1. ServerShape'
    BY <1>2, Numbers, ZenonT(60) DEF End, ServerShape, StreamRecord
  <2>2. query' \in [Query -> QueryRecord]
    BY <1>2, Numbers DEF End, Quit, Returned, QueryShape, QueryRecord
  <2>3. QED
    BY <1>2, <2>1, <2>2 DEF End, browser, QueryShape, BrowserShape, CallShape
<1>3. CASE Leave(c)
  BY <1>3, Numbers DEF Leave, HandleDisconnect, queries, browser, ServerShape, QueryShape, BrowserShape, CallShape, StreamRecord
<1>4. CASE Write(c)
  BY <1>4 DEF Write, server, browser, ServerShape, QueryShape, BrowserShape, CallShape
<1>5. QED
  BY <1>1, <1>2, <1>3, <1>4 DEF HandlerStep

\* Types are kept on the way of a post.
LEMMA CallTypes ==
    ASSUME Shape, Found, NEW x \in calls, CallStep(x) \/ HandleClosed(x) \/ CallFails(x)
    PROVE  Shape'
<1> USE DEF Shape
<1>0. x \in Call
  BY DEF CallShape
<1>1. CASE Look(x)
  <2>1. ServerShape' /\ QueryShape' /\ BrowserShape'
    BY <1>1 DEF Look, server, queries, browser, ServerShape, QueryShape, BrowserShape
  <2>2. CASE cur = None
    BY <1>1, <2>1, <2>2, AnswerShape DEF Look
  <2>3. CASE cur # None
    <3>1. [x EXCEPT !.at = "found", !.via = cur] \in Call
      BY <1>0 DEF Call, ServerShape
    <3>2. QED
      BY <1>1, <2>1, <2>3, <3>1 DEF Look, CallShape
  <2>4. QED
    BY <2>2, <2>3
<1>2. CASE Handle(x)
  <2>1. CallShape'
    BY <1>2, AnswerShape DEF Handle
  <2>2. x.via \in Stream
    BY <1>2 DEF Handle, Found
  <2>3. ServerShape'
    <3>1. CASE x.type = "auth"
      <4>1. stream[x.via] \in StreamRecord
        BY <2>2 DEF ServerShape
      <4>2. PICK late \in BOOLEAN : late = (stream[x.via].late \/ Done(x.via))
        OBVIOUS
      <4>3. [stream[x.via] EXCEPT !.auth = TRUE, !.late = late] \in StreamRecord
        BY <4>1 DEF StreamRecord
      <4>4. stream' = [stream EXCEPT ![x.via] = [stream[x.via] EXCEPT !.auth = TRUE, !.late = late]]
        BY <1>2, <2>2, <3>1, <4>1, <4>2 DEF Handle, ServerShape, StreamRecord
      <4>5. QED
        BY <1>2, <2>2, <3>1, <4>3, <4>4, Numbers DEF Handle, ServerShape
    <3>2. CASE x.type # "auth"
      BY <1>2, <3>2 DEF Handle, ServerShape
    <3>3. QED
      BY <3>1, <3>2
  <2>4. QED
    BY <1>2, <2>1, <2>3 DEF Handle, queries, browser, QueryShape, BrowserShape
<1>3. CASE Return(x)
  <2>1. x.of \in Peer
    BY <1>0 DEF Call
  <2>2. BrowserShape'
    <3>1. CASE x.res = "gone"
      BY <1>3, <2>1, <3>1, OffShape DEF Return
    <3>2. CASE x.res # "gone" /\ x.type = "auth"
      <4>1. peer[x.of] \in PeerRecord
        BY <2>1 DEF BrowserShape
      <4>2. [peer[x.of] EXCEPT !.auth = TRUE] \in PeerRecord
        BY <4>1 DEF PeerRecord
      <4>3. peer' = [peer EXCEPT ![x.of] = [peer[x.of] EXCEPT !.auth = TRUE]]
        BY <1>3, <3>2 DEF Return
      <4>4. QED
        BY <1>3, <2>1, <3>2, <4>2, <4>3, Numbers DEF Return, BrowserShape
    <3>3. CASE x.res # "gone" /\ x.type # "auth"
      BY <1>3, <3>3 DEF Return, browser, BrowserShape
    <3>4. QED
      BY <3>1, <3>2, <3>3
  <2>3. QED
    BY <1>3, <2>2 DEF Return, server, queries, ServerShape, QueryShape, CallShape
<1>4. CASE HandleClosed(x)
  BY <1>4, AnswerShape DEF HandleClosed, server, queries, browser, ServerShape, QueryShape, BrowserShape
<1>5. CASE CallFails(x)
  <2>1. [x EXCEPT !.waits = FALSE] \in Call
    BY <1>0 DEF Call
  <2>2. QED
    BY <1>5, <2>1 DEF CallFails, server, queries, browser, ServerShape, QueryShape, BrowserShape, CallShape
<1>6. QED
  BY <1>1, <1>2, <1>3, <1>4, <1>5 DEF CallStep

\* A query that is registered keeps the types.
LEMMA RegistersShape ==
    ASSUME QueryShape, NEW q \in Query, NEW c \in Stream, Registers(q, c)
    PROVE  QueryShape'
BY Numbers DEF Registers, QueryShape, QueryRecord

\* Types are kept by the queries of the server.
LEMMA QueryTypes ==
    ASSUME Shape, NEW q \in Query, Ask(q) \/ Push(q) \/ Deliver(q) \/ Timeout(q)
    PROVE  Shape'
<1> USE DEF Shape
<1>1. ServerShape' /\ BrowserShape' /\ CallShape'
  BY DEF Ask, Push, Deliver, Timeout, server, browser, ServerShape, BrowserShape, CallShape
<1>2. CASE Ask(q)
  BY <1>1, <1>2, Numbers, RegistersShape DEF Ask, Returned, ServerShape, QueryShape, QueryRecord
<1>3. CASE Push(q)
  BY <1>1, <1>3 DEF Push, QueryShape, QueryRecord
<1>4. CASE Deliver(q)
  BY <1>1, <1>4, Numbers DEF Deliver, Returned, QueryShape, QueryRecord
<1>5. CASE Timeout(q)
  BY <1>1, <1>5, Numbers DEF Timeout, Returned, QueryShape, QueryRecord
<1>6. QED
  BY <1>2, <1>3, <1>4, <1>5


-----------------------------------------------------------------------------
(* The streams of the server and its two tables.                           *)

StreamParts == OneStream /\ Forgotten /\ Keyed

\* A stream is in one of its states.
LEMMA States ==
    ASSUME ServerShape, NEW c \in Stream
    PROVE  /\ stream[c].st \in {"none", "new", "open", "closed", "leaving", "ended"}
           /\ stream[c].auth \in BOOLEAN /\ stream[c].late \in BOOLEAN
           /\ stream[c].prev \in 0 .. MaxStream /\ stream[c].of \in 0 .. MaxPeer
BY DEF ServerShape, StreamRecord

\* A new stream takes the place of the one there was, and remembers it until it has been reported.
LEMMA SubscribeStreams ==
    ASSUME Shape, StreamParts, NEW e \in Peer, NEW c \in Stream, Subscribe(e, c)
    PROVE  StreamParts'
<1> USE DEF Shape
<1>1. /\ stream'[c].st = "new" /\ stream'[c].prev = cur /\ stream'[c].auth = stream[c].auth
      /\ stream'[c].late = stream[c].late /\ cur' = c /\ srvKey' = srvKey
  BY DEF Subscribe, ServerShape, StreamRecord
<1>2. \A d \in Stream : d # c =>
        /\ stream'[d].st = (IF d = cur THEN "closed" ELSE stream[d].st)
        /\ stream'[d].prev = stream[d].prev /\ stream'[d].auth = stream[d].auth
        /\ stream'[d].late = stream[d].late /\ stream'[d].of = stream[d].of
  BY DEF Subscribe, ServerShape, StreamRecord
<1>3. stream[c].st = "none" /\ cur # c /\ ~stream[c].auth /\ stream[c].prev = None
  BY DEF Subscribe, StreamParts, OneStream, StreamOne
<1>4. OneStream'
  <2>1. \A d \in Stream : d # c => (stream'[d].st \in {"new", "open"} <=> cur' = d)
    BY <1>1, <1>2 DEF StreamParts, OneStream, StreamOne
  <2>2. \A d \in Stream : stream'[d].prev # d
    BY <1>1, <1>2, <1>3 DEF StreamParts, OneStream, StreamOne
  <2>3. \A d \in Stream : stream'[d].st = "none" =>
          ~stream'[d].auth /\ ~stream'[d].late /\ stream'[d].prev = None /\ stream'[d].of = None
    BY <1>1, <1>2 DEF StreamParts, OneStream, StreamOne
  <2>4. QED
    BY <1>1, <2>1, <2>2, <2>3 DEF OneStream, StreamOne
<1>5. Forgotten'
  <2>1. SUFFICES ASSUME srvKey \in Stream, Over(srvKey)'
                 PROVE  (stream[srvKey].late)'
    BY <1>1, Numbers DEF Forgotten, ServerShape, Over
  <2>2. srvKey # c /\ srvKey # cur
    BY <1>1, <2>1 DEF Over
  <2>3. Over(srvKey)
    BY <1>1, <1>2, <1>3, <2>1, <2>2, Numbers DEF Over
  <2>4. stream[srvKey].late
    BY <2>1, <2>3, Numbers DEF StreamParts, Forgotten
  <2>5. QED
    BY <1>1, <1>2, <2>1, <2>2, <2>4
<1>6. Keyed'
  BY <1>1, <1>3 DEF Keyed
<1>7. QED
  BY <1>4, <1>5, <1>6 DEF StreamParts

\* The stream that replaces another reports it, and a key that has gone over to the new
\* stream stays with it.
LEMMA ReplacedStreams ==
    ASSUME Shape, StreamParts, NEW c \in Stream, Replaced(c)
    PROVE  StreamParts'
<1> USE DEF Shape
<1>1. /\ stream'[c].st = "open" /\ stream'[c].prev = None /\ stream'[c].auth = stream[c].auth
      /\ stream'[c].late = stream[c].late /\ cur' = cur
  BY DEF Replaced, ServerShape, StreamRecord
<1>2. \A d \in Stream : d # c => stream'[d] = stream[d]
  BY DEF Replaced, ServerShape
<1>3. stream[c].st = "new" /\ cur = c /\ stream[c].prev # c
  BY DEF Replaced, StreamParts, OneStream, StreamOne
<1>4. srvKey' = IF stream[c].prev # None /\ srvKey = stream[c].prev THEN None ELSE srvKey
  BY DEF Replaced, HandleDisconnect
<1>5. OneStream'
  <2>1. SUFFICES ASSUME NEW d \in Stream PROVE StreamOne(d)'
    BY DEF OneStream
  <2>2. StreamOne(d)
    BY DEF StreamParts, OneStream
  <2>3. CASE d = c
    BY <1>1, <1>3, <2>2, <2>3, Numbers DEF StreamOne
  <2>4. CASE d # c
    BY <1>1, <1>2, <2>2, <2>4 DEF StreamOne
  <2>5. QED
    BY <2>3, <2>4
<1>6. Forgotten'
  <2>1. SUFFICES ASSUME srvKey' \in Stream, Over(srvKey)'
                 PROVE  (stream[srvKey].late)'
    BY <1>1, <1>3, <1>4, Numbers DEF Forgotten, ServerShape, Over
  <2>2. srvKey' = srvKey /\ srvKey # c /\ srvKey # stream[c].prev
    BY <1>1, <1>4, <2>1, Numbers DEF Over
  <2>3. Over(srvKey)
    BY <1>1, <1>2, <2>1, <2>2 DEF Over
  <2>4. stream[srvKey].late
    BY <2>1, <2>2, <2>3, Numbers DEF StreamParts, Forgotten
  <2>5. QED
    BY <1>2, <2>1, <2>2, <2>4
<1>7. Keyed'
  <2>1. SUFFICES ASSUME stream[c].auth
                 PROVE  srvKey' = c \/ Late'
    BY <1>1, <1>3 DEF Keyed
  <2>2. srvKey = c \/ Late
    BY <1>3, <2>1, Numbers DEF StreamParts, Keyed
  <2>3. Late => Late'
    BY <1>1, <1>2 DEF Late
  <2>4. QED
    BY <1>3, <1>4, <2>2, <2>3
<1>8. QED
  BY <1>5, <1>6, <1>7 DEF StreamParts

\* A stream that ends and was not replaced is not over before it has been reported.
LEMMA EndStreams ==
    ASSUME Shape, StreamParts, NEW c \in Stream, End(c)
    PROVE  StreamParts'
<1> USE DEF Shape
<1>1. /\ stream'[c].st = (IF cur = c THEN "leaving" ELSE "ended") /\ stream'[c].prev = stream[c].prev
      /\ stream'[c].auth = stream[c].auth /\ stream'[c].late = stream[c].late
      /\ cur' = (IF cur = c THEN None ELSE cur) /\ srvKey' = srvKey
  BY DEF End, ServerShape, StreamRecord
<1>2. \A d \in Stream : d # c => stream'[d] = stream[d]
  BY DEF End, ServerShape
<1>3. stream[c].st \in {"open", "closed"} /\ (stream[c].st = "open" <=> cur = c)
  BY DEF End, StreamParts, OneStream, StreamOne
<1>4. OneStream'
  <2>1. SUFFICES ASSUME NEW d \in Stream PROVE StreamOne(d)'
    BY DEF OneStream
  <2>2. StreamOne(d)
    BY DEF StreamParts, OneStream
  <2>3. CASE d = c
    BY <1>1, <1>3, <2>2, <2>3, Numbers DEF StreamOne
  <2>4. CASE d # c
    BY <1>1, <1>2, <2>2, <2>4, Numbers DEF StreamOne
  <2>5. QED
    BY <2>3, <2>4
<1>5. Forgotten'
  <2>1. \A d \in Stream : d = cur' => ~Over(d)'
    BY <1>4 DEF OneStream, StreamOne, Over
  <2>2. SUFFICES ASSUME srvKey \in Stream, Over(srvKey)'
                 PROVE  (stream[srvKey].late)'
    BY <1>1, <2>1, Numbers DEF Forgotten, ServerShape, Over
  <2>3. Over(srvKey)
    BY <1>1, <1>2, <1>3, <2>2 DEF Over
  <2>4. stream[srvKey].late
    BY <2>2, <2>3, Numbers DEF StreamParts, Forgotten
  <2>5. QED
    BY <1>1, <1>2, <2>2, <2>4
<1>6. Keyed'
  <2>1. Late => Late'
    BY <1>1, <1>2 DEF Late
  <2>2. QED
    BY <1>1, <1>2, <2>1, Numbers DEF StreamParts, Keyed, ServerShape
<1>7. QED
  BY <1>4, <1>5, <1>6 DEF StreamParts

\* A stream that was not replaced reports itself.
LEMMA LeaveStreams ==
    ASSUME Shape, StreamParts, NEW c \in Stream, Leave(c)
    PROVE  StreamParts'
<1> USE DEF Shape
<1>1. /\ stream'[c].st = "ended" /\ stream'[c].prev = stream[c].prev
      /\ stream'[c].auth = stream[c].auth /\ stream'[c].late = stream[c].late
      /\ cur' = cur /\ srvKey' = (IF srvKey = c THEN None ELSE srvKey)
  BY Numbers DEF Leave, HandleDisconnect, ServerShape, StreamRecord
<1>2. \A d \in Stream : d # c => stream'[d] = stream[d]
  BY DEF Leave, ServerShape
<1>3. stream[c].st = "leaving" /\ cur # c
  BY DEF Leave, StreamParts, OneStream, StreamOne
<1>4. OneStream'
  BY <1>1, <1>2, <1>3 DEF StreamParts, OneStream, StreamOne
<1>5. Forgotten'
  <2>1. \A d \in Stream : d = cur' => ~Over(d)'
    BY <1>4 DEF OneStream, StreamOne, Over
  <2>2. SUFFICES ASSUME srvKey' \in Stream, Over(srvKey)'
                 PROVE  (stream[srvKey].late)'
    BY <1>1, <2>1, Numbers DEF Forgotten, ServerShape, Over
  <2>3. srvKey' = srvKey /\ srvKey # c
    BY <1>1, <2>2, Numbers
  <2>4. Over(srvKey)
    BY <1>1, <1>2, <2>2, <2>3 DEF Over
  <2>5. stream[srvKey].late
    BY <2>2, <2>3, <2>4, Numbers DEF StreamParts, Forgotten
  <2>6. QED
    BY <1>2, <2>2, <2>3, <2>5
<1>6. Keyed'
  <2>1. Late => Late'
    BY <1>1, <1>2 DEF Late
  <2>2. QED
    BY <1>1, <1>2, <1>3, <2>1, Numbers DEF StreamParts, Keyed, ServerShape
<1>7. QED
  BY <1>4, <1>5, <1>6 DEF StreamParts

\* An authentication that finds its stream still there gives the key to it; one that comes
\* after the stream has been closed is remembered as late.
LEMMA HandleStreams ==
    ASSUME Shape, StreamParts, Found, NEW x \in calls, Handle(x), x.type = "auth"
    PROVE  StreamParts'
<1> USE DEF Shape
<1> DEFINE c == x.via
<1>0. c \in Stream /\ stream[c].st # "none"
  BY DEF Handle, Found
<1>1. /\ stream'[c].st = stream[c].st /\ stream'[c].prev = stream[c].prev
      /\ stream'[c].auth /\ (stream'[c].late <=> stream[c].late \/ Done(c))
      /\ cur' = cur /\ srvKey' = (IF stream[c].auth THEN srvKey ELSE c)
  BY <1>0 DEF Handle, ServerShape, StreamRecord
<1>2. \A d \in Stream : d # c => stream'[d] = stream[d]
  BY <1>0 DEF Handle, ServerShape
<1> HIDE DEF c
<1>3. cur = c \/ Done(c)
  BY <1>0, States DEF StreamParts, OneStream, StreamOne, Done
<1>4. OneStream'
  BY <1>0, <1>1, <1>2 DEF StreamParts, OneStream, StreamOne
<1>5. \A d \in Stream : Over(d)' <=> Over(d)
  BY <1>0, <1>1, <1>2 DEF Over
<1>6. Forgotten'
  <2>1. \A d \in Stream : d = cur' => ~Over(d)'
    BY <1>4 DEF OneStream, StreamOne, Over
  <2>2. SUFFICES ASSUME srvKey' \in Stream, Over(srvKey)'
                 PROVE  (stream[srvKey].late)'
    BY <1>0, <1>1, <2>1, Numbers DEF Forgotten, ServerShape, Over
  <2>3. CASE stream[c].auth
    BY <1>0, <1>1, <1>2, <1>5, <2>2, <2>3, Numbers DEF StreamParts, Forgotten
  <2>4. CASE ~stream[c].auth
    BY <1>0, <1>1, <1>5, <2>2, <2>4 DEF Over, Done
  <2>5. QED
    BY <2>3, <2>4
<1>7. Keyed'
  <2>1. Late => Late'
    BY <1>0, <1>1, <1>2 DEF Late
  <2>2. CASE Done(c)
    BY <1>0, <1>1, <2>2 DEF Late, Keyed
  <2>3. CASE cur = c
    BY <1>0, <1>1, <2>1, <2>3, Numbers DEF StreamParts, Keyed
  <2>4. QED
    BY <1>3, <2>2, <2>3
<1>8. QED
  BY <1>4, <1>6, <1>7 DEF StreamParts

\* What is said of the streams is kept as long as they are not touched.
LEMMA SameStreams ==
    ASSUME StreamParts, UNCHANGED server
    PROVE  StreamParts'
BY DEF StreamParts, server, OneStream, StreamOne, Forgotten, Over, Keyed, Late

\* No step makes the two tables of the server wrong.
LEMMA StreamStep ==
    ASSUME Shape, StreamParts, Found, Next
    PROVE  StreamParts'
<1>1. ASSUME NEW e \in Peer, BrowserStep(e) \/ ConnectTimeout(e) \/ StreamBroken(e)
      PROVE  StreamParts'
  <2>1. CASE \E c \in Stream : Subscribe(e, c)
    BY <2>1, SubscribeStreams
  <2>2. CASE ~ \E c \in Stream : Subscribe(e, c)
    <3>1. UNCHANGED server
      BY <1>1, <2>2 DEF BrowserStep, Connect, Hello, Authenticate, Expire, Refused, StreamEnded, ConnectTimeout, StreamBroken
    <3>2. QED
      BY <3>1, SameStreams
  <2>3. QED
    BY <2>1, <2>2
<1>2. ASSUME Reload \/ Ping
      PROVE  StreamParts'
  <2>1. UNCHANGED server
    BY <1>2 DEF Reload, Ping
  <2>2. QED
    BY <2>1, SameStreams
<1>3. ASSUME NEW c \in Stream, HandlerStep(c) \/ Write(c)
      PROVE  StreamParts'
  <2>1. Write(c) => UNCHANGED server
    BY DEF Write
  <2>2. QED
    BY <1>3, <2>1, SameStreams, ReplacedStreams, EndStreams, LeaveStreams DEF HandlerStep
<1>4. ASSUME NEW x \in calls, CallStep(x) \/ HandleClosed(x) \/ CallFails(x)
      PROVE  StreamParts'
  <2>1. CASE Handle(x) /\ x.type = "auth"
    BY <2>1, HandleStreams
  <2>2. CASE ~(Handle(x) /\ x.type = "auth")
    <3>1. UNCHANGED server
      BY <1>4, <2>2 DEF CallStep, Look, Handle, Return, HandleClosed, CallFails, server
    <3>2. QED
      BY <3>1, SameStreams
  <2>3. QED
    BY <2>1, <2>2
<1>5. ASSUME NEW q \in Query, Ask(q) \/ Push(q) \/ Deliver(q) \/ Timeout(q)
      PROVE  StreamParts'
  <2>1. UNCHANGED server
    BY <1>5 DEF Ask, Push, Deliver, Timeout
  <2>2. QED
    BY <2>1, SameStreams
<1>6. QED
  BY <1>1, <1>2, <1>3, <1>4, <1>5 DEF Next


-----------------------------------------------------------------------------
(* The queries of the server.                                              *)

QueryParts == Waits /\ Registered

\* A stream that is closed is cleared, and its queries return.
LEMMA ClearedQueries ==
    ASSUME Shape, QueryParts, NEW k \in Stream,
           pending'[k] = {}, \A d \in Stream \ {k} : pending'[d] = pending[d],
           query' = Quit(k), \A d \in Stream \ {k} : Done(d)' => Done(d)
    PROVE  QueryParts'
<1>1. \A q \in Query : query'[q] = IF query[q].on = k THEN Returned ELSE query[q]
  BY DEF Quit
<1>2. Returned.st = "done" /\ Returned.on = None
  BY DEF Returned
<1>3. Waits'
  BY <1>1, <1>2 DEF QueryParts, Waits
<1>4. {q \in Query : query'[q].on = k} = {}
  BY <1>1, <1>2, Numbers
<1>5. \A d \in Stream \ {k} : {q \in Query : query'[q].on = d} = {q \in Query : query[q].on = d}
  BY <1>1, <1>2, Numbers
<1>6. Registered'
  BY <1>4, <1>5 DEF QueryParts, Registered
<1>7. QED
  BY <1>3, <1>6 DEF QueryParts

\* What is said of the queries is kept as long as they are not touched and no stream closes.
LEMMA SameQueries ==
    ASSUME QueryParts, query' = query, pending' = pending, \A d \in Stream : Done(d)' => Done(d)
    PROVE  QueryParts'
BY DEF QueryParts, Waits, Registered

\* A query that returns is registered nowhere.
LEMMA ReturnedQuery ==
    ASSUME Shape, QueryParts, UNCHANGED stream, NEW q \in Query, NEW k \in Stream, query[q].on = k,
           query' = [query EXCEPT ![q] = Returned], pending' = [pending EXCEPT ![k] = @ \ {q}]
    PROVE  QueryParts'
<1>1. query'[q].st = "done" /\ query'[q].on = None /\ \A p \in Query : p # q => query'[p] = query[p]
  BY DEF Returned, Shape, QueryShape
<1>2. pending'[k] = pending[k] \ {q} /\ \A d \in Stream : d # k => pending'[d] = pending[d]
  BY DEF Shape, QueryShape
<1>3. Waits'
  BY <1>1 DEF QueryParts, Waits
<1>4. \A d \in Stream : Done(d)' <=> Done(d)
  BY DEF Done
<1>5. {p \in Query : query'[p].on = k} = {p \in Query : query[p].on = k} \ {q}
  BY <1>1, Numbers
<1>6. \A d \in Stream : d # k => {p \in Query : query'[p].on = d} = {p \in Query : query[p].on = d}
  BY <1>1, Numbers
<1>7. Registered'
  BY <1>2, <1>4, <1>5, <1>6 DEF QueryParts, Registered
<1>8. QED
  BY <1>3, <1>7 DEF QueryParts

\* A query is registered where it waits, and not on a stream that is closed.
LEMMA AskedQuery ==
    ASSUME Shape, QueryParts, NEW q \in Query, Ask(q)
    PROVE  QueryParts'
<1>0. srvKey \in Stream /\ query[q].st = "idle" /\ query[q].on = None /\ stream' = stream
  BY Numbers DEF Ask, NextQuery, Shape, ServerShape, QueryParts, Waits, server
<1>1. \A d \in Stream : Done(d)' <=> Done(d)
  BY <1>0 DEF Done
<1>2. CASE Done(srvKey)
  <2>1. query'[q].st = "done" /\ query'[q].on = None /\ pending' = pending
    BY <1>2 DEF Ask, Returned, Shape, QueryShape
  <2>2. \A p \in Query : p # q => query'[p] = query[p]
    BY <1>2 DEF Ask, Shape, QueryShape
  <2>3. Waits'
    BY <2>1, <2>2 DEF QueryParts, Waits
  <2>4. \A d \in Stream : {p \in Query : query'[p].on = d} = {p \in Query : query[p].on = d}
    BY <1>0, <2>1, <2>2, Numbers
  <2>5. QED
    BY <1>1, <2>1, <2>3, <2>4 DEF QueryParts, Registered
<1>3. CASE ~Done(srvKey)
  <2>1. query'[q].st # "idle" /\ query'[q].on = srvKey
    BY <1>3 DEF Ask, Registers, Shape, QueryShape
  <2>2. \A p \in Query : p # q => query'[p] = query[p]
    BY <1>3 DEF Ask, Registers, Shape, QueryShape
  <2>3. pending'[srvKey] = pending[srvKey] \cup {q} /\ \A d \in Stream : d # srvKey => pending'[d] = pending[d]
    BY <1>0, <1>3 DEF Ask, Registers, Shape, QueryShape
  <2>4. Waits'
    BY <2>1, <2>2 DEF QueryParts, Waits
  <2>5. {p \in Query : query'[p].on = srvKey} = {p \in Query : query[p].on = srvKey} \cup {q}
    BY <2>1, <2>2
  <2>6. \A d \in Stream : d # srvKey => {p \in Query : query'[p].on = d} = {p \in Query : query[p].on = d}
    BY <1>0, <2>1, <2>2, Numbers
  <2>7. Registered'
    BY <1>0, <1>1, <1>3, <2>3, <2>5, <2>6 DEF QueryParts, Registered
  <2>8. QED
    BY <2>4, <2>7 DEF QueryParts
<1>4. QED
  BY <1>2, <1>3

\* No step leaves a query waiting where nobody would answer it.
LEMMA QueryStep ==
    ASSUME Shape, QueryParts, Found, Next
    PROVE  QueryParts'
<1>1. ASSUME NEW e \in Peer, BrowserStep(e) \/ ConnectTimeout(e) \/ StreamBroken(e)
      PROVE  QueryParts'
  <2>1. ASSUME NEW c \in Stream, Subscribe(e, c)
        PROVE  QueryParts'
    <3>1. \A d \in Stream : d # cur => (Done(d)' => Done(d))
      BY <2>1 DEF Subscribe, Done, Shape, ServerShape, StreamRecord
    <3>2. CASE cur = None
      <4>1. pending' = pending
        BY <2>1, <3>2, Numbers DEF Subscribe, Shape, QueryShape
      <4>2. QED
        BY <2>1, <3>1, <3>2, <4>1, Numbers, SameQueries DEF Subscribe
    <3>3. CASE cur # None
      <4>1. cur \in Stream
        BY <3>3, Numbers DEF Shape, ServerShape
      <4>2. pending'[cur] = {} /\ \A d \in Stream \ {cur} : pending'[d] = pending[d]
        BY <2>1, <4>1 DEF Subscribe
      <4>3. query' = Quit(cur)
        BY <2>1, <3>3 DEF Subscribe
      <4>4. QED
        BY <3>1, <4>1, <4>2, <4>3, ClearedQueries
    <3>4. QED
      BY <3>2, <3>3
  <2>2. ASSUME ~ \E c \in Stream : Subscribe(e, c)
        PROVE  QueryParts'
    <3>1. UNCHANGED <<server, queries>>
      BY <1>1, <2>2 DEF BrowserStep, Connect, Hello, Authenticate, Expire, Refused, StreamEnded, ConnectTimeout, StreamBroken
    <3>2. QED
      BY <3>1, SameQueries DEF server, queries, Done
  <2>3. QED
    BY <2>1, <2>2
<1>2. ASSUME Reload \/ Ping
      PROVE  QueryParts'
  <2>1. UNCHANGED <<server, queries>>
    BY <1>2 DEF Reload, Ping
  <2>2. QED
    BY <2>1, SameQueries DEF server, queries, Done
<1>3. ASSUME NEW c \in Stream, HandlerStep(c) \/ Write(c)
      PROVE  QueryParts'
  <2>1. CASE Replaced(c)
    <3>1. \A d \in Stream : Done(d)' => Done(d)
      BY <2>1 DEF Replaced, Done, Shape, ServerShape, StreamRecord
    <3>2. QED
      BY <2>1, <3>1, SameQueries DEF Replaced, queries
  <2>2. CASE End(c)
    <3>1. \A d \in Stream \ {c} : Done(d)' => Done(d)
      BY <2>2 DEF End, Done, Shape, ServerShape
    <3>2. pending'[c] = {} /\ \A d \in Stream \ {c} : pending'[d] = pending[d]
      BY <2>2 DEF End, Shape, QueryShape
    <3>3. query' = Quit(c)
      BY <2>2 DEF End
    <3>4. QED
      BY <3>1, <3>2, <3>3, ClearedQueries
  <2>3. CASE Leave(c)
    <3>1. \A d \in Stream : Done(d)' => Done(d)
      BY <2>3 DEF Leave, Done, Shape, ServerShape, StreamRecord
    <3>2. QED
      BY <2>3, <3>1, SameQueries DEF Leave, queries
  <2>4. CASE Write(c)
    BY <2>4, SameQueries DEF Write, server, Done
  <2>5. QED
    BY <1>3, <2>1, <2>2, <2>3, <2>4 DEF HandlerStep
<1>4. ASSUME NEW x \in calls, CallStep(x) \/ HandleClosed(x) \/ CallFails(x)
      PROVE  QueryParts'
  <2>1. UNCHANGED queries
    BY <1>4 DEF CallStep, Look, Handle, Return, HandleClosed, CallFails
  <2>2. \A d \in Stream : Done(d)' => Done(d)
    <3>1. CASE Handle(x) /\ x.type = "auth"
      BY <3>1 DEF Handle, Found, Done, Shape, ServerShape, StreamRecord
    <3>2. CASE ~(Handle(x) /\ x.type = "auth")
      BY <1>4, <3>2 DEF CallStep, Look, Handle, Return, HandleClosed, CallFails, server, Done
    <3>3. QED
      BY <3>1, <3>2
  <2>3. QED
    BY <2>1, <2>2, SameQueries DEF queries
<1>5. ASSUME NEW q \in Query, Ask(q) \/ Push(q) \/ Deliver(q) \/ Timeout(q)
      PROVE  QueryParts'
  <2>1. CASE Ask(q)
    BY <2>1, AskedQuery
  <2>2. CASE Push(q)
    <3>1. \A p \in Query : query'[p].on = query[p].on /\ (query'[p].st = "idle" => query[p].st = "idle")
      BY <2>2 DEF Push, Shape, QueryShape, QueryRecord
    <3>2. \A d \in Stream : {p \in Query : query'[p].on = d} = {p \in Query : query[p].on = d}
      BY <3>1
    <3>3. pending' = pending /\ \A d \in Stream : Done(d)' <=> Done(d)
      BY <2>2 DEF Push, server, Done
    <3>4. Waits'
      BY <3>1 DEF QueryParts, Waits
    <3>5. QED
      BY <3>2, <3>3, <3>4 DEF QueryParts, Registered
  <2>3. CASE Deliver(q)
    <3>1. CASE cur # None /\ q \in pending[cur]
      <4>1. cur \in Stream /\ query[q].on = cur
        BY <3>1, Numbers DEF Shape, ServerShape, QueryParts, Registered
      <4>2. QED
        BY <2>3, <3>1, <4>1, ReturnedQuery DEF Deliver, server
    <3>2. CASE ~(cur # None /\ q \in pending[cur])
      BY <2>3, <3>2, SameQueries DEF Deliver, server, Done
    <3>3. QED
      BY <3>1, <3>2
  <2>4. CASE Timeout(q)
    <3>1. CASE query[q].on \in Stream
      BY <2>4, <3>1, ReturnedQuery DEF Timeout, server
    <3>2. CASE query[q].on \notin Stream
      <4>1. pending' = pending
        BY <2>4, <3>2 DEF Timeout, Shape, QueryShape
      <4>2. query'[q].st = "done" /\ query'[q].on = None /\ query[q].on = None
        BY <2>4, <3>2, Numbers DEF Timeout, Returned, Shape, QueryShape, QueryRecord
      <4>3. \A p \in Query : p # q => query'[p] = query[p]
        BY <2>4 DEF Timeout, Shape, QueryShape
      <4>4. \A d \in Stream : {p \in Query : query'[p].on = d} = {p \in Query : query[p].on = d}
        BY <4>2, <4>3
      <4>5. Waits'
        BY <4>2, <4>3 DEF QueryParts, Waits
      <4>6. \A d \in Stream : Done(d)' <=> Done(d)
        BY <2>4 DEF Timeout, server, Done
      <4>7. QED
        BY <4>1, <4>4, <4>5, <4>6 DEF QueryParts, Registered
    <3>3. QED
      BY <3>1, <3>2
  <2>5. QED
    BY <1>5, <2>1, <2>2, <2>3, <2>4
<1>6. QED
  BY <1>1, <1>2, <1>3, <1>4, <1>5 DEF Next


-----------------------------------------------------------------------------
(* The posts and the peer objects of the browser.                          *)

\* The streams stay whose they are, those there are and those authenticated remain so, and
\* the server takes no other.
Steady ==
    /\ \A c \in Stream :
         /\ stream'[c].of = stream[c].of
         /\ stream[c].st # "none" => stream'[c].st # "none"
         /\ stream[c].auth => stream'[c].auth
    /\ cur' \in {cur, None}

\* While the streams are steady, a peer object that has only the server's stream had only that before.
LEMMA SteadyStreams ==
    ASSUME Shape, Steady
    PROVE  \A e \in Peer :
             /\ HadStream(e) => HadStream(e)'
             /\ Sole(e)' => Sole(e) /\ cur' = cur /\ (stream[cur].auth => stream'[cur'].auth)
<1> SUFFICES ASSUME NEW e \in Peer
             PROVE  /\ HadStream(e) => HadStream(e)'
                    /\ Sole(e)' => Sole(e) /\ cur' = cur /\ (stream[cur].auth => stream'[cur'].auth)
  OBVIOUS
<1>1. HadStream(e) => HadStream(e)'
  BY DEF Steady, HadStream
<1>2. Reopened(e) => Reopened(e)'
  BY DEF Steady, Reopened
<1>3. ASSUME Sole(e)'
      PROVE  Sole(e) /\ cur' = cur /\ (stream[cur].auth => stream'[cur'].auth)
  <2>1. cur' = cur /\ cur \in Stream
    BY <1>3, Numbers DEF Sole, Steady, Shape, ServerShape
  <2>2. QED
    BY <1>2, <1>3, <2>1 DEF Sole, Steady
<1>4. QED
  BY <1>1, <1>3

\* y is x, but for who waits for it.
Carried(y, x) == y.of = x.of /\ y.type = x.type /\ y.at = x.at /\ y.via = x.via /\ y.res = x.res

FoundBy(x) == x.at = "found" => x.via \in Stream /\ stream[x.via].st # "none"

\* A post that has not moved, or that was refused.
LEMMA CarriedPost ==
    ASSUME Shape, Steady, BrowserParts, NEW x \in calls, NEW y,
           y.of = x.of, y.type = x.type, Carried(y, x) \/ y.at = "sent" \/ (y.at = "answered" /\ y.res = "gone")
    PROVE  FoundBy(y)' /\ Through(y)'
<1>1. x.of \in Peer
  BY DEF Shape, CallShape, Call
<1>2. Through(x) /\ FoundBy(x)
  BY DEF BrowserParts, Found, FoundBy
<1>3. FoundBy(y)'
  BY <1>2 DEF Steady, FoundBy, Carried
<1>4. /\ HadStream(x.of) => HadStream(x.of)'
      /\ Sole(x.of)' => Sole(x.of) /\ cur' = cur /\ (stream[cur].auth => stream'[cur'].auth)
  BY <1>1, SteadyStreams
<1>5. Through(y)'
  BY <1>2, <1>4 DEF Through, Carried
<1>6. QED
  BY <1>3, <1>5

\* A peer object that has got no further than it was, or has had a stream.
LEMMA SteadyPeer ==
    ASSUME Shape, Steady, BrowserParts, NEW e \in Peer,
           peer'[e].on \in {peer[e].on, None}, peer'[e].auth => peer[e].auth,
           HadStream(e) \/ ((peer'[e].due => peer[e].due) /\ (hpeer' = e => hpeer = e) /\ (cliKey' = e => cliKey = e))
    PROVE  Used(e)'
<1>1. /\ HadStream(e) => HadStream(e)'
      /\ Sole(e)' => Sole(e) /\ cur' = cur /\ (stream[cur].auth => stream'[cur'].auth)
  BY SteadyStreams
<1>2. Used(e)
  BY DEF BrowserParts
<1>3. (\A c \in Stream : peer[e].on = c => stream[c].of = e)'
  BY <1>2, Numbers DEF Used, Steady
<1>4. (peer[e].auth \/ peer[e].due \/ hpeer = e \/ cliKey = e => HadStream(e))'
  BY <1>1, <1>2 DEF Used
<1>5. (peer[e].auth /\ Sole(e) => stream[cur].auth)'
  BY <1>1, <1>2 DEF Used
<1>6. QED
  BY <1>3, <1>4, <1>5 DEF Used

\* The parts together.
LEMMA Together ==
    ASSUME \A y \in calls' : FoundBy(y)' /\ Through(y)', \A e \in Peer : Used(e)'
    PROVE  BrowserParts'
BY DEF BrowserParts, Found, FoundBy

\* The streams are steady while they are not touched.
LEMMA UntouchedStreams ==
    ASSUME UNCHANGED server
    PROVE  Steady
BY DEF server, Steady

\* The posts are what they were.
LEMMA SamePosts ==
    ASSUME Shape, Steady, BrowserParts, calls' \subseteq calls
    PROVE  \A y \in calls' : FoundBy(y)' /\ Through(y)'
<1> SUFFICES ASSUME NEW y \in calls'
             PROVE  FoundBy(y)' /\ Through(y)'
  OBVIOUS
<1>1. y \in calls /\ Carried(y, y)
  BY DEF Carried
<1>2. QED
  BY <1>1, CarriedPost

\* The peer objects are what they were.
LEMMA SamePeers ==
    ASSUME Shape, Steady, BrowserParts, UNCHANGED browser
    PROVE  \A e \in Peer : Used(e)'
BY SteadyPeer DEF browser

\* The browser closes a peer object.
LEMMA OffPeers ==
    ASSUME Shape, Steady, BrowserParts, NEW f \in Peer, Off(f)
    PROVE  \A e \in Peer : Used(e)'
<1> SUFFICES ASSUME NEW e \in Peer
             PROVE  Used(e)'
  OBVIOUS
<1>1. peer'[e].on \in {peer[e].on, None} /\ peer'[e].auth = peer[e].auth /\ peer'[e].due = peer[e].due
  BY DEF Off, Shape, BrowserShape, PeerRecord
<1>2. (hpeer' = e => hpeer = e) /\ (cliKey' = e => cliKey = e)
  BY Numbers DEF Off
<1>3. QED
  BY <1>1, <1>2, SteadyPeer

\* A stream that is opened again makes Reopened true; the first one of a peer object finds
\* neither a post nor an authentication of it.
LEMMA SubscribeBrowser ==
    ASSUME Shape, StreamParts, BrowserParts, NEW f \in Peer, NEW c \in Stream, Subscribe(f, c)
    PROVE  BrowserParts'
<1>1. stream[c].st = "none" /\ stream[c].of = None /\ cur' = c
  BY DEF Subscribe, StreamParts, OneStream, StreamOne
<1>2. stream'[c].of = f /\ stream'[c].st = "new"
  BY DEF Subscribe, Shape, ServerShape, StreamRecord
<1>3. \A d \in Stream : d # c => stream'[d].of = stream[d].of /\ (stream[d].st # "none" => stream'[d].st # "none")
  BY DEF Subscribe, Shape, ServerShape, StreamRecord
<1>4. peer'[f].on = c /\ peer'[f].auth = peer[f].auth /\ peer'[f].due = peer[f].due
  BY DEF Subscribe, Shape, BrowserShape, PeerRecord
<1>5. \A e \in Peer : e # f => peer'[e] = peer[e]
  BY DEF Subscribe, Shape, BrowserShape
<1>6. calls' = calls /\ hpeer' = hpeer /\ cliKey' = cliKey
  BY DEF Subscribe
<1>7. \A e \in Peer : HadStream(e) => HadStream(e)'
  BY <1>1, <1>2, <1>3, Numbers DEF HadStream
<1>8. \A e \in Peer : Sole(e)' => e = f /\ ~HadStream(f)
  <2> SUFFICES ASSUME NEW e \in Peer, Sole(e)'
               PROVE  e = f /\ ~HadStream(f)
    OBVIOUS
  <2>1. e = f
    BY <1>1, <1>2 DEF Sole
  <2>2. ASSUME HadStream(f)
        PROVE  Reopened(f)'
    <3>1. PICK d \in Stream : stream[d].of = f
      BY <2>2 DEF HadStream
    <3>2. d # c
      BY <1>1, <3>1, Numbers
    <3>3. stream'[d].of = f
      BY <1>3, <3>1, <3>2
    <3>4. QED
      BY <1>2, <3>2, <3>3 DEF Reopened
  <2>3. QED
    BY <2>1, <2>2 DEF Sole
<1>9. \A y \in calls' : FoundBy(y)' /\ Through(y)'
  <2> SUFFICES ASSUME NEW y \in calls
               PROVE  FoundBy(y)' /\ Through(y)'
    BY <1>6
  <2>1. y.of \in Peer /\ Through(y) /\ FoundBy(y)
    BY DEF Shape, CallShape, Call, BrowserParts, Found, FoundBy
  <2>2. FoundBy(y)'
    BY <1>1, <1>2, <1>3, <2>1 DEF FoundBy
  <2>3. HadStream(y.of)' /\ ~Sole(y.of)'
    BY <1>7, <1>8, <2>1 DEF Through
  <2>4. QED
    BY <2>2, <2>3 DEF Through
<1>10. \A e \in Peer : Used(e)'
  <2> SUFFICES ASSUME NEW e \in Peer
               PROVE  Used(e)'
    OBVIOUS
  <2>1. Used(e)
    BY DEF BrowserParts
  <2>2. (\A d \in Stream : peer[e].on = d => stream[d].of = e)'
    <3>1. CASE e = f
      BY <1>2, <1>4, <3>1
    <3>2. CASE e # f
      <4>1. peer[e].on # c
        BY <1>1, <2>1, Numbers DEF Used
      <4>2. QED
        BY <1>3, <1>5, <2>1, <3>2, <4>1 DEF Used
    <3>3. QED
      BY <3>1, <3>2
  <2>3. peer'[e].auth = peer[e].auth /\ peer'[e].due = peer[e].due
    BY <1>4, <1>5
  <2>4. (peer[e].auth \/ peer[e].due \/ hpeer = e \/ cliKey = e => HadStream(e))'
    BY <1>6, <1>7, <2>1, <2>3 DEF Used
  <2>5. ~(peer[e].auth /\ Sole(e))'
    BY <1>8, <2>1, <2>3 DEF Used
  <2>6. QED
    BY <2>2, <2>4, <2>5 DEF Used
<1>11. QED
  BY <1>9, <1>10, Together

\* The browser's own steps.
LEMMA PeerStep ==
    ASSUME Shape, StreamParts, BrowserParts, NEW f \in Peer, BrowserStep(f) \/ ConnectTimeout(f) \/ StreamBroken(f)
    PROVE  BrowserParts'
<1>1. CASE \E c \in Stream : Subscribe(f, c)
  BY <1>1, SubscribeBrowser
<1>2. CASE ~ \E c \in Stream : Subscribe(f, c)
  <2>0. Steady
    <3>1. UNCHANGED server
      BY <1>2 DEF BrowserStep, Connect, Hello, Authenticate, Expire, Refused, StreamEnded, ConnectTimeout, StreamBroken
    <3>2. QED
      BY <3>1, UntouchedStreams
  <2>1. CASE Refused(f) \/ ConnectTimeout(f)
    BY <2>0, <2>1, SamePosts, OffPeers, Together DEF Refused, ConnectTimeout
  <2>2. CASE Hello(f)
    <3>1. peer[f].on \in Stream
      BY <2>2, Numbers DEF Hello, Shape, BrowserShape, PeerRecord
    <3>2. HadStream(f)
      BY <3>1 DEF BrowserParts, Used, HadStream
    <3>3. \A e \in Peer : peer'[e].on = peer[e].on /\ peer'[e].auth = peer[e].auth
      BY <2>2 DEF Hello, Shape, BrowserShape, PeerRecord
    <3>4. \A e \in Peer : e # f => peer'[e] = peer[e] /\ (hpeer' = e => hpeer = e) /\ (cliKey' = e => cliKey = e)
      BY <2>2 DEF Hello, Shape, BrowserShape
    <3>5. \A e \in Peer : Used(e)'
      BY <2>0, <3>2, <3>3, <3>4, SteadyPeer
    <3>6. QED
      BY <2>0, <2>2, <3>5, SamePosts, Together DEF Hello
  <2>3. CASE Authenticate(f)
    <3>1. HadStream(f)
      BY <2>3 DEF Authenticate, BrowserParts, Used
    <3>2. \A e \in Peer : peer'[e].on = peer[e].on /\ peer'[e].auth = peer[e].auth /\ (peer'[e].due => peer[e].due)
      BY <2>3 DEF Authenticate, Shape, BrowserShape, PeerRecord
    <3>3. \A e \in Peer : Used(e)'
      BY <2>0, <2>3, <3>2, SteadyPeer DEF Authenticate
    <3>4. ASSUME NEW y \in calls'
          PROVE  FoundBy(y)' /\ Through(y)'
      <4>1. CASE y \in calls
        BY <2>0, <4>1, CarriedPost DEF Carried
      <4>2. CASE y \notin calls
        <5>1. y.of = f /\ y.at = "sent"
          BY <2>3, <3>4, <4>2 DEF Authenticate, Post
        <5>2. HadStream(f)'
          BY <2>0, <3>1, SteadyStreams
        <5>3. QED
          BY <5>1, <5>2 DEF FoundBy, Through
      <4>3. QED
        BY <4>1, <4>2
    <3>5. QED
      BY <3>3, <3>4, Together
  <2>4. CASE Connect(f) \/ Expire(f) \/ StreamEnded(f) \/ StreamBroken(f)
    <3>1. \A e \in Peer : peer'[e].on \in {peer[e].on, None} /\ peer'[e].auth = peer[e].auth /\ peer'[e].due = peer[e].due
      BY <2>4 DEF Connect, Expire, StreamEnded, StreamBroken, Shape, BrowserShape, PeerRecord
    <3>2. hpeer' = hpeer /\ cliKey' = cliKey /\ calls' = calls
      BY <2>4 DEF Connect, Expire, StreamEnded, StreamBroken
    <3>3. \A e \in Peer : Used(e)'
      BY <2>0, <3>1, <3>2, SteadyPeer
    <3>4. QED
      BY <2>0, <3>2, <3>3, SamePosts, Together
  <2>5. QED
    BY <1>2, <2>1, <2>2, <2>3, <2>4 DEF BrowserStep
<1>3. QED
  BY <1>1, <1>2

\* The page is loaded again, or pings.
LEMMA PageStep ==
    ASSUME Shape, BrowserParts, Reload \/ Ping
    PROVE  BrowserParts'
<1>0. Steady
  BY UntouchedStreams DEF Reload, Ping
<1>1. CASE Reload
  <2>1. \A e \in Peer : peer'[e].on \in {peer[e].on, None} /\ peer'[e].auth = peer[e].auth /\ (peer'[e].due => peer[e].due)
    BY <1>1 DEF Reload, Shape, BrowserShape, PeerRecord
  <2>2. hpeer' = None /\ cliKey' = None
    BY <1>1 DEF Reload
  <2>3. \A e \in Peer : Used(e)'
    BY <1>0, <2>1, <2>2, Numbers, SteadyPeer
  <2>4. ASSUME NEW y \in calls'
        PROVE  FoundBy(y)' /\ Through(y)'
    <3>1. PICK x \in calls : y = [x EXCEPT !.waits = FALSE]
      BY <1>1, <2>4 DEF Reload
    <3>2. x \in Call
      BY DEF Shape, CallShape
    <3>3. Carried(y, x)
      BY <3>1, <3>2 DEF Carried, Call
    <3>4. QED
      BY <1>0, <3>3, CarriedPost DEF Carried
  <2>5. QED
    BY <2>3, <2>4, Together
<1>2. CASE Ping
  <2>1. cliKey \in Peer
    BY <1>2, Numbers DEF Ping, Shape, BrowserShape
  <2>2. \A e \in Peer : e = cliKey => HadStream(e)'
    BY <1>0, SteadyStreams DEF BrowserParts, Used
  <2>3. ASSUME NEW y \in calls'
        PROVE  FoundBy(y)' /\ Through(y)'
    <3>1. CASE y \in calls
      BY <1>0, <3>1, CarriedPost DEF Carried
    <3>2. CASE y \notin calls
      <4>1. y.of = cliKey /\ y.at = "sent"
        BY <1>2, <2>3, <3>2 DEF Ping, Post
      <4>2. HadStream(y.of)'
        BY <2>1, <2>2, <4>1
      <4>3. QED
        BY <4>1, <4>2 DEF FoundBy, Through
    <3>3. QED
      BY <3>1, <3>2
  <2>4. QED
    BY <1>0, <1>2, <2>3, SamePeers, Together DEF Ping
<1>3. QED
  BY <1>1, <1>2

\* The handlers of the streams keep whose they are.
LEMMA HandlerBrowser ==
    ASSUME Shape, BrowserParts, NEW c \in Stream, HandlerStep(c) \/ Write(c)
    PROVE  BrowserParts'
<1>1. Steady
  <2>1. CASE Write(c)
    BY <2>1, UntouchedStreams DEF Write
  <2>2. CASE Replaced(c)
    BY <2>2 DEF Replaced, Steady, Shape, ServerShape, StreamRecord
  <2>3. CASE End(c)
    BY <2>3 DEF End, Steady, Shape, ServerShape, StreamRecord
  <2>4. CASE Leave(c)
    BY <2>4 DEF Leave, Steady, Shape, ServerShape, StreamRecord
  <2>5. QED
    BY <2>1, <2>2, <2>3, <2>4 DEF HandlerStep
<1>2. calls' = calls /\ UNCHANGED browser
  BY DEF HandlerStep, Write, Replaced, End, Leave
<1>3. QED
  BY <1>1, <1>2, SamePosts, SamePeers, Together

\* A post on its way: an authentication is handled by the stream the server had when it came.
LEMMA PostStep ==
    ASSUME Shape, StreamParts, BrowserParts, NEW x \in calls, CallStep(x) \/ HandleClosed(x) \/ CallFails(x)
    PROVE  BrowserParts'
<1>0. x \in Call /\ x.of \in Peer /\ Through(x)
  BY DEF Shape, CallShape, Call, BrowserParts
<1>1. Steady
  <2>1. CASE Handle(x) /\ x.type = "auth"
    BY <2>1 DEF Handle, BrowserParts, Found, Steady, Shape, ServerShape, StreamRecord
  <2>2. CASE ~(Handle(x) /\ x.type = "auth")
    <3>1. UNCHANGED server
      BY <2>2 DEF CallStep, Look, Handle, Return, HandleClosed, CallFails, server
    <3>2. QED
      BY <3>1, UntouchedStreams
  <2>3. QED
    BY <2>1, <2>2
<1>2. \A y \in calls : FoundBy(y)' /\ Through(y)'
  BY <1>1, CarriedPost DEF Carried
<1>3. ASSUME Answer(x, "gone")
      PROVE  \A y \in calls' : FoundBy(y)' /\ Through(y)'
  <2> SUFFICES ASSUME NEW y \in calls', y \notin calls
               PROVE  FoundBy(y)' /\ Through(y)'
    BY <1>2
  <2>1. y.of = x.of /\ y.type = x.type /\ y.at = "answered" /\ y.res = "gone"
    BY <1>0, <1>3 DEF Answer, Call
  <2>2. QED
    BY <1>1, <2>1, CarriedPost
<1>4. CASE Look(x)
  <2>1. UNCHANGED browser
    BY <1>4 DEF Look
  <2>2. CASE cur = None
    BY <1>1, <1>3, <1>4, <2>1, <2>2, SamePeers, Together DEF Look
  <2>3. CASE cur # None
    <3>1. ASSUME NEW y \in calls', y \notin calls
          PROVE  FoundBy(y)' /\ Through(y)'
      <4>1. y.of = x.of /\ y.type = x.type /\ y.at = "found" /\ y.via = cur
        BY <1>0, <1>4, <2>3, <3>1, ZenonT(60) DEF Look, Call
      <4>2. cur \in Stream /\ stream[cur].st # "none" /\ UNCHANGED <<stream, cur>>
        BY <1>4, <2>3, Numbers DEF Look, server, Shape, ServerShape, StreamParts, OneStream, StreamOne
      <4>3. HadStream(x.of)'
        BY <1>0, <1>1, SteadyStreams DEF Through
      <4>4. QED
        BY <4>1, <4>2, <4>3 DEF FoundBy, Through
    <3>2. QED
      BY <1>1, <1>2, <2>1, <3>1, SamePeers, Together
  <2>4. QED
    BY <2>2, <2>3
<1>5. CASE Handle(x)
  <2>1. UNCHANGED browser
    BY <1>5 DEF Handle
  <2>2. ASSUME NEW y \in calls', y \notin calls
        PROVE  FoundBy(y)' /\ Through(y)'
    <3>1. y.of = x.of /\ y.type = x.type /\ y.at = "answered"
      BY <1>0, <1>5, <2>2 DEF Handle, Answer, Call
    <3>2. HadStream(x.of)'
      BY <1>0, <1>1, SteadyStreams DEF Through
    <3>3. ASSUME y.type = "auth", Sole(y.of)'
          PROVE  (stream[cur].auth)'
      <4>1. Sole(x.of) /\ cur' = cur
        BY <1>0, <1>1, <3>1, <3>3, SteadyStreams
      <4>2. x.via = cur
        BY <1>0, <1>5, <3>1, <3>3, <4>1 DEF Handle, Through
      <4>3. cur \in Stream
        BY <4>1, Numbers DEF Sole, Shape, ServerShape
      <4>4. QED
        BY <1>5, <3>1, <3>3, <4>1, <4>2, <4>3 DEF Handle, Shape, ServerShape, StreamRecord
    <3>4. QED
      BY <3>1, <3>2, <3>3 DEF FoundBy, Through
  <2>3. QED
    BY <1>1, <1>2, <2>1, <2>2, SamePeers, Together
<1>6. CASE HandleClosed(x)
  BY <1>1, <1>3, <1>6, SamePeers, Together DEF HandleClosed
<1>7. CASE Return(x)
  <2>1. \A y \in calls' : FoundBy(y)' /\ Through(y)'
    BY <1>1, <1>7, SamePosts DEF Return
  <2>2. CASE x.res = "gone"
    BY <1>0, <1>1, <1>7, <2>1, <2>2, OffPeers, Together DEF Return
  <2>3. CASE x.res # "gone" /\ x.type # "auth"
    BY <1>1, <1>7, <2>1, <2>3, SamePeers, Together DEF Return
  <2>4. CASE x.res # "gone" /\ x.type = "auth"
    <3>1. \A e \in Peer : peer'[e].on = peer[e].on /\ peer'[e].due = peer[e].due
      BY <1>7, <2>4 DEF Return, Shape, BrowserShape, PeerRecord
    <3>2. \A e \in Peer : e # x.of => peer'[e].auth = peer[e].auth
      BY <1>7, <2>4 DEF Return, Shape, BrowserShape, PeerRecord
    <3>3. hpeer' = hpeer /\ cliKey' = x.of
      BY <1>7, <2>4 DEF Return
    <3>4. ASSUME NEW e \in Peer, e # x.of
          PROVE  Used(e)'
      BY <1>1, <3>1, <3>2, <3>3, <3>4, SteadyPeer
    <3>5. Used(x.of)'
      <4>1. /\ HadStream(x.of)'
            /\ Sole(x.of)' => Sole(x.of) /\ cur' = cur /\ (stream[cur].auth => stream'[cur'].auth)
        BY <1>0, <1>1, SteadyStreams DEF Through
      <4>2. Sole(x.of) => stream[cur].auth
        BY <1>0, <1>7, <2>4 DEF Return, Through
      <4>3. (\A c \in Stream : peer[x.of].on = c => stream[c].of = x.of)'
        BY <1>0, <1>1, <3>1 DEF BrowserParts, Used, Steady
      <4>4. QED
        BY <4>1, <4>2, <4>3 DEF Used
    <3>6. QED
      BY <2>1, <3>4, <3>5, Together
  <2>5. QED
    BY <2>2, <2>3, <2>4
<1>8. CASE CallFails(x)
  <2>1. ASSUME NEW y \in calls', y \notin calls
        PROVE  FoundBy(y)' /\ Through(y)'
    <3>1. Carried(y, x)
      BY <1>0, <1>8, <2>1 DEF CallFails, Carried, Call
    <3>2. QED
      BY <1>1, <3>1, CarriedPost DEF Carried
  <2>2. QED
    BY <1>1, <1>2, <1>8, <2>1, SamePeers, Together DEF CallFails
<1>9. QED
  BY <1>4, <1>5, <1>6, <1>7, <1>8 DEF CallStep

\* The queries of the server do not touch the browser.
LEMMA QueryBrowser ==
    ASSUME Shape, BrowserParts, NEW q \in Query, Ask(q) \/ Push(q) \/ Deliver(q) \/ Timeout(q)
    PROVE  BrowserParts'
<1>1. UNCHANGED server /\ UNCHANGED browser /\ calls' = calls
  BY DEF Ask, Push, Deliver, Timeout
<1>2. QED
  BY <1>1, UntouchedStreams, SamePosts, SamePeers, Together

-----------------------------------------------------------------------------
(* The theorems.                                                           *)

\* The invariant holds of every state: of the first, and after each step.
THEOREM Inductive == Spec => []IInv
<1>1. Init => IInv
  <2> SUFFICES ASSUME Init
               PROVE  IInv
    OBVIOUS
  <2>1. Shape
    BY Numbers DEF Init, Shape, ServerShape, QueryShape, BrowserShape, CallShape, StreamRecord, QueryRecord, PeerRecord
  <2>2. Waits /\ Registered
    BY Numbers DEF Init, Waits, Registered
  <2>3. OneStream /\ Forgotten /\ Keyed
    BY Numbers DEF Init, OneStream, StreamOne, Forgotten, Keyed
  <2>4. BrowserParts
    BY Numbers DEF Init, BrowserParts, Found, Used
  <2>5. QED
    BY <2>1, <2>2, <2>3, <2>4 DEF IInv
<1>2. IInv /\ [Next]_vars => IInv'
  <2> SUFFICES ASSUME IInv, [Next]_vars
               PROVE  IInv'
    OBVIOUS
  <2>1. Shape /\ QueryParts /\ StreamParts /\ BrowserParts /\ Found
    BY DEF IInv, QueryParts, StreamParts, BrowserParts
  <2>2. CASE Next
    <3>1. Shape'
      BY <2>1, <2>2, BrowserTypes, PageTypes, HandlerTypes, CallTypes, QueryTypes DEF Next
    <3>2. QueryParts' /\ StreamParts'
      BY <2>1, <2>2, QueryStep, StreamStep
    <3>3. BrowserParts'
      BY <2>1, <2>2, PeerStep, PageStep, HandlerBrowser, PostStep, QueryBrowser DEF Next
    <3>4. QED
      BY <3>1, <3>2, <3>3 DEF IInv, QueryParts, StreamParts
  <2>3. CASE UNCHANGED vars
    <3>1. Shape'
      BY <2>1, <2>3 DEF vars, Shape, ServerShape, QueryShape, BrowserShape, CallShape
    <3>2. UNCHANGED server /\ UNCHANGED browser /\ calls' = calls /\ query' = query /\ pending' = pending
      BY <2>3 DEF vars, server, browser
    <3>3. StreamParts'
      BY <2>1, <3>2, SameStreams
    <3>4. QueryParts'
      BY <2>1, <3>2, SameQueries DEF server, Done
    <3>5. BrowserParts'
      BY <2>1, <3>2, UntouchedStreams, SamePosts, SamePeers, Together
    <3>6. QED
      BY <3>1, <3>3, <3>4, <3>5 DEF IInv, QueryParts, StreamParts
  <2>4. QED
    BY <2>2, <2>3
<1>3. QED
  BY <1>1, <1>2, PTL DEF Spec

\* The map of queries of a stream is exactly the queries that wait on it, and it is empty once
\* the stream is closed: with any number of streams, a Query never waits for an answer that
\* nobody can deliver (close and Query take the same lock).
THEOREM RegisteredHolds == Spec => []Registered
<1>1. IInv => Registered
  BY DEF IInv
<1>2. QED
  BY <1>1, Inductive, PTL

\* A stream that is over is found neither by the HTTP server nor by the transport, however
\* streams replace each other: handleDisconnect is called for each of them, by the stream
\* that replaces it or by its own deferred function.
THEOREM ForgottenHolds == Spec => []Forgotten
<1>1. IInv => Forgotten
  BY DEF IInv
<1>2. QED
  BY <1>1, Inductive, PTL

\* The browser never takes itself for authenticated on the stream the server has while the
\* server does not, whatever authentications fail, are repeated or are answered late; but for
\* the two exceptions that Agree names.
THEOREM AgreeHolds == Spec => []Agree
<1>1. IInv => Agree
  <2> SUFFICES ASSUME IInv, NEW e \in Peer, peer[e].auth, peer[e].on # None, peer[e].on = cur
               PROVE  (stream[cur].auth /\ srvKey = cur) \/ Reopened(e) \/ Late
    BY DEF Agree
  <2>1. cur \in Stream
    BY Numbers DEF IInv, Shape, ServerShape
  <2>2. stream[cur].of = e
    BY <2>1 DEF IInv, BrowserParts, Used
  <2>3. stream[cur].auth \/ Reopened(e)
    BY <2>1, <2>2 DEF IInv, BrowserParts, Used, Sole
  <2>4. QED
    BY <2>1, <2>3, Numbers DEF IInv, Keyed
<1>2. QED
  BY <1>1, Inductive, PTL
=============================================================================
