------------------------------ MODULE Connection ------------------------------
(***************************************************************************)
(* The server side of the client connections: the callbacks of Protocol in *)
(* protocol.c (and the loop of parser.c that drives them), with the        *)
(* pipeline queue of a connection, the session lookups it waits for, and   *)
(* the request pool all connections of the process share.                  *)
(*                                                                         *)
(* The event loop is single threaded: an action is one callback, except    *)
(* that data_received is cut at each request of the buffer (DataReceived   *)
(* with more = TRUE), and nothing else runs until the buffer is done.      *)
(***************************************************************************)
EXTENDS PoolOps, Sequences

CONSTANTS
    Conns,          (* the connections                                       *)
    Routes,         (* which kinds of route the clients ask for, see Kinds   *)
    PageResults,    (* what a plain page handler may do, see Results         *)
    TaskResults,    (* how a coroutine handler may end                       *)
    Bursts,         (* may one data_received hold several requests?          *)
    Disconnects,    (* may a client go away?                                 *)
    QueueSize,      (* slots of Protocol.queue, 50 in protocol.h             *)
    MaxMsgs,        (* bound: requests of a connection                       *)
    MaxOutstanding  (* bound: unanswered requests of a connection            *)

(* page: def handler; async: async def handler; cached: response bytes     *)
(* stored in the route; session, asyncsession: the session is fetched      *)
(* first; limited: the body exceeds max_byte_size; unknown: no such route. *)
Kinds == {"page", "async", "cached", "session", "asyncsession",
          "limited", "unknown"}

(* text: a str or bytes; object: any other value; raise: any exception.    *)
Results == {"text", "object", "raise"}

ASSUME ConnectionAssumption ==
       /\ Routes \subseteq Kinds
       /\ PageResults \subseteq Results /\ PageResults # {}
       /\ TaskResults \subseteq Results /\ TaskResults # {}
       /\ Bursts \in BOOLEAN /\ Disconnects \in BOOLEAN
       /\ QueueSize \in Nat /\ MaxMsgs \in Nat /\ MaxOutstanding \in Nat

VARIABLES
    pool,       (* MrhttpApp's request pool                                  *)
    phase,      (* none -> init -> open -> (aborting ->) lost                *)
    request,    (* Protocol.request, the Request the next message goes to    *)
    target,     (* the request argument of a data_received under way         *)
    queue,      (* Protocol.queue[0 .. queue_end - 1]                        *)
    qstart,     (* Protocol.queue_start                                      *)
    waiting,    (* the SessionCallbackData of session lookups under way      *)
    callbacks,  (* task_done calls the event loop has yet to make            *)
    lines,      (* per Request, the message its method, path, body come from *)
    heads,      (* per Request, the message its headers come from            *)
    sessions,   (* per Request with a session_id, the message it comes from  *)
    sent,       (* history: requests received on a connection                *)
    out,        (* history: the responses passed to the transport of an open *)
                (* connection, as request numbers                            *)
    misread,    (* history: messages handled with headers not their own      *)
    left        (* history: those whose session_id an exception left in the  *)
                (* Request of the connection                                 *)

vars == <<pool, phase, request, target, queue, qstart, waiting, callbacks,
          lines, heads, sessions, sent, out, misread, left>>

NoRequest == -1

(* A message is a record: the connection, its number, and whether its      *)
(* headers carry a session cookie.  These are partial functions from       *)
(* Requests to the message they were filled with.                          *)
Fill(f, r, m) == [x \in DOMAIN f \cup {r} |-> IF x = r THEN m ELSE f[x]]
Reset(f, R) == [x \in DOMAIN f \ R |-> f[x]]

IsCoro(route) == route \in {"async", "asyncsession"}
WantsSession(route) == route \in {"session", "asyncsession"}

Running(entry) == entry.result \in {"pending", "cancelling"}

PipelineEmptyWhenDone(c) == \A i \in DOMAIN queue[c] : ~Running(queue[c][i])
PipelineEmpty(c) == qstart[c] = Len(queue[c])
Closed(c) == phase[c] \notin {"open", "aborting"}

(* A callback other than data_received runs only between two of those.     *)
Idle == \A c \in Conns : target[c] = NoRequest

Init ==
    /\ pool = InitialPool
    /\ phase = [c \in Conns |-> "none"]
    /\ request = [c \in Conns |-> NoRequest]
    /\ target = [c \in Conns |-> NoRequest]
    /\ queue = [c \in Conns |-> <<>>]
    /\ qstart = [c \in Conns |-> 0]
    /\ waiting = {}
    /\ callbacks = [c \in Conns |-> 0]
    /\ lines = <<>>
    /\ heads = <<>>
    /\ sessions = <<>>
    /\ sent = [c \in Conns |-> 0]
    /\ out = [c \in Conns |-> <<>>]
    /\ misread = {} /\ left = {}

(* transport.write: the transport drops what is written to a connection it *)
(* has given up.                                                           *)
Write(c, ns) ==
    out' = [out EXCEPT ![c] = IF phase[c] = "open" THEN @ \o ns ELSE @]

-----------------------------------------------------------------------------
(* The protocol factory, then connection_made.                             *)
ProtocolInit(c) ==
    /\ Idle
    /\ phase[c] = "none"
    /\ phase' = [phase EXCEPT ![c] = "init"]
    /\ pool' = GetRequest(pool)
    /\ request' = [request EXCEPT ![c] = GrantedRequest(pool)]
    /\ UNCHANGED <<target, queue, qstart, waiting, callbacks, lines, heads,
                   sessions, sent, out, misread, left>>

ConnectionMade(c) ==
    /\ Idle
    /\ phase[c] = "init"
    /\ phase' = [phase EXCEPT ![c] = "open"]
    /\ UNCHANGED <<pool, request, target, queue, qstart, waiting, callbacks,
                   lines, heads, sessions, sent, out, misread, left>>

(* pipeline_queue: an empty queue starts over at slot 0; a task calls      *)
(* task_done when it ends.  What happens past the last slot is not defined:*)
(* the assertion there is compiled out of release builds.                  *)
QueueHasSlot(c) == PipelineEmpty(c) \/ Len(queue[c]) < QueueSize

PipelineQueueKeepingEnd(c, entry) ==
    /\ QueueHasSlot(c)
    /\ queue' = [queue EXCEPT ![c] = Append(@, entry)]
    /\ qstart' = [qstart EXCEPT ![c] = IF PipelineEmpty(c) THEN 0 ELSE @]

PipelineQueue(c, entry) ==
    /\ QueueHasSlot(c)
    /\ queue' = [queue EXCEPT ![c] =
                    IF PipelineEmpty(c) THEN <<entry>> ELSE Append(@, entry)]
    /\ qstart' = [qstart EXCEPT ![c] = IF PipelineEmpty(c) THEN 0 ELSE @]

(* Must the Request stay with this message, because its response waits?    *)
ParksCoroutineOnly(c, req, route) == IsCoro(route) /\ request[c] = req

ParksRequest(c, req, route) ==
    (IsCoro(route) \/ ~PipelineEmpty(c)) /\ request[c] = req

(* Protocol_handle_request for message m, held by Request req; ln, hd and  *)
(* id are lines, heads and sessions at that time.  failure is what gets    *)
(* written when a page handler returns something that is not a string.     *)
HandleRequest(c, req, m, route, result, ln, hd, id, failure) ==
    LET busy  == ~PipelineEmpty(c)
        fresh == ParksRequest(c, req, route)
        p     == IF fresh THEN GetRequest(pool) ELSE pool
        cur   == IF fresh THEN GrantedRequest(pool) ELSE request[c]
        entry == [msg |-> m.msg, req |-> req, task |-> IsCoro(route),
                  result |-> IF IsCoro(route) THEN "pending" ELSE result]
        kept  == pool' = p /\ lines' = ln /\ heads' = hd /\ sessions' = id
        plain == route \notin {"cached", "async", "asyncsession"}
    IN  /\ request' = [request EXCEPT ![c] = cur]
        /\ misread' = IF route # "cached" /\ (req \notin DOMAIN hd \/ hd[req] # m)
                      THEN misread \cup {m} ELSE misread
        /\ left' = IF plain /\ result = "raise" /\ req = cur /\ req \in DOMAIN id
                   THEN left \cup {id[req]} ELSE left
        /\ \/ \* protocol_write_response, at once
              /\ route = "cached" \/ (plain /\ result = "text" /\ ~busy)
              /\ pool' = IF req # cur THEN ReleaseRequest(p, req) ELSE p
              /\ lines' = Reset(ln, {req}) /\ heads' = Reset(hd, {req})
              /\ sessions' = Reset(id, {req})
              /\ Write(c, <<m.msg>>)
              /\ UNCHANGED <<queue, qstart>>
           \/ \* the response has to wait for a task, its own or another's
              /\ IsCoro(route) \/ (plain /\ result # "raise" /\ busy)
              /\ PipelineQueue(c, entry)
              /\ kept /\ UNCHANGED out
           \/ \* HTTPError, redirect, notfound or any other exception
              /\ plain /\ result = "raise"
              /\ Write(c, <<m.msg>>)
              /\ kept /\ UNCHANGED <<queue, qstart>>
           \/ \* not a string
              /\ plain /\ result = "object" /\ ~busy
              /\ Write(c, failure)
              /\ kept /\ UNCHANGED <<queue, qstart>>

(* What HandleRequest returns NULL for.                                    *)
Fails(c, route, result) ==
    route \in {"page", "session"} /\ result = "object" /\ PipelineEmpty(c)

ResultsOf(route) ==
    IF route \in {"page", "session"} THEN PageResults ELSE {"text"}

(* Room for the (k+1)-th next message of c within the bounds.              *)
Room(c, k) == /\ sent[c] + k < MaxMsgs
              /\ sent[c] + k - Len(out[c]) < MaxOutstanding

(* Request_load_session: the id stays as it was if there is no cookie.     *)
LoadSession(req, hd) ==
    IF req \in DOMAIN hd /\ hd[req].cookie THEN Fill(sessions, req, hd[req]) ELSE sessions

(* session_get accepted the lookup of the session of message owner: req    *)
(* waits for the answer, the next message goes to another Request.         *)
AwaitSessionSameRequest(c, m, req, route, owner) ==
    /\ waiting' = waiting \cup {[m |-> m, req |-> req, route |-> route, session |-> owner]}
    /\ UNCHANGED <<pool, request>>

AwaitSession(c, m, req, route, owner) ==
    /\ waiting' = waiting \cup {[m |-> m, req |-> req, route |-> route, session |-> owner]}
    /\ pool' = GetRequest(pool)
    /\ request' = [request EXCEPT ![c] = GrantedRequest(pool)]

(* One round of the loop in parser_data_received: on_headers and on_body.  *)
(* The parser stores headers in the Request data_received was called with; *)
(* everything else goes to Protocol.request, which may have changed since. *)
(* up: a session server is connected.  more: the buffer holds another one  *)
(* (not after a failure: what calls do with an exception set is left out). *)
DataReceived(c, route, cookie, up, result, more) ==
    LET t     == IF target[c] = NoRequest THEN request[c] ELSE target[c]
        req   == request[c]
        m     == [conn |-> c, msg |-> sent[c] + 1, cookie |-> cookie]
        ln    == Fill(lines, req, m)
        hd    == Fill(heads, t, m)
        id    == IF WantsSession(route) THEN LoadSession(req, hd) ELSE sessions
        found == req \in DOMAIN id
        waits == WantsSession(route) /\ found /\ up
        fails == ~waits /\ Fails(c, route, result)
        wrote == IF WantsSession(route) /\ found THEN <<m.msg>> ELSE <<m.msg, m.msg>>
    IN  /\ phase[c] = "open"
        /\ \A d \in Conns \ {c} : target[d] = NoRequest
        /\ Room(c, 0)
        /\ more => Bursts /\ Room(c, 1) /\ ~fails
        /\ sent' = [sent EXCEPT ![c] = @ + 1]
        /\ target' = [target EXCEPT ![c] = IF more THEN t ELSE NoRequest]
        /\ UNCHANGED callbacks
        /\ \/ \* no route: the 404 is written at once
              /\ route = "unknown"
              /\ Write(c, <<m.msg>>)
              /\ lines' = ln /\ heads' = hd
              /\ UNCHANGED <<pool, phase, request, queue, qstart, waiting, sessions, misread, left>>
           \/ \* over max_byte_size: nothing is written
              /\ route = "limited"
              /\ lines' = ln /\ heads' = hd
              /\ UNCHANGED <<pool, phase, request, queue, qstart, waiting, sessions, out, misread, left>>
           \/ \* the session first
              /\ waits
              /\ AwaitSession(c, m, req, route, id[req])
              /\ lines' = ln /\ heads' = hd /\ sessions' = id
              /\ UNCHANGED <<phase, queue, qstart, out, misread, left>>
           \/ \* handled now; a failure answers 500, then data_received 400,
              \* but on_body hides the failure if session_get refused
              /\ route \notin {"unknown", "limited"} /\ ~waits
              /\ HandleRequest(c, req, m, route, result, ln, hd, id, wrote)
              /\ phase' = [phase EXCEPT ![c] = IF fails THEN "aborting" ELSE @]
              /\ UNCHANGED waiting

(* Protocol_on_memcached_reply: the answer of the session store.           *)
SessionReply(w, result) ==
    LET c == w.m.conn
    IN  /\ Idle
        /\ waiting' = waiting \ {w}
        /\ UNCHANGED <<phase, target, callbacks, sent>>
        /\ \/ /\ ~Closed(c)
              /\ HandleRequest(c, w.req, w.m, w.route, result, lines, heads, sessions, <<w.m.msg>>)
           \/ /\ Closed(c)
              /\ UNCHANGED <<pool, request, queue, qstart, lines, heads, sessions, out, misread, left>>

(* A task ends, cancelled or not; asyncio schedules its done callback.     *)
TaskEnds(c, i, result) ==
    /\ Idle
    /\ Running(queue[c][i])
    /\ \/ result \in TaskResults
       \/ queue[c][i].result = "cancelling" /\ result = "raise"
    /\ queue' = [queue EXCEPT ![c][i].result = result]
    /\ callbacks' = [callbacks EXCEPT ![c] = @ + 1]
    /\ UNCHANGED <<pool, phase, request, target, qstart, waiting, lines, heads,
                   sessions, sent, out, misread, left>>

(* The loop of protocol_task_done: the entries from the head of the queue  *)
(* up to the first task still running.  A result that is not a string      *)
(* stops the loop with an error.                                           *)
ReadyHead(c) ==
    {i \in {qstart[c] + 1} \cap DOMAIN queue[c] : ~Running(queue[c][i])}

ReadyEntries(c) ==
    {i \in qstart[c] + 1 .. Len(queue[c]) : \A j \in qstart[c] + 1 .. i :
        ~Running(queue[c][j]) /\ (j < i => queue[c][j].result # "object")}

(* protocol_pipeline_ready gives these back; it drops the response of a    *)
(* closed connection and forgets its Request.                              *)
FreedTexts(c) ==
    {i \in ReadyEntries(c) :
        queue[c][i].result = "text" /\ queue[c][i].req # request[c] /\ ~Closed(c)}

FreedEntries(c) ==
    {i \in ReadyEntries(c) :
        /\ queue[c][i].req # request[c]
        /\ queue[c][i].result = "text" => ~Closed(c)}

(* protocol_task_done.  queue_start is not moved if the loop failed.       *)
TaskDone(c) ==
    LET q     == queue[c]
        ready == ReadyEntries(c)
        freed == FreedEntries(c)
        last  == qstart[c] + Cardinality(ready)
        stuck == ready # {} /\ q[last].result = "object"
        text  == {i \in ready : q[i].result = "text" /\ ~Closed(c)}
        reset == {q[i].req : i \in freed \cup text}
    IN  /\ Idle
        /\ callbacks[c] > 0
        /\ callbacks' = [callbacks EXCEPT ![c] = @ - 1]
        /\ pool' = ReleaseEach(pool, [i \in freed |-> q[i].req])
        /\ lines' = Reset(lines, reset) /\ heads' = Reset(heads, reset)
        /\ sessions' = Reset(sessions, reset)
        /\ Write(c, [k \in 1 .. Cardinality(ready) |-> q[qstart[c] + k].msg])
        /\ qstart' = [qstart EXCEPT ![c] = IF stuck THEN @ ELSE last]
        /\ UNCHANGED <<phase, request, target, queue, waiting, sent, misread, left>>

(* pipeline_cancel: every task from queue_start on; cancelling a task that *)
(* has ended does nothing.                                                 *)
CancelHead(c) ==
    [i \in DOMAIN queue[c] |->
        IF i = qstart[c] + 1 /\ queue[c][i].result = "pending"
        THEN [queue[c][i] EXCEPT !.result = "cancelling"] ELSE queue[c][i]]

PipelineCancel(c) ==
    [i \in DOMAIN queue[c] |->
        IF i > qstart[c] /\ queue[c][i].result = "pending"
        THEN [queue[c][i] EXCEPT !.result = "cancelling"] ELSE queue[c][i]]

ConnectionLost(c) ==
    /\ Idle
    /\ phase[c] = "aborting" \/ (phase[c] = "open" /\ Disconnects)
    /\ phase' = [phase EXCEPT ![c] = "lost"]
    /\ pool' = ReleaseRequest(pool, request[c])
    /\ lines' = Reset(lines, {request[c]}) /\ heads' = Reset(heads, {request[c]})
    /\ sessions' = Reset(sessions, {request[c]})
    /\ queue' = [queue EXCEPT ![c] = PipelineCancel(c)]
    /\ UNCHANGED <<request, target, qstart, waiting, callbacks, sent, out, misread, left>>

(* A cookie is looked at for routes with a session only; but in a burst    *)
(* it may get into the Request of a message with one.                      *)
Receive(c) ==
    \E route \in Routes, cookie, up, more \in BOOLEAN :
        /\ cookie => WantsSession(route) \/ (Bursts /\ \E r \in Routes : WantsSession(r))
        /\ WantsSession(route) \/ up
        /\ \E result \in ResultsOf(route) :
              DataReceived(c, route, cookie, up, result, more)

TaskSettles(c) ==
    \E i \in DOMAIN queue[c], result \in Results : TaskEnds(c, i, result)

Reply(w) == \E result \in ResultsOf(w.route) : SessionReply(w, result)

Next ==
    \/ \E c \in Conns : \/ ProtocolInit(c) \/ ConnectionMade(c) \/ Receive(c)
                        \/ TaskSettles(c) \/ TaskDone(c) \/ ConnectionLost(c)
    \/ \E w \in waiting : Reply(w)

Spec == Init /\ [][Next]_vars

-----------------------------------------------------------------------------
(* The event loop runs every callback that is due and a buffer is parsed   *)
(* to its end: asyncio guarantees these.  That a cancelled task ends is the*)
(* handlers' part: one that catches CancelledError may go on.              *)
LoopFairness ==
    \A c \in Conns :
        /\ WF_vars(TaskDone(c))
        /\ WF_vars(target[c] # NoRequest /\ Receive(c))
        /\ WF_vars(\E i \in DOMAIN queue[c], result \in Results :
                      queue[c][i].result = "cancelling" /\ TaskEnds(c, i, result))

(* The application's part: its coroutines end and its session store        *)
(* answers.                                                                *)
AppFairness ==
    /\ \A c \in Conns : WF_vars(TaskSettles(c))
    /\ \A c \in Conns : WF_vars(\E w \in waiting : w.m.conn = c /\ Reply(w))

LoopSpec == Spec /\ LoopFairness
FairSpec == Spec /\ LoopFairness /\ AppFairness

-----------------------------------------------------------------------------
(* What the connections use Requests for, as <<role, number, Request>>.    *)
Live(c) == phase[c] \in {"init", "open", "aborting"}

Uses(c) ==
    (IF Live(c) THEN {<<"current", 0, request[c]>>} ELSE {})
    \cup {<<"queued", i, queue[c][i].req>> : i \in qstart[c] + 1 .. Len(queue[c])}
    \cup {<<"waiting", w.m.msg, w.req>> : w \in {w \in waiting : w.m.conn = c}}

Held(c) == {u[3] : u \in Uses(c)}

(* A Request has one use at a time, in one connection: a response being    *)
(* computed never shares its Request with another one or with the message  *)
(* being read.                                                             *)
RequestsNotShared ==
    \A c, d \in Conns : \A u \in Uses(c), v \in Uses(d) :
        u[3] = v[3] => c = d /\ u = v

(* Every Request in use has its flag up, so the pool will not hand it out, *)
(* and no Request is released twice; the counter stays exact.              *)
PoolAgrees ==
    /\ \A c \in Conns : Held(c) \subseteq pool.inprog
    /\ ~pool.stray
    /\ PoolCounted(pool)

(* As long as no client went away, nothing stays out of the pool that      *)
(* nobody will give back.  (Once one did, see README: Requests are lost.)  *)
NoLeak ==
    (\A c \in Conns : phase[c] # "lost")
        => pool.inprog \subseteq UNION {Held(c) : c \in Conns}

(* HTTP pipelining: the responses leave in the order of the requests, none *)
(* twice and none skipped, whatever order the handlers finish in.          *)
ResponsesInOrder ==
    \A c \in Conns : \A i \in DOMAIN out[c] : out[c][i] = i

(* A request is answered at most once.                                     *)
AnsweredOnce ==
    \A c \in Conns : \A i, j \in DOMAIN out[c] : i # j => out[c][i] # out[c][j]

(* While a coroutine runs or a session is fetched, the Request keeps the   *)
(* method, path and body it was parsed with.                               *)
ParkedKeepLines ==
    /\ \A w \in waiting : w.req \in DOMAIN lines /\ lines[w.req] = w.m
    /\ \A c \in Conns : \A i \in qstart[c] + 1 .. Len(queue[c]) :
          LET e == queue[c][i]
          IN  /\ e.req \in DOMAIN lines
              /\ lines[e.req].conn = c /\ lines[e.req].msg = e.msg

(* The same for its headers.                                               *)
ParkedKeepHeaders ==
    /\ \A w \in waiting : w.req \in DOMAIN heads /\ heads[w.req] = w.m
    /\ \A c \in Conns : \A i \in qstart[c] + 1 .. Len(queue[c]) :
          LET e == queue[c][i]
          IN  /\ e.req \in DOMAIN heads
              /\ heads[e.req].conn = c /\ heads[e.req].msg = e.msg

(* A message that waits has its Request for itself, as it was parsed       *)
(* (protocol.c:488 and :531): whichever other message of whichever client  *)
(* comes, is answered or is given up meanwhile.                            *)
RequestsKept == RequestsNotShared /\ ParkedKeepLines

(* The session looked up is that of the message's own cookie, unless a page*)
(* raised that ran at once with a session_id: it leaves it in the Request, *)
(* to the next message without a cookie.                                   *)
LookupsAreOwn == \A w \in waiting : w.session = w.m \/ w.session \in left

(* A page handler, and the session lookup before it, see the headers of    *)
(* the message they serve; what waits keeps its headers too.               *)
HeadersAreOwn == misread = {} /\ ParkedKeepHeaders /\ LookupsAreOwn

(* A message is answered, unless the connection goes away: if its handler  *)
(* ends, and if the session store answers its lookup or fails it, which    *)
(* the repository's own clients do not do once a connection to it is lost. *)
EventuallyAnswered ==
    \A c \in Conns : \A n \in 1 .. MaxMsgs :
        sent[c] >= n ~> \/ \E i \in DOMAIN out[c] : out[c][i] = n
                        \/ phase[c] \in {"aborting", "lost"}

(* After connection_lost the queue empties by itself, so the tasks and the *)
(* Requests it refers to are let go, even if no coroutine ends by itself,  *)
(* as long as none ignores that it is cancelled.                           *)
LostQueueDrains == \A c \in Conns : phase[c] = "lost" ~> PipelineEmpty(c)
=============================================================================
