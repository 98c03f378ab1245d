# Specifications of mrhttp

mrhttp is an asynchronous HTTP server for Python whose request path is C: an
asyncio `Protocol` written as an extension type, a parser that works in the
connection's buffer, `Request` objects that are reused, and small clients for
session stores and a work queue. One process runs one event loop in one thread;
several processes share only the listening socket. What makes the code hard is
not threads but *callbacks*: data of many connections, coroutines that end in
any order, replies of a session store and lost connections interleave freely,
and all of them work on objects and buffers that live longer than the request
they serve.

Paths below are relative to `src/src/mrhttp/`; `protocol.c` etc. are in its
`internals/`.

## Inventory

| component | state | operations | correct means |
|---|---|---|---|
| request pool (`app.c`) | the list of Requests, `nextRequest`, `freeRequests`, the `inprog` flags | `get_request`, `release_request`, `double_requests` | a Request has one user; the counter is exact; the list grows only on demand |
| connection and pipeline (`protocol.c`) | `closed`, the current `request`, `queue[50]` with `queue_start`/`queue_end`, session lookups under way | `connection_made`, `data_received`, `on_memcached_reply`, `task_done`, `connection_lost` | one response per request, in request order; a waiting Request is not overwritten; nothing leaks; everything is answered |
| parser buffer (`parser.c`) | `buf`, `start`, `end`, `body_length` | `parser_data_received` | however the bytes are cut, each request is handled once |
| header scanner (`mrhttpparser.c`, `faststrcmp.h`) | none | `mr_parse_request`, `fast_compare` | what a header says is what is understood |
| request object (`request.c`, `request.py`) | parsed fields and values cached by getters | `request_load`, `Request_reset`, getters, decoding of paths, queries, cookies, forms | a reused Request shows nothing of its last message; a handler reads what was sent |
| response buffer (`response.c`) | one header buffer for the process | `setMimeType`, `updateHeaders`, `write_response`, error pages | a response carries its own type, headers, cookies and body |
| router (`router.c`, `router.py`) | routes with and without arguments, cached files | `add_route`, `setupRoutes`, `getRoute`, `update_cached_route` | the most specific route, and its arguments |
| session store clients (`memcachedclient.c`, `memprotocol.c`, `mrcache*.c`, `.py`) | connections per server, round robin index, `connmap`, a ring of callbacks per connection | `get`, `set`, `data_received`, `connection_lost`, `reconnect` | the reply goes to who asked; maps and counts follow the servers; the pool recovers |
| mrq client (`mrqclient.c`, `mrqprotocol.c`, `.py`) | slot map, rings, a receive buffer | `push`, `get`, `getSession`, `set`, framing, `reconnect` | slots lead to live servers; replies are cut right |
| sessions (`app.py`, `utils.c`) | none | `setUserSessionAndCookies`, `to64`, `from64` | a session is found where it was put, for the user it names |
| static files (`app.py`, `router.c`) | the cached bytes, the time of the last check | `static_cached_timer`, `update_cached_route` | answers follow the file |
| processes (`app.py`) | the workers the master has noted | `start`, `serve`, `stop`, SIGTERM | a signal ends all, and `at_end` runs once |
| mrpacker decoding (`utils/unpack.c`) | none | `decode` | the object the bytes stand for |
| timeouts (`app.c`, `app.py`) | `_connections` | `check_idle`, `drain` | - (the set is never filled) |
| hashing (`internals/hash/`), `internals/old/`, `src/gbench/` | | | not part of the running server |

How they interact: the event loop calls a connection; `data_received` runs the
parser, the parser calls back `on_headers` and `on_body` once per request of
the buffer; `on_body` routes, and either hands the Request to the session
client with a callback, or runs the handler. The handler's result is written,
or queued behind a coroutine; `task_done` of any coroutine writes from the head
of the queue. The pool, the response buffer and the session clients are shared
by all connections.

## Modules

| module | models | state |
|---|---|---|
| `PoolOps` | the operators of the pool: `GetRequest`, `ReleaseRequest`, `DoubleRequests`, the search | none; a pool is a record |
| `RequestPool` | the pool with clients that take and release in any order | `pool`, `held` |
| `PoolOpsProofs`, `RequestPoolProofs`, `ConnectionProofs`, `StreamProofs`, `RequestObjectProofs`, `ApplicationProofs`, `SessionStoreProofs`, `MrqClientProofs` | lemmas and theorems | |
| `Connection` | all connections, their pipelines and session lookups, on the shared pool | see below |
| `ParserBuffer` | a connection's buffer and the scanner | `mem`, `size`, `start`, `end`, `body_length`, `flags` |
| `RequestObject`, `ResponseBuffer` | one Request through several messages; the buffer all responses are written to | the cached fields, how the handler runs, `return404`, headers, cookies, the buffer |
| `SessionStore` | the client of the session servers: connections, slot map, loss and reconnect | see below |
| `MrqClient`, `MrqProtocol` | the client of the work queue; one of its connections | slot map, pools; ring, receive buffer |
| `ServerPool`, `CallbackRing` | what these clients share: arrays of connections and slot maps, the ring of callbacks | none |
| `LookupService` | what `Connection` expects of a session store | `status` of each lookup |
| `Application` | master, workers and signals; the static file and its timer | see below |
| `UrlText`, `Router`, `CookieText`, `HeaderNames`, `HtmlText`, `TimeSince`, `SessionKey`, `MultipartForm`, `Unpack`, `StoreReplies`, `StoreSends`, `MrqSend` | functions without state | none |
| `Powers` | what the functions share: sizes that are doubled, decimal numbers | none |
| `WireFormats` | an input that grows piece by piece, and what the functions for headers, store replies and commands should make of it | `subject`, `input` |
| `Algorithms` | the same for all other functions, on the same machine | |
| `MC...` | instances for TLC | |

### RequestPool

A Request is its position in the list. `GetRequest` is `MrhttpApp_get_request`:
count `freeRequests` down, take `nextRequest` if it is free, else double the
list if fewer than `LowWater` (10) are left, and go round from there to the
first free one (`FirstFree`), doubling again if there is none. `ReleaseRequest`
records in `stray` the branch that writes beside the Request when it was not in
progress. `Get(c)` and `Release(c, r)` are the calls the connections make.

### Connection

An action is one callback of the event loop, with all it calls. Only
`data_received` is cut: one action per request of the buffer, with `target` (the
`request` argument of `parser_data_received`) telling that the buffer is not
done and that nothing else may run (`Idle`).

| action | code |
|---|---|
| `ProtocolInit`, `ConnectionMade` | `Protocol_init`, `Protocol_connection_made` |
| `DataReceived` | one round of `parser_data_received`: `on_headers`, `on_body`, `Protocol_handle_request` |
| `SessionReply` | `Protocol_on_memcached_reply` |
| `TaskEnds` | the environment: a coroutine ends, asyncio schedules its callback |
| `TaskDone` | `protocol_task_done` with `protocol_pipeline_ready` |
| `ConnectionLost` | `Protocol_connection_lost` with `Protocol_pipeline_cancel` |

A message is its connection, its number and whether it has a session cookie.
`lines` and `heads` map a Request to the message that its method, path and body
(`lines`) and its headers (`heads`) came from; they are two maps because the
parser stores headers in the Request `data_received` was called with, and
everything else in `Protocol.request`. `sessions` is the same for `session_id`: only
a cookie sets it (`LoadSession`) and only `Request_reset` takes it back, so that
after a page that raised the next message without a cookie looks up the session of
another (`left` records which). `out` is the sequence of request numbers
answered. Handlers are abstracted to what they may do: a `page` or `session`
handler returns text, something else, or raises; a coroutine runs for some time
and then does the same. The session store answers lookups in any order, because
a process has several connections to it; `up` says whether it accepted the
lookup. If the transport's data_received raised, asyncio aborts the transport
(`aborting`) and calls `connection_lost` next.

`queue` holds what was put into the array since its indices last started over,
so `Len(queue)` is `queue_end` and never shrinks in between. `QueueHasSlot` is the
assertion in `pipeline_queue`, as a guard: a release build writes behind the array
instead, and what that does is not defined.

### ParserBuffer and HeaderNames

The unit of data is a cell: a part of a request (method, path, version,
Content-Length, another header, the blank line, a piece of body) that is not
cut. `mem` is the memory at `buf`, with what earlier requests left behind the
end of the data, because the scanner reads whole blocks (`HeadersEnd`).
`Receive` is `parser_data_received` up to the append, `ParseOne` its loop for
one request, with one operator for each way a round ends: more is wanted
(`ParserIncomplete`, `ParserNeedsBody`), the request is refused (`ParserError`,
`ParserBadLength`, `ParserUnpackFails`), `on_body` succeeds (`ParserHandles`) or
returns NULL (`ParserHandlerFails`). `flags` is `hreq.flags` of the Request the
scanner writes to. A type of mrpacker raises it, and only `Request_reset` lowers it:
most pages have reset the Request when `on_body` returns, a 404, a limit, an error
page or a Request that waits has not, so both may be the case afterwards. Between
two buffers the Request may have been reset or replaced as well. `causes` lists
the ways things are known to go wrong that have happened, among them a body taken
for mrpacker's because an earlier message was ("stale type") and a handler that
failed; the properties hold until one does.

`HeaderNames` models `fast_compare` by the offsets its vector loads cover, and
what the parser takes of the header fields.

### RequestObject and ResponseBuffer

One Request through several messages: `Load`, then the steps of a handler
(`Read` of a field through its getter, `SetHeaders`, `SetCookies`, `NotFound`),
then its end. `how` says which kind it is. A plain handler runs without a pause; it
returns (`Return`: the response is written and the Request reset), is queued behind
coroutines first (`Queue`), or raises: `Raise` is that part of
`protocol_handle_request`, which looks at `return404`, lowers it, and resets
nothing. A coroutine returns through `Return` too, but its exception comes out in
`protocol_pipeline_ready` (`TaskRaises`, `TaskDropped` once the client is gone),
which never looks at `return404` and releases the Request, and with that resets it
and the Response. `OtherSets`, `OtherReturns`, `OtherRaises` are handlers of other
Requests, which run between messages, while a coroutine waits and while a result is
queued. `refs` are the references to the cached object of a
field; the caller of a getter gives one away. The response buffer is kept in
cells of two bytes, and written in place by the operators of `ResponseBuffer`.

### SessionStore, MrqClient and MrqProtocol

One action per callback or call. In `SessionStore`: `Get` and `Set` (with the
round robin below them), `Answer` (one reply in `data_received`), `AnswerCut` (the
last two replies of a buffer that ends inside the second) and `AnswerRest` (the next
buffer begins with what was cut off),
`ConnectionLost` (the C handler and the Python `lost_connection`), `Reconnect`
(the coroutine's `create_connection` succeeds: `connection_made`,
`addConnection`, the flag falls; asyncio resumes the coroutine before it polls
the new socket, so nothing comes between). `down` are the servers whose
`reconnecting` flag is up. `ShiftOut` is the loop that takes a lost connection
off the array, as it is written: it copies forward.

A connection is the address of its protocol object. `conns` holds no reference,
so a connection that broke is freed although `ShiftOut` may have kept its
address; what then happens to a lookup sent there is undefined, and the model
has it lost, or lets a newer connection have the same address (a crash ends the
behaviour and is not a state). The cut of a lone reply ends the process
(`memprotocol.c:147`); a cut behind another reply does not, because the length is
compared with the bytes of the whole buffer (`memprotocol.c:143`). The reply is then
handed over, the rest of it (for memcached, "END\r\n" reads as "no session") calls
the callback of the next lookup, and all later answers on this connection go to the
one behind. `frame` says where the next bytes begin, and `spoiled` are the lookups
exposed to this. `wire` are the lookups a server still has to
answer, in order; `got` records whose answer each callback was given.

`Connection` does not use this module: its environment answers lookups in any
order or refuses them, which is what `LookupService` allows. `IsLookupService`
shows that the store is such an environment, as far as it answers at all: a
lookup whose connection breaks stays open for ever, and those on a connection that
had a reply cut are given up (`GiveUp`): they may get another's answer or none. It
says that the damage goes no further, neither to lookups on other connections nor
to those of a later connection at the same address.

`MrqClient` is the same for the work queue, whose coroutine goes on until the
pool is full and whose slots move to the next server at every loss. What goes
over one of its connections is `MrqProtocol` (with `MrqInit`, `MrqNext`, `MrqSpec`,
as `StreamProofs` extends it beside `ParserBuffer`): the stream of reply bytes is known
by places, `DataReceived(k)` takes the next `k` of them, and `OneReply` is one
round of the loop. The server is the environment (`Answered`, `Ignored`).

### Application

The master forks a worker and notes it in two steps, so that a signal can come
between. `pending` are the processes with a SIGTERM not yet handled; a worker
handles it with the master's `stop` while it boots (`PassOnEarly`), with
`loop.stop` when it serves (`Stop`), and by an exception when it closes
(`Interrupted`). The static file has a version and a date of coarse
resolution; `LooksAtFile`, `ReadsFile` and `TimerEnds` are the three steps of
`static_cached_timer` between which it may change.

### The functions

`WireFormats` has the machine (`InputSpec`) that builds an input of pieces, and
`Algorithms` extends it. Both compare what the code computes with what the input
means. They are two modules because what the functions of `WireFormats` compute
can be proved for every input: they are written as recursive functions (a row of
turns of the code's loop), those of `Algorithms` mostly as RECURSIVE operators or
with bit operations. The meanings: `Named` for headers, `RightCallbacks` for
replies, the length and the room of each command; `Before`, `Behind`, `SplitAt` of unescaped text for URLs,
`RightRoute`, `RightCookies`, `RightForm`, a recursive grammar for mrpacker,
decimal reading for lengths. The functions walk over the bytes as the code does,
in place where it works in place.

## Runs

| run | configuration | shows |
|---|---|---|
| `request_pool` | 2 clients, 5 at most held, list of 2, threshold 1 | `Exclusive`, `FreeCountExact`, `BoundedGrowth`, `GrowsOnlyWhenLow` |
| `pipeline_order` | 1 connection, 4 requests, pages and coroutines | `ResponsesInOrder`, `NoLeak`, `LostQueueDrains` |
| `answered` | 1 connection, 3 requests, several per buffer | `AnsweredOnce`, `EventuallyAnswered` |
| `shared_pool` | 2 connections, 2 requests each, list of 1 | `RequestsKept`, `PoolAgrees`, `HeadersAreOwn` |
| `session_store` | 2 servers, 2 connections each, rings of 2, 3 lookups, 2 slots | `PoolBounded`, `MapIsCurrent`, refinement `IsLookupService`, `ServerComesBack` |
| `parser_buffer` | 4 requests of all kinds, blocks of 2 cells, buffer of 6 | `HandledRight`, `NothingForgotten`, `BufferFits` |
| `mrq_client` | 3 servers, 2 connections each, 3 slots, 4 losses | `SlotsServed`, `OvershootBounded`, `PoolRecovers` |
| `mrq_protocol` | 3 requests, ring of 2, replies of 1 and 6 bytes, buffer of 6 | `RepliesHandedOver`, `ReceivedFits` |
| `messages` | 2 messages, 4 steps of handlers, 2 fields, 2 types | `FreshFields`, `ReferencesKept`, `AnswerIsOwn` |
| `processes` | 2 workers, 2 signals, 2 changes of the file, 3 ticks | `EndsOnce`, `StaticFollowsFile`, `EverythingStops` |
| `algorithms` | see `MCAlgorithms.cfg` | `TextRight`, `HeadersRight`, `SessionKeyRight`, `RepliesRight`, `FormRight`, `UnpackRight`, `SendsFit` |
| `session_overtaken` | 1 connection, 2 requests, pages and sessions | the order of responses is violated, see below |

The pool wraps, doubles and goes around within these bounds because it starts
with one or two Requests. Three requests are enough for a queue with a running
head, a finished entry and a waiting page; four add a queue that starts over
while a response is due. Two connections are enough for a Request to move from
one to the other. In `session_store` three lookups make a ring of two wrap, and
losses and cut replies are not bounded: four addresses (`MaxConns`) are used over
and over. Two lookups out on one connection are enough for a reply cut behind
another, and a third for the answer that goes astray. In `mrq_client` three servers
are needed for slots to move to a server that is itself down, and four losses empty
two of them. In `parser_buffer` the client
may cut the stream anywhere, a buffer of six cells has to grow for the second
request, and blocks of two put the end of the headers on both sides of a block.
In `mrq_protocol` the buffer grows, and a reply is shorter and longer than its
header. Two messages are enough for `messages`, as nothing but the Request, the
Response and the buffer connects a message to earlier ones, and each keeps what
the last one left. The URLs of `algorithms` have up to five pieces behind the
"/", enough for a route, both kinds of escape and two arguments; `{num}` uses
longs of one digit (`LongMax`, `NumDigits`) so that they overflow. In the other
direction `PiecesAssumption` keeps numbers where they do not: a Content-Length of
18 digits at most, commands that fit 2^30 bytes (the code doubles ints and would
not end beyond), sessions of less than 100 MB. The texts for
`fast_compare` have all lengths at which it changes its vectors.

The bounds (`MaxMsgs`, `MaxOutstanding`, `MaxHeld`, `MaxLookups`, `MaxLosses`,
`MaxAsked`, `MaxSignals`, `MaxTime`, `MaxWrites`, `MaxMessages`, `MaxSteps`,
`MaxSize`) only limit what clients, servers and users do; behaviours end when
they are used up, so deadlock is not checked in these runs. Connections are
interchangeable (`Symmetry`) in the runs that check no liveness.

### Where the code disagrees with what it says

`session_overtaken`: a request that waits for its session is not in the queue;
what follows it is answered first. Cached routes, exceptions of plain pages and
404s pass the queue in the same way.

Known, modelled or left out as said, and not a run of their own:

- A coroutine that returns no string makes `task_done` leave before
  `queue_start` moves; the entries are answered and released again
  (`protocol.c:916`). The runs have coroutines that return text or raise.
- The queue's indices start over only when it is empty: with two requests
  outstanding at all times it passes the end of the array (`protocol.c:192`). The
  model stops there (`QueueHasSlot`), the runs do not get there, and no property
  speaks of it.
- A page that raises before its result is queued (a session page with a Request of
  its own, or any behind a coroutine) leaves its Request in progress
  (`protocol.c:537`, 594-604); `pipeline_order` has pages that return text.
- `session_id` outlives a message that was not reset (`request.c:567`): a request
  without a cookie behind a page that raised looks up the session of the former
  (`HeadersAreOwn` names whose).
- The same with `hreq.flags` (`parser.c:130`, tested at 165): a request without a
  type behind one of mrpacker's whose Request was not reset is unpacked, and refused
  with 400 ("stale type"). When `on_body` returns NULL (`parser.c:177`) the body
  stays in the buffer and is parsed as a request ("handler failed").
- A coroutine's exception never looks at `return404` (`protocol.c:764-822`): after
  `notfound` it is answered as it is, and the flag turns a later exception of a plain
  page into a 404 (`AnswerIsOwn` names both).
- Of several replies of a session store in one buffer the last may be cut without
  being noticed (`memprotocol.c:143`, `mrcacheprotocol.c:154`); from then on the
  answers of this connection go to the wrong lookups.
- The second request of a buffer overwrites the headers of the Request that
  waits for a session (`protocol.c:179`); `shared_pool` has one request per
  buffer.
- A plain page that returns no string is answered twice (500, then the 400 page
  of `data_received`).
- After a client went away, a task whose text was ready, a page queued behind a
  cancelled task and a session reply leave their Request in progress for ever
  (`NoLeak` is about the time until the first client leaves).
- Of two connections to a server, losing the first drops the second from the
  array and keeps the first (`memcachedclient.c:195` and its copies). Lengths
  and counts are right all the same, which is what `PoolBounded` says.
- A request whose body has not come is parsed again from the start of the
  buffer, and those before it with it (`parser.c:160`); headers that end with a
  block are taken for complete (`mrhttpparser.c:153`).
- Header names and values longer than eight bytes are recognised only in the
  case written in the code, as the tables of `faststrcmp.h` are never filled;
  any type of 20 bytes that starts with "a", such as `application/atom+xml`, is
  taken for mrpacker's.
- The query string, the query arguments and the address of a Request are not
  reset, and an error page resets nothing (`FreshFields` says so).
- Several getters give away the reference of the cached object
  (`ReferencesKept` says which and when).
- With MrQ as the session store, `app.py:450` passes a user id already shifted
  to 0, so sessions are put in slot 0 and looked for in another.
- `to64(0)` is empty, so an id with a group of five zero bits is read as another
  user's (`SessionKeyRight` excludes it).
- `getSession` of the work queue behind a `get` on the same connection sends a
  command spoilt by the job's data, and its callback is out of reach.
- `set`, `push` and `pushj` of the work queue compare the data with the buffer and
  forget the four or six bytes of the header (`mrqprotocol.c:317`): a command may end
  that many bytes behind it. `MrqSendsFit` leaves the header out.
- `_connections` is never filled: `drain` and the idle timeouts do nothing.

Some inputs are outside what the properties speak of:

- In `mrq_protocol` the mishap "short" ends what is asked as soon as a reply was cut
  in its last five bytes, which is a good part of all cuts of short replies.
- `RepliesRight` asks of cut replies of memcached only where there is one; the cut
  behind another is `AnswerCut` in `SessionStore`.
- `UnpackRight` has bytes that begin nothing, but no text that is not UTF-8.
- `CookiesRight` compares the place where the session's key begins, not its end, and
  the first cookie of that name only.
- `form` and `file` are filled by one parse (`MultipartForm`); in `RequestObject`
  each field has a cache of its own.

### Fairness

`Connection`: `LoopFairness` has what asyncio guarantees (a scheduled done
callback runs, a buffer is parsed to its end) and one thing it does not, that a
cancelled task ends: a handler that catches `CancelledError` may go on, and the
queue of its connection then stays. `AppFairness` is what the application and the
session store owe: coroutines end, lookups are answered or failed. The repository's
own clients do not keep the latter: a lookup on a connection that breaks is never
called back (`memprotocol.c:100-106`), and its request is not answered.
`LostQueueDrains` needs the first only, `EventuallyAnswered` both. No fairness is
assumed of clients.

`SessionStore` and `MrqClient` assume that a server can be reached again in the
end (the coroutines retry for ever), nothing else: servers need not answer, and
losses may go on (in `mrq_client`, up to their bound).

`Application` assumes that the operating system runs every process: the master
goes on, a worker takes its own steps. Nothing is assumed of signals, of
`app.stop`, of a worker that fails to boot, or of the file and its timer.

### Mistakes the properties notice

Every property of a passing run fails for a wrong variant of the code. The
variants stand before the definition they vary and nothing uses them; their
names say what they do wrong: `AdvanceBlindly` (the search ignores flags),
`DoubleUncounted`, `LocateGrowingEarly` (`<=` for `<`), `LocateGrowingAlways` (no
threshold), `GetRequestOffTheEnd` (no wrap), `PipelineEmptyWhenDone` (a queue of
finished entries counts as empty), `PipelineQueueKeepingEnd` (`queue_end` not
reset), `ParksCoroutineOnly` (a page behind a coroutine keeps the current
Request), `AwaitSessionSameRequest` (no new Request during a lookup),
`ReadyHead`, `CancelHead` (only the head), `FreedTexts` (no release on an
exception), `PushCallbackFront` (the wrong end of the ring), `MapAfterLossKept`,
`AfterReconnectGoOn` (no `return` in the loop), `StartReconnectOneForAll` (one
flag for all servers), `NextBodyLengthKept`, `StartOverAtBody` (the headers are
not parsed again), `NeedsRoomAtOnce` (what the buffer holds is not counted),
`SlotsAfterLossStay`, `StartsReconnectWhenEmpty`, `GoesOnPast` (`<=` for `<`),
`HandOverUnpopped`, `RoomInRbufOnce`, `AfterResetWithoutPath`,
`CountsReferenceLess`, `RestoredNever` (the blank line is not written anew),
`StillPending`, `PassedOnToFirst`, `DateAfterReading` (the clock is read after
the file), `TakesKeyLast` (the last "=" ends the key), `TailFromRest` (a vector
that is not moved back), `UserKeyForward` (digits in the wrong order),
`MemPartialNever`, `ParsesAgain`, `FullTooSoon`, `RoomAfterOnce`.

## Proofs

`RequestPoolProofs` proves, for every number of clients, initial Requests,
threshold and bound (under `PoolAssumption` and `ClientsAssumption`):
`TypeCorrect`, `ExclusiveAlways`, `FreeCountAlways`, `BoundedGrowthAlways` and
`GrowsOnlyWhenLowAlways`. The argument: `Exclusive` alone is not inductive, because a
wrong counter would make the growth test wrong. `IInv` adds that the counter is
exact and that the list is finite and within bounds; then a search always has a
free Request within one round, which `PoolOpsProofs` shows once for the
operators: `FirstFreeIsFree` (the walk around the list reaches a free Request if
there is one, by the least number of steps), `LocateFacts`, `GetRequestFacts`,
`ReleaseRequestFacts`. It follows that the second doubling (`redo`) is never
taken.

`ApplicationProofs` proves `EndsOnceAlways` for every number of workers, signals
and file changes. `EndsOnce` is not inductive: that a worker whose ending was
broken off had been told twice depends on the signals still pending. `IInv` says
that every pending signal was counted, that the one which made a worker close is
no longer pending (so one pending while it closes is a second), and that workers
start once, in the order of the forks. `SignalsKeepIInv` serves all four senders
(outside, master, starting worker, application), `OwnStepKeepsIInv` all steps of
one worker. `StaticFollowsFileAlways` is about the timer: `FileInv` adds to the
property, which speaks of an idle timer, that once the timer has read the file, a
change it missed is dated after the date it is going to note.

`SessionStoreProofs` proves three properties for every number of servers,
connections, lookups and slots, and every size of the ring. `PoolBoundedAlways`: a
reconnect appends a connection without looking at the count, so the bound rests
on a server being reconnected (in `down`) having less than its pool, which
`PoolInv` adds. `MapIsCurrentAlways`: the map is set up after each change of the
set of servers that are up, and of those only; which steps change it follows from
`PoolInv`, where a server is up exactly if it has an open connection.
`StoreIsLookupService` is the refinement of `LookupService`: `LookupInv` says that
ring and wire of a connection that had no reply cut hold the same lookups in the
same order (`RingMatches`, with the indexes modulo the ring's size), that none is
answered yet, and that no lookup is in two places; then a reply calls the callback
of the lookup it answers. Where a reply was cut, whatever the ring holds is given up
(`PlaceInv`), also a lookup answered before, whose slot a stray reply can reach; on
all other connections nothing is. Nothing in these proofs rests on which addresses
`ShiftOut` leaves in the array of connections, only on how many.

`MrqClientProofs` proves `OvershootAlways` and `SlotsServedAlways` for every
number of servers, connections, slots and losses. `PoolInv` adds to the former
that `num_connections` counts the open connections and that no more coroutines
run than connections were lost. `SlotsServed` is nearly inductive; the work is in
`EveryTurnHasServer`: a round robin over the servers that are up meets each turn,
because the number of servers before one is different for each.

`ConnectionProofs` proves `RequestsKeptAlways` and `PoolAgreesAlways` for every
number of connections, kinds of routes, sizes of the pool, bursts and clients
that go away. Neither property is inductive without the other: the pool hands
out a Request nobody has because the flags of all in use are up, and the flags
stay right because no Request is released for two messages. `IInv` therefore
says that the Requests each connection has are in use, that those of two
connections are disjoint, that each use of one connection has its own, and that
what waits has the lines of its message. `StepOfOne` is the frame: a step of one
connection preserves `IInv` if that connection ends up with Requests it had or
that were free before. `CurrentChanges`, `QueueTakes`, `LookupTakes` and
`LookupGone` are the four ways a Request changes its place, `ReleaseEachFacts`
(in `PoolOpsProofs`) gives back a whole set, and `Prefix` shows that what
`task_done` finishes is an interval at the head of the queue. The theorems
assume `NoObjects`: a handler whose response is queued returns str or bytes
(or raises). Otherwise `task_done` leaves its loop after releasing entries and
before `queue_start` moves, and their Requests are released again.

`HeadersAreOwnAlways` is in the same module and assumes besides that a buffer
holds one request (`~Bursts`), as the run `shared_pool` does: with several, the
parser puts the headers into the Request `data_received` was called with, and the
property fails. `HeadersGoAlong` says that the headers then go where the lines
go, so what `IInv` says of the lines holds of them. For the session looked up,
`SessionsInv` says that a Request nobody has holds no id, and that an id in the
Request a connection is going to use was left by a page that raised (`IdsAreLeft`):
a message that ends otherwise resets its Request, or its connection is given up.

`ResponsesInOrderAlways` and `NoLeakAlways`, in the same module, are proved under
`OnlyQueued`: routes are plain pages that return text and coroutines that return
text or raise, as in the run `pipeline_order` (what passes the queue; the others
overtake, or raise past the release of their Request). `OrderInv` adds to `IInv`
that what was written and what is queued are, one after the other, all messages
received (`OutThenQueue`). `LeakInv` adds that every Request in use is held by
some connection; a `task_done` forgets only the Request the next message goes to
and those of a closed connection, which has an empty queue or was lost.

`AnsweredOnceAlways` is about all kinds of routes and assumes `NoObjects` only.
That `out` has no number twice says nothing of numbers still to be written;
`OnceInv` says that each message received is in one place at most: written,
queued, or waiting for its session, and that none of them is numbered above
`sent`.

`RequestObjectProofs` proves `FreshFieldsAlways` and `ReferencesKeptAlways` for
every number of messages and of steps of a handler. `FreshFields` speaks of the
last read only; `CacheInv` adds what the cache holds between reads: nothing
after a reset, then only what was made of this message. `RefsInv` adds how often
the fields were read, since three of them take their reference only the first
time.

`AnswerIsOwnAlways` is about what the answers are made in. `AnswerInv` says that
between two answers the buffer begins with the words of the MIME type it notes
(`Ready`; behind them it may hold anything of any earlier answer), and that
headers and cookies are those the handler owes, unless lines of others were mixed
in; and that `return404` is up exactly if this handler called `notfound`, or one
before whose end did not look. Lemmas on `Put` and `AddLines` say what a
write leaves and what the head becomes, for any MIME types.

`StreamProofs` is about everything that reads or writes a stream of bytes; it
extends `ParserBuffer`, `MrqProtocol` and `WireFormats`. Recursive functions occur
in all of it (what was sent, sizes, digits, rows of turns). The library's induction
theorems take an operator as a parameter, which no prover here can instantiate, so
`Induction` is stated of a set of numbers and follows from `LeastNat`: a set of
numbers that is not empty has a least member. `Recursion` and `RecursionTo` give the
functions: there is one that starts with a value and goes on by given steps
(`Follows`, `Along`). What a recursive function of the models computes is then
proved by `Induction` for each.

*The parser.* `BufferFitsAlways`, `HandledRightAlways` and
`NothingForgottenAlways` hold for every sequence of requests, cut at any places, and
every size of the scanner's blocks and of the buffer, from `ParserAssumption`
alone. `DoubledFits` shows that the loop of doublings ends with room enough, `Comes`
at which place of the stream a request begins, `Scanned` what the scanner returns:
the place behind the first blank line, or behind a block that reaches the end of
the data. `FitsInv` is the types with the bound. `HandledRight` is not inductive, it
says nothing of the buffer: `SoundInv` adds that the buffer holds what was sent
after the requests handled (`HoldsTheRest`), that a length kept from an earlier call
can only be that of the request at its front (`LengthKept`), and that this request
has not come whole when nobody parses (`NoneForgotten`). All of it holds as long as
`Sound` does, that is until one of the mishaps `causes` lists happens, as the
properties say.

*The work queue's connection.* `RepliesHandedOverAlways` and
`ReceivedFitsAlways` hold for every order of requests and losses, sizes of replies,
ring and buffer, from `MrqProtocolAssumption` and `RingAssumption`.
`RepliesHandedOver` says nothing of the ring nor of what is kept, and is not
inductive. As long as there was no mishap, `MrqInv` adds: sessions were asked for
before jobs, as a job's data spoils what follows (`SessionsFirst`); replies lie
behind each other in the stream, in the order of the requests (`InARow`); the slots
of the ring hold the callbacks that wait (`CallbacksWait`) and its head stays on
the first job (`HeadAfter`); and the bytes kept are the beginning of the next reply,
fewer than it has (`Unfinished`). One call of `data_received` is a row of rounds
over a reply each: `RoundRight` moves what is true of the loop forward by one reply,
and a round that finds nothing left changes nothing, so `LoopEnds` ends with what
the next call needs. `ReceivedFits` rests on `DoubledFits` and the type of `rbufsz`.

*The formats.* `HeadersRightAlways`, `RepliesRightAlways` and `SendsFitAlways` hold
for inputs of any length over any pieces that satisfy `PiecesAssumption`; they are
theorems of `InputSpec` because the input is a sequence of pieces in each of its
states, and the work is in what each function yields.
For headers: the vectors of `fast_compare` cover the offsets 0 to len - 1 and no
other, for every length (`VectorsCover`), the last vector being moved to the left;
and what the first k headers leave in the request says what those k mean, which the
next header preserves (`OneMoreTaken`). For replies: after i turns
of a loop over replies that are whole, i callbacks have been made with their own
sizes and the bytes read are the sum of i lengths; mrcache's count of what is left
is never too small, so none is refused. Over replies cut short, without a miss, that
count is exact, and the loop stops in front of the reply that has not all come. That
memcached's test for a partial reply (60 more than the size) does not stop whole
replies needs that numbers below 100 million have eight digits (`LongestNumbers`).
For commands: each command appended was built in a buffer that fits it, and the
buffer stays positive, so that the next doubling ends (`DoubledFits`); the digits
of a length, written by `Decimal`, are read back as that length by `NumberOf`.

What stays with TLC, and why:

- liveness (`EventuallyAnswered`, `LostQueueDrains`, `EverythingStops`,
  `PoolRecovers`, `ServerComesBack`) is out of the prover's reach;
- the rest of `Algorithms` (`TextRight`, `SessionKeyRight`, `FormRight`,
  `UnpackRight`): the functions there recurse over their input as RECURSIVE
  operators or work on bits, which keeps their modules from the SMT solver, and
  `UnpackRight` compares with a grammar that is a recursion itself.

## Not modelled

- `check_idle`, `drain`, `Protocol_close`, `Protocol_timeout_request`: they act on
  the members of a set nothing fills.
- `hash/assoc.c` and `hash/city.c`: nothing calls them; `internals/old/` and
  `src/gbench/` are not part of the server.
- `module.c`, `module.h`: tables of types and methods. `hot`, `my_get_eol`: one
  formula, and a function nobody calls.
- The Date line of the response, which a timer writes into its place; JSON;
  templates; sockets and file I/O beyond the date and content of a static file.
- Inside a block, how the scanner gets positions of separators from bit masks.

What the models leave to later work: the bytes behind a waiting Request (a
composition of `Connection` and `ParserBuffer`), and MrQ pushes of routes.
