---------------------------- MODULE RequestObject ----------------------------
(***************************************************************************)
(* One Request of the pool and the Response all Requests share, used for   *)
(* message after message: what the page handlers read of the message       *)
(* (request.c and request.py, with its caches and their reference counts), *)
(* what they set for the response, and how the message ends (protocol.c).  *)
(***************************************************************************)
EXTENDS ResponseBuffer, FiniteSets

CONSTANTS
    Fields,       (* what the handlers read, see AllFields                   *)
    Mimes,        (* types of the routes                                     *)
    PartSets,     (* what a message may have, sets of parts                  *)
    MaxMessages,  (* bound: messages of a behaviour                          *)
    MaxSteps      (* bound: reads and settings, and steps of other handlers  *)

(* The py_ attributes of a Request, but for the session's user, which is set   *)
(* with the reply of the session store.                                    *)
AllFields == {"headers", "body", "path", "method", "cookies", "json", "form",
              "file", "query_string", "args", "ip"}

ASSUME RequestObjectAssumption ==
       /\ Fields \subseteq AllFields /\ Mimes \subseteq MimeTypes
       /\ PartSets \subseteq SUBSET {"cookies", "query", "address"}
       /\ MaxMessages \in Nat /\ MaxSteps \in Nat

VARIABLES
    msg,       (* number of the message in the Request                       *)
    handling,  (* it is not answered yet                                     *)
    how,       (* its handler is "plain", or a "coroutine", or a plain one   *)
               (* that has returned while earlier messages wait: "queued"    *)
    has,       (* which of cookies, a query string, an address header it has *)
    minor,     (* its HTTP version is 1.minor                                *)
    cache,     (* per field, the message its object was made of              *)
    refs,      (* per field, the references that object has                  *)
    return404, (* NotFound has been called                                   *)
    headers,   (* Response.headers                                           *)
    cookies,   (* Response.cookies                                           *)
    buffer,    (* the response buffer                                        *)
    last,      (* what the last step gave to a handler or a client           *)
    reads,     (* history: per field, its reads since the object was made    *)
    owed,      (* history: the lines this handler has set                    *)
    mixed,     (* history: others set lines in the Response or reset it      *)
    errored,   (* history: a message ended without a reset, none with since  *)
    called,    (* history: this handler called NotFound                      *)
    stuck,     (* history: one did, and its ending did not look              *)
    olds,      (* history: a request of HTTP/1.0 was answered                *)
    steps      (* those so far                                               *)

vars == <<msg, handling, how, has, minor, cache, refs, return404, headers, cookies,
          buffer, last, reads, owed, mixed, errored, called, stuck, olds, steps>>

Unread == -1       (* a NULL pointer: tp_alloc leaves them in a new Request  *)
NoValue == 0       (* Python's None                                          *)
NothingYet == [kind |-> "nothing"]
NothingOwed == [headers |-> None, cookies |-> None]

Init ==
    /\ msg = 0 /\ handling = FALSE /\ how = "plain"
    /\ has = {} /\ minor = 1
    /\ cache = [f \in Fields |-> Unread]
    /\ refs = [f \in Fields |-> 0]
    /\ return404 = FALSE
    /\ headers = None /\ cookies = None
    /\ buffer = InitialBuffer
    /\ last = NothingYet
    /\ reads = [f \in Fields |-> 0]
    /\ owed = NothingOwed /\ mixed = FALSE
    /\ errored = FALSE /\ called = FALSE /\ stuck = FALSE /\ olds = FALSE
    /\ steps = 0

(* request_load.  What is in the Response now is not this message's.       *)
Load(parts, version, coroutine) ==
    /\ ~handling /\ msg < MaxMessages
    /\ msg' = msg + 1
    /\ handling' = TRUE
    /\ how' = IF coroutine THEN "coroutine" ELSE "plain"
    /\ has' = parts /\ minor' = version
    /\ last' = NothingYet
    /\ called' = FALSE
    /\ owed' = NothingOwed
    /\ mixed' = (headers # None \/ cookies # None)
    /\ UNCHANGED <<cache, refs, return404, headers, cookies, buffer, reads, errored, stuck, olds, steps>>

(* The handler takes another step.                                         *)
Running == handling /\ how # "queued" /\ steps < MaxSteps

-----------------------------------------------------------------------------
(* Reading.                                                                *)
Part(f) ==
    CASE f \in {"query_string", "args"} -> {"query"}
      [] f = "cookies" -> {"cookies"}
      [] f = "ip" -> {"address"}
      [] f \in AllFields \ {"query_string", "args", "cookies", "ip"} -> {}

Own(f) == IF Part(f) \subseteq has THEN msg ELSE NoValue

(* Without a value these try again at every read.  (Without a query string *)
(* args is an empty dict, and cached.)                                     *)
RetriesWhenNone(f) == f \in {"cookies", "ip"}

CountsReferenceLess(f, first) ==
    CASE f \in {"cookies", "path", "method", "query_string"} -> FALSE
      [] f = "args" -> first /\ "query" \in has
      [] f \in AllFields \ {"cookies", "args", "path", "method", "query_string"} -> TRUE

(* What a read returns has a reference of its own; where the getter does   *)
(* not count it, the caller gives away the one of the cache.               *)
CountsReference(f, first) ==
    CASE f = "cookies" -> FALSE
      [] f = "args" -> first /\ "query" \in has
      [] f \in {"path", "method", "query_string"} -> first
      [] f \in AllFields \ {"cookies", "args", "path", "method", "query_string"} -> TRUE

(* A field whose object is freed is not read again: the outcome would be   *)
(* anything.                                                               *)
Freed(f) == cache[f] > NoValue /\ refs[f] = 0

Read(f) ==
    LET first == cache[f] = Unread
        value == IF first THEN Own(f) ELSE cache[f]
        keeps == ~first \/ value # NoValue \/ ~RetriesWhenNone(f)
    IN  /\ Running /\ ~Freed(f)
        /\ steps' = steps + 1
        /\ last' = [kind |-> "read", field |-> f, value |-> value]
        /\ cache' = IF keeps THEN [cache EXCEPT ![f] = value] ELSE cache
        /\ refs' = IF ~keeps THEN refs
                   ELSE [refs EXCEPT ![f] = (IF first THEN 1 ELSE @) - (IF CountsReference(f, first) THEN 0 ELSE 1)]
        /\ reads' = [reads EXCEPT ![f] = IF first THEN 1 ELSE @ + 1]
        /\ UNCHANGED <<msg, handling, how, has, minor, return404, headers, cookies, buffer,
                       owed, mixed, errored, called, stuck, olds>>

-----------------------------------------------------------------------------
(* Setting.  Asking for response.headers makes the dict, and lines may be  *)
(* added to it; cookies are assigned as a whole.                           *)
Given(kind, lines) == [i \in 1 .. lines |-> <<kind, msg>>]

SetHeaders(lines) ==
    /\ Running
    /\ steps' = steps + 1
    /\ headers' = Lines(headers) \o Given("header", lines)
    /\ owed' = [owed EXCEPT !.headers = Lines(@) \o Given("header", lines)]
    /\ last' = NothingYet
    /\ UNCHANGED <<msg, handling, how, has, minor, cache, refs, return404, cookies, buffer,
                   reads, mixed, errored, called, stuck, olds>>

SetCookies(lines) ==
    /\ Running
    /\ steps' = steps + 1
    /\ cookies' = Given("cookie", lines)
    /\ owed' = [owed EXCEPT !.cookies = Given("cookie", lines)]
    /\ last' = NothingYet
    /\ UNCHANGED <<msg, handling, how, has, minor, cache, refs, return404, headers, buffer,
                   reads, mixed, errored, called, stuck, olds>>

NotFound ==
    /\ Running
    /\ steps' = steps + 1
    /\ return404' = TRUE
    /\ called' = TRUE
    /\ last' = NothingYet
    /\ UNCHANGED <<msg, handling, how, has, minor, cache, refs, headers, cookies, buffer,
                   reads, owed, mixed, errored, stuck, olds>>

-----------------------------------------------------------------------------
(* Ending.                                                                 *)

(* Request_reset, which is also what clears the Response.                  *)
NotReset == {"query_string", "args", "ip"}

AfterResetWithoutPath(of, empty) == [f \in Fields |-> IF f \in NotReset \cup {"path"} THEN of[f] ELSE empty]
AfterReset(of, empty) == [f \in Fields |-> IF f \in NotReset THEN of[f] ELSE empty]

RequestReset ==
    /\ headers' = None /\ cookies' = None
    /\ cache' = AfterReset(cache, Unread)
    /\ refs' = AfterReset(refs, 0) /\ reads' = AfterReset(reads, 0)
    /\ errored' = FALSE

(* What a plain handler returns waits behind coroutines of its connection. *)
Queue ==
    /\ handling /\ how = "plain"
    /\ how' = "queued"
    /\ last' = NothingYet
    /\ UNCHANGED <<msg, handling, has, minor, cache, refs, return404, headers, cookies, buffer,
                   reads, owed, mixed, errored, called, stuck, olds, steps>>

(* A string is answered: protocol_write_response, then the reset.          *)
Return(mime) ==
    LET w == WriteResponse(SetMimeType(buffer, mime), headers, cookies, <<<<"body", msg>>>>, minor)
    IN  /\ handling
        /\ handling' = FALSE
        /\ buffer' = w.buffer
        /\ last' = [kind |-> "response", version |-> w.version, head |-> w.head, body |-> w.body,
                    mime |-> mime, headers |-> headers, cookies |-> cookies, olds |-> olds]
        /\ RequestReset
        /\ olds' = (olds \/ minor = 0)
        /\ stuck' = (stuck \/ called)
        /\ UNCHANGED <<msg, how, has, minor, return404, owed, mixed, called, steps>>

(* Between two messages, while a coroutine waits for something, and while  *)
(* a result is queued, the handlers of other Requests run.  They have the  *)
(* one Response: what they set is there for all, and when they return, or  *)
(* a coroutine among them raises, the reset clears it.                     *)
OthersRun == steps < MaxSteps /\ (handling => how # "plain")

OtherLines(lines) == Lines(headers) \o [i \in 1 .. lines |-> <<"header", 0>>]

OtherSets(lines) ==
    /\ OthersRun
    /\ steps' = steps + 1
    /\ headers' = OtherLines(lines)
    /\ mixed' = handling
    /\ last' = NothingYet
    /\ UNCHANGED <<msg, handling, how, has, minor, cache, refs, return404, cookies, buffer, reads,
                   owed, errored, called, stuck, olds>>

OtherResets ==
    /\ OthersRun
    /\ steps' = steps + 1
    /\ headers' = None /\ cookies' = None
    /\ mixed' = (handling /\ (mixed \/ headers # None \/ cookies # None))
    /\ last' = NothingYet
    /\ UNCHANGED <<msg, handling, how, has, minor, cache, refs, return404, reads, owed, errored,
                   called, stuck, olds>>

OtherRaises == OtherResets /\ UNCHANGED buffer

OtherReturns(mime, lines) ==
    LET others == IF lines = 0 THEN headers ELSE OtherLines(lines)
        w == WriteResponse(SetMimeType(buffer, mime), others, cookies, <<<<"body", 0>>>>, 1)
    IN  OtherResets /\ buffer' = w.buffer

(* It raises: an HTTPError with a code and a message, an HTTPRedirect with *)
(* a code and an address, or another exception.  The page is put together  *)
(* in a buffer of its own.                                                 *)
Exceptions == {"HTTPError", "HTTPRedirect", "other"}

ErrorResponse(raised) ==
    IF raised = "HTTPError" THEN [code |-> "own", message |-> msg, location |-> 0]
    ELSE [code |-> "500", message |-> 0, location |-> 0]

RedirectResponse == [code |-> "own", message |-> 0, location |-> msg]

RaisedPage(raised) == IF raised = "HTTPRedirect" THEN RedirectResponse ELSE ErrorResponse(raised)

(* After NotFound a plain handler gets the page of a 404 (err404 of the    *)
(* application, put together once, at start-up), whatever was raised.      *)
NotFoundPage == [code |-> "404", message |-> 0, location |-> 0]

ErrorPage(raised) == IF return404 THEN NotFoundPage ELSE RaisedPage(raised)

(* protocol_handle_request, for a plain handler: nothing is reset.         *)
Raise(raised) ==
    /\ handling /\ how = "plain"
    /\ handling' = FALSE
    /\ last' = [kind |-> "error", raised |-> raised, page |-> ErrorPage(raised),
                looked |-> TRUE, stuck |-> stuck]
    /\ return404' = FALSE
    /\ stuck' = FALSE
    /\ errored' = TRUE
    /\ owed' = NothingOwed /\ mixed' = FALSE
    /\ UNCHANGED <<called, msg, how, has, minor, cache, refs, headers, cookies, buffer, reads, olds,
                   steps>>

(* protocol_pipeline_ready, for a task: return404 is not looked at, and    *)
(* the Request is released, and so reset.  If the connection is closed     *)
(* nothing is written.                                                     *)
TaskEnds ==
    /\ handling /\ how = "coroutine"
    /\ handling' = FALSE
    /\ RequestReset
    /\ stuck' = (stuck \/ called)
    /\ owed' = NothingOwed /\ mixed' = FALSE
    /\ UNCHANGED <<called, msg, how, has, minor, return404, buffer, olds, steps>>

TaskRaises(raised) ==
    /\ TaskEnds
    /\ last' = [kind |-> "error", raised |-> raised, page |-> RaisedPage(raised),
                looked |-> FALSE, stuck |-> stuck]

TaskDropped == TaskEnds /\ last' = NothingYet

Next ==
    \/ \E parts \in PartSets, v \in {0, 1}, coroutine \in BOOLEAN : Load(parts, v, coroutine)
    \/ \E f \in Fields : Read(f)
    \/ \E n \in 0 .. 1 : SetHeaders(n) \/ SetCookies(n) \/ OtherSets(n)
    \/ NotFound \/ Queue \/ TaskDropped \/ OtherRaises
    \/ \E mime \in Mimes : Return(mime) \/ \E n \in 0 .. 1 : OtherReturns(mime, n)
    \/ \E raised \in Exceptions : Raise(raised) \/ TaskRaises(raised)

Spec == Init /\ [][Next]_vars

-----------------------------------------------------------------------------
(* Whatever was read of earlier messages, a handler reads its own: unless  *)
(* the message before ended with the error page of a plain handler, and so *)
(* without a reset, or for the query string and the address, which no      *)
(* reset clears.                                                           *)
FreshFields ==
    last.kind = "read" =>
        \/ last.value = Own(last.field)
        \/ reads[last.field] > 1 /\ errored
        \/ reads[last.field] > 1 /\ last.field \in NotReset

(* An object the Request still points to is alive, unless the handlers     *)
(* have read a field more than once that does not count, or cookies, or    *)
(* the arguments of a request without any.                                 *)
ReferencesKept ==
    \A f \in Fields : Freed(f) =>
        \/ f \in {"cookies", "args"}
        \/ f \in {"path", "method", "query_string"} /\ reads[f] > 1

(* Though all responses are written into one buffer and use one Response,  *)
(* each has the headers and cookies its own handler set, its own body, and *)
(* one blank line between them; unless lines of others were in the Response*)
(* when the message began, or others set lines while this one waited, or   *)
(* reset those it had set, or this one asked for the headers and set none, *)
(* which leaves out the blank line.  The version is that of the request,   *)
(* unless one of HTTP/1.0 came before.  An exception becomes the page it   *)
(* asks for, with this handler's message or address; but a 404 for a plain *)
(* handler after NotFound, its own or that of one before, coroutine or not,*)
(* whose ending did not look.                                              *)
AnswerIsOwn ==
    /\ last.kind = "response" =>
          /\ mixed \/ (last.headers = owed.headers /\ last.cookies = owed.cookies)
          /\ last.headers # <<>> => last.head = RightHead(last.mime, last.headers, last.cookies)
          /\ last.body = <<<<"body", msg>>>>
          /\ last.version = minor \/ last.olds
    /\ last.kind = "error" =>
          /\ last.page.code = "404" <=> last.looked /\ (called \/ last.stuck)
          /\ last.page.code # "404" =>
                /\ last.page.code = "own" <=> last.raised # "other"
                /\ last.page.message = msg <=> last.raised = "HTTPError"
                /\ last.page.location = msg <=> last.raised = "HTTPRedirect"
=============================================================================
