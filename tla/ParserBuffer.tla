----------------------------- MODULE ParserBuffer -----------------------------
(***************************************************************************)
(* The buffer of a connection's parser (parser.c) and what the header      *)
(* scanner (mrhttpparser.c) makes of it, for a client whose requests       *)
(* arrive cut at any place.                                                *)
(*                                                                         *)
(* The unit of data is a cell: a part of a request that is not cut.  The   *)
(* scanner reads blocks of cells and looks past the end of the data, where *)
(* the cells of earlier requests still are.  An action is parser_          *)
(* data_received up to the first request, or its loop for one request.     *)
(***************************************************************************)
EXTENDS Powers, Sequences, FiniteSets, SequencesExt

CONSTANTS
    Requests,     (* what the client sends: a sequence of records [length,   *)
                  (* headers, body, packed]: the kind of Content-Length,     *)
                  (* "none", "good" or "bad", numbers of cells, and whether  *)
                  (* its Content-Type is mrpacker's, which then shares a cell*)
                  (* with the Content-Length                                 *)
    Block,        (* cells of a block of the scanner, 64 bytes               *)
    InitialSize,  (* of the buffer, 8096 bytes                               *)
    MaxSize       (* bound: cells of memory in the model                     *)

ASSUME ParserAssumption ==
       /\ Block \in Nat \ {0} /\ InitialSize \in Nat \ {0} /\ MaxSize \in Nat
       /\ Requests \in Seq([length : {"none", "good", "bad"}, headers : Nat,
                            body : Nat, packed : BOOLEAN])
       /\ \A k \in DOMAIN Requests :
             Requests[k].length = "none" => Requests[k].body = 0 /\ ~Requests[k].packed

Parts(r) == <<"method", "path", "version">>
            \o (IF r.length = "none" THEN <<>> ELSE <<"length">>)
            \o [i \in 1 .. r.headers |-> "header"]
            \o <<"blank">>
            \o [i \in 1 .. r.body |-> "body"]

Cells(k) == [i \in DOMAIN Parts(Requests[k]) |-> [request |-> k, part |-> Parts(Requests[k])[i]]]

(* What the client has sent when it has sent the first k requests.         *)
Opening[k \in 0 .. Len(Requests)] == IF k = 0 THEN <<>> ELSE Opening[k - 1] \o Cells(k)

Stream == Opening[Len(Requests)]
SentWith(k) == Len(Opening[k])

Junk == [request |-> 0, part |-> "junk"]    (* memory not written before     *)

VARIABLES
    mem,          (* the memory at buf                                       *)
    size,         (* buf_size                                                *)
    start, end,   (* offsets of start and end in buf                         *)
    body_length,
    flags,        (* hreq.flags = 2 in the Request the scanner writes to     *)
    busy,         (* parser_data_received has not returned                   *)
    sent,         (* history: cells of Stream received so far                *)
    handled,      (* history: the cells each call of on_body was given       *)
    refused,      (* history: number of 400 responses                        *)
    causes        (* history: what went wrong so far, see Properties         *)

vars == <<mem, size, start, end, body_length, flags, busy, sent, handled, refused, causes>>

Init ==
    /\ mem = [i \in 0 .. MaxSize + Block + 3 |-> Junk]
    /\ size = InitialSize
    /\ start = 0 /\ end = 0
    /\ body_length = 0
    /\ flags = FALSE
    /\ busy = FALSE
    /\ sent = 0
    /\ handled = <<>>
    /\ refused = 0
    /\ causes = {}

(* The start of the loop: more room if needed, then the data is appended.  *)
(* The test counts from start; realloc sets start back to buf.  The scanner*)
(* writes to the connection's Request, which may have been reset, or been  *)
(* replaced by a new one, since the last buffer.                           *)
NeedsRoomAtOnce(n) == n > size
NeedsRoom(n) == n + end - start > size

ReceiveStart(n) == IF NeedsRoom(n) THEN 0 ELSE start

Receive(n) ==
    /\ ~busy
    /\ n \in 1 .. Len(Stream) - sent
    /\ end + n <= MaxSize
    /\ mem' = [i \in DOMAIN mem |->
                 IF i \in end .. end + n - 1 THEN Stream[sent + i - end + 1] ELSE mem[i]]
    /\ end' = end + n
    /\ sent' = sent + n
    /\ size' = IF NeedsRoom(n) THEN Doubled(size, n + end - start) ELSE size
    /\ start' = ReceiveStart(n)
    /\ busy' = TRUE
    /\ flags' \in {flags, FALSE}
    /\ causes' = causes \cup (IF NeedsRoom(n) /\ start > 0 THEN {"handled before"} ELSE {})
                        \cup (IF start > 0 THEN {"offset"} ELSE {})
    /\ UNCHANGED <<body_length, handled, refused>>

Part(i) == mem[i].part

(* get_len_to_space finds no path before the end of the data, but perhaps  *)
(* a blank in what lies behind it.                                         *)
PathMissing == Part(start + 1) # "path"

(* parse_headers_avx2, from h: whole blocks are scanned, up to the first   *)
(* that reaches the end of the data, for the blank line.  If there is none *)
(* the end of the last block is returned as if the headers were complete.  *)
HeadersEnd(h) ==
    LET blocks == IF end <= h THEN 1 ELSE (end - h + Block - 1) \div Block
        limit  == h + Block * blocks
        blanks == {i \in h .. limit - 1 : Part(i) = "blank"}
    IN  IF blanks = {} THEN limit ELSE Min(blanks) + 1

(* mr_parse_request: the values it may return; a positive one is the       *)
(* offset where the headers end.                                           *)
ParseRequest ==
    CASE start = end             -> {-2}
      [] Part(start) # "method"  -> {-1}
      [] PathMissing             -> {-1, -2}
      [] Part(start + 2) # "version" -> {-2}
      [] start + 3 > end         -> {-1}
      [] OTHER                   -> {HeadersEnd(start + 3)}

(* The values of the Content-Length headers scanned, as cells.             *)
Lengths(e) == {i \in start .. e - 1 : Part(i) = "length"}
BadLength(e) == \E i \in Lengths(e) : Requests[mem[i].request].length = "bad"
BodyLength(e) == IF Lengths(e) = {} THEN body_length
                 ELSE Requests[mem[Max(Lengths(e))].request].body

(* flags = 2: mrpacker is to read the body before on_body is called.  The  *)
(* header sets it; only Request_reset takes it back.                       *)
Packed(e) == \E i \in Lengths(e) : Requests[mem[i].request].packed
FlagsAfter(e) == flags \/ Packed(e)

(* One round of the loop.  The scanner wants more, or gives up (400), or   *)
(* a bad length ends the call, or the body is not there, or mrpacker cannot*)
(* read it (400), or on_body runs and succeeds, or does not (400).         *)
ParserIncomplete == /\ busy' = FALSE
                    /\ UNCHANGED <<mem, size, start, end, body_length, flags, sent, handled, refused, causes>>

ParserError == /\ busy' = FALSE
               /\ refused' = refused + 1
               /\ UNCHANGED <<mem, size, start, end, body_length, flags, sent, handled, causes>>

ParserBadLength(e) ==
    /\ busy' = FALSE
    /\ body_length' = 0
    /\ start' = e
    /\ flags' \in {flags, FlagsAfter(e)}
    /\ causes' = causes \cup {"bad length"}
    /\ UNCHANGED <<mem, size, end, sent, handled, refused>>

StartOverAtBody(e) == e
StartOver(e) == 0

(* "Need more data": everything in the buffer is parsed again next time.   *)
ParserNeedsBody(e, b) ==
    /\ busy' = FALSE
    /\ body_length' = b
    /\ flags' = FlagsAfter(e)
    /\ size' = IF b + end - e > size THEN Doubled(size, b + end - e) ELSE size
    /\ start' = StartOver(e)
    /\ causes' = causes \cup (IF \E i \in Lengths(e) : i >= end THEN {"stale length"} ELSE {})
                        \cup (IF start > 0 THEN {"handled before"} ELSE {})
    /\ UNCHANGED <<mem, end, sent, handled, refused>>

(* _reset: the buffer is used from its beginning again when it is empty.   *)
Reset(s) == IF s < end THEN [start |-> s, end |-> end] ELSE [start |-> 0, end |-> 0]

NextBodyLengthKept(b) == b
NextBodyLength(b) == 0

(* What on_body is given.  Most pages are answered, and the Request reset, *)
(* before it returns.  A 404, a body over the route's limit, or an error   *)
(* page leaves the Request as it is; so does one kept for a session or a   *)
(* coroutine, to which the scanner goes on writing until the buffer ends.  *)
OnBodyCells(e, b) == [i \in 1 .. e + b - start |-> mem[start + i - 1]]

CutAtBlock(e) == IF e > start + 3 /\ Part(e - 1) # "blank" THEN {"cut at a block"} ELSE {}

ParserHandles(e, b) ==
    /\ handled' = Append(handled, OnBodyCells(e, b))
    /\ start' = Reset(e + b).start
    /\ end' = Reset(e + b).end
    /\ body_length' = NextBodyLength(b)
    /\ flags' \in {FALSE, FlagsAfter(e)}
    /\ busy' = (e + b < end)
    /\ causes' = causes \cup CutAtBlock(e)
    /\ UNCHANGED <<mem, size, sent, refused>>

(* on_body returns NULL, as for a page whose result is no text: the body   *)
(* stays in the buffer.                                                    *)
ParserHandlerFails(e, b) ==
    /\ busy' = FALSE
    /\ handled' = Append(handled, OnBodyCells(e, b))
    /\ refused' = refused + 1
    /\ start' = e
    /\ body_length' = b
    /\ flags' \in {FALSE, FlagsAfter(e)}
    /\ causes' = causes \cup CutAtBlock(e) \cup {"handler failed"}
    /\ UNCHANGED <<mem, size, end, sent>>

(* unpackc fails: whether it does is up to the client, and for a body that *)
(* is not mrpacker's to its first bytes.                                   *)
ParserUnpackFails(e, b) ==
    /\ FlagsAfter(e)
    /\ busy' = FALSE
    /\ refused' = refused + 1
    /\ start' = e
    /\ body_length' = b
    /\ flags' = TRUE
    /\ causes' = causes \cup {IF Packed(e) THEN "bad body" ELSE "stale type"}
    /\ UNCHANGED <<mem, size, end, sent, handled>>

ParseOne ==
    /\ busy
    /\ \E rc \in ParseRequest :
          \/ rc = -2 /\ ParserIncomplete
          \/ rc = -1 /\ ParserError
          \/ rc > 0 /\ BadLength(rc) /\ ParserBadLength(rc)
          \/ rc > 0 /\ ~BadLength(rc) /\ BodyLength(rc) > end - rc /\ ParserNeedsBody(rc, BodyLength(rc))
          \/ rc > 0 /\ ~BadLength(rc) /\ BodyLength(rc) <= end - rc /\ ParserUnpackFails(rc, BodyLength(rc))
          \/ rc > 0 /\ ~BadLength(rc) /\ BodyLength(rc) <= end - rc /\ ParserHandles(rc, BodyLength(rc))
          \/ rc > 0 /\ ~BadLength(rc) /\ BodyLength(rc) <= end - rc /\ ParserHandlerFails(rc, BodyLength(rc))

Next == ParseOne \/ \E n \in 1 .. Len(Stream) : Receive(n)

Spec == Init /\ [][Next]_vars

-----------------------------------------------------------------------------
(* What can go wrong:                                                      *)
(*   "handled before"  start went back to buf over requests handled before *)
(*   "cut at a block"  headers that end with a block taken for complete    *)
(*   "stale length"    a Content-Length was read past the end of the data  *)
(*   "bad length"      the client sent a length that is no number          *)
(*   "bad body"        the client sent a body that is not mrpacker's       *)
(*   "stale type"      a body was taken for mrpacker's because an earlier  *)
(*                     message was, and its Request was not reset          *)
(*   "handler failed"  on_body returned NULL                               *)
(*   "offset"          data came while start was not at buf                *)
Sound == causes \subseteq {"offset"}

(* However the data is cut, the requests are handled in order, each once,  *)
(* with its own headers and body, as long as nothing of the list happened. *)
HandledRight ==
    Sound => \A k \in DOMAIN handled : k \in DOMAIN Requests /\ handled[k] = Cells(k)

(* When parser_data_received returns, every request that has arrived whole *)
(* is handled: none waits in the buffer for data that never comes.         *)
NothingForgotten ==
    Sound /\ ~busy => Len(handled) = Len(Requests) \/ sent < SentWith(Len(handled) + 1)

(* "If we need more space increase the size of the buffer".                *)
BufferFits == "offset" \notin causes => end <= size
=============================================================================
