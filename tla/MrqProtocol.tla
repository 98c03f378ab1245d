----------------------------- MODULE MrqProtocol -----------------------------
(***************************************************************************)
(* One connection of the MrQ client (mrqprotocol.c): what it asks of the   *)
(* server, how it cuts the stream of bytes that comes back into replies,   *)
(* and to whom it hands them: jobs to the Python queue, sessions to the    *)
(* callback at the head of the ring.  The bytes are known by their place   *)
(* in the stream: reply n is five bytes of header and lens[n] of data.     *)
(* (MrqInit, MrqNext, MrqSpec are named so because StreamProofs extends    *)
(* ParserBuffer, the other reader of a stream, as well.)                   *)
(***************************************************************************)
EXTENDS CallbackRing, Powers, Sequences

CONSTANTS
    MaxAsked,    (* bound: requests of a behaviour                           *)
    ReplySizes,  (* bytes of data a reply may have                           *)
    RBufSize     (* first size of rbuf, 4096                                 *)

ASSUME MrqProtocolAssumption ==
       /\ MaxAsked \in Nat /\ ReplySizes \subseteq Nat
       /\ RBufSize \in Nat \ {0}

Header == 5          (* bytes of header of a reply                           *)

VARIABLES
    kinds,       (* history: "job" or "session" of each request              *)
    lens,        (* bytes of data of each reply of the server                *)
    begins,      (* where each reply begins in the stream                    *)
    answered,    (* number of bytes the server has sent                      *)
    received,    (* number of bytes of the stream that came in               *)
    rbuf,        (* how many of the last ones rbuf keeps for the next call   *)
    rbufsz,
    ring,
    out,         (* history: what was handed over                            *)
    up,          (* the connection is there                                  *)
    mishaps      (* history: the known ways to go wrong that happened        *)

mrqVars == <<kinds, lens, begins, answered, received, rbuf, rbufsz, ring, out, up, mishaps>>

MrqInit ==
    /\ kinds = <<>> /\ lens = <<>> /\ begins = <<>>
    /\ answered = 0 /\ received = 0 /\ rbuf = 0
    /\ rbufsz = RBufSize
    /\ ring = EmptyRing
    /\ out = <<>>
    /\ up = TRUE
    /\ mishaps = {}

-----------------------------------------------------------------------------
(* Asking.                                                                 *)
Outstanding == {n \in 1 .. Len(kinds) : kinds[n] = "session" /\ ~ \E k \in 1 .. Len(out) : out[k].to = n}

(* The ring is not tested for being full: a callback can be overwritten.   *)
Overruns == ring.slot[ring.end] \in Outstanding

(* MrqProtocol_get: the ring gets an empty callback.  The data of the job  *)
(* goes over the bytes 4 .. 8 of gb, the command of a session request.     *)
Get ==
    /\ up /\ Len(kinds) < MaxAsked
    /\ kinds' = Append(kinds, "job")
    /\ ring' = PushCallback(ring, Nobody)
    /\ mishaps' = mishaps \cup (IF Overruns THEN {"ring overrun"} ELSE {})
    /\ UNCHANGED <<lens, begins, answered, received, rbuf, rbufsz, out, up>>

(* MrqProtocol_getSession.  Behind a get its command is spoilt and its     *)
(* callback is out of reach.                                               *)
SpoiltCommand(n) == \E m \in 1 .. n - 1 : kinds[m] = "job"

GetSession ==
    LET n == Len(kinds) + 1
    IN  /\ up /\ n <= MaxAsked
        /\ kinds' = Append(kinds, "session")
        /\ ring' = PushCallback(ring, n)
        /\ mishaps' = mishaps
               \cup (IF SpoiltCommand(n) THEN {"mixed"} ELSE {})
               \cup (IF Overruns THEN {"ring overrun"} ELSE {})
        /\ UNCHANGED <<lens, begins, answered, received, rbuf, rbufsz, out, up>>

(* The server (outside the repository) answers in the order of the         *)
(* requests; one with a spoilt command may stay without an answer.         *)
Answered(len) ==
    LET n == Len(lens) + 1
    IN  /\ up /\ n <= Len(kinds)
        /\ lens' = Append(lens, len)
        /\ begins' = Append(begins, answered + 1)
        /\ answered' = answered + Header + len
        /\ UNCHANGED <<kinds, received, rbuf, rbufsz, ring, out, up, mishaps>>

Ignored ==
    LET n == Len(lens) + 1
    IN  /\ up /\ n <= Len(kinds)
        /\ kinds[n] = "session" /\ SpoiltCommand(n)
        /\ lens' = Append(lens, 0)   (* no bytes *)
        /\ begins' = Append(begins, 0)
        /\ UNCHANGED <<kinds, answered, received, rbuf, rbufsz, ring, out, up, mishaps>>

-----------------------------------------------------------------------------
(* data_received.                                                          *)

BeginsAt(at) == {n \in 1 .. Len(begins) : begins[n] = at}

(* The head of the ring decides who gets the reply: its number and how     *)
(* many bytes of its data.  An empty callback is a job, and stays.         *)
HandOverUnpopped(s, n, size) ==
    [s EXCEPT !.out = Append(@, [to |-> NextCallback(s.ring), n |-> n, size |-> size])]

HandOver(s, n, size) ==
    [s EXCEPT !.out = Append(@, [to |-> NextCallback(s.ring), n |-> n, size |-> size]),
              !.ring = IF NextCallback(s.ring) = Nobody THEN @ ELSE PopCallback(@)]

(* The fifth byte of the header counts in the length: with four bytes in   *)
(* rbuf it is what rbuf held there before.                                 *)
LengthCut(s) == s.left = 4 /\ s.kept > 0

StaleBytes(k) ==
    IF rbuf > 0 /\ BeginsAt(received + k - 3) # {} THEN {"right", "large", "negative"} ELSE {"right"}

(* The length is compared with all that is left, header included.          *)
NotAllYet(left, len) == left < len

Keep(s) == [s EXCEPT !.left = 0, !.keep = s.left]
Drop(s) == [s EXCEPT !.left = 0]

Least(a, b) == IF a < b THEN a ELSE b
Greatest(a, b) == IF a < b THEN b ELSE a

(* One round of the loop: s.left bytes from s.at on are left; s.keep go to *)
(* rbuf.  A first byte that is none of a header's is an unknown command:   *)
(* the rest is dropped.  (Data bytes equal to a command are not modelled.) *)
OneReply(s, stale) ==
    IF s.left < 4 THEN Keep(s)
    ELSE IF BeginsAt(s.at) = {} THEN Drop(s)
    ELSE LET n   == CHOOSE m \in BeginsAt(s.at) : TRUE
             len == lens[n]
         IN  CASE LengthCut(s) /\ stale = "negative" -> [Drop(s) EXCEPT !.up = FALSE]
               [] LengthCut(s) /\ stale = "large" -> Keep(s)
               [] ~LengthCut(s) \/ stale = "right" ->
                      IF NotAllYet(s.left, len) THEN Keep(s)
                      ELSE HandOver([s EXCEPT !.at = @ + Header + len,
                                              !.left = @ - (Header + len),
                                              !.short = @ \/ s.left < Header + len],
                                    n, Least(len, Greatest(0, s.left - Header)))

(* The loop, until nothing is left: every round takes a byte at least.     *)
Round(s, stale) == IF s.left <= 0 THEN s ELSE OneReply(s, stale)

Replies(s, stale) ==
    LET after[r \in 0 .. s.left] == IF r = 0 THEN s ELSE Round(after[r - 1], stale)
    IN  after[s.left]

(* rbuf grows for what is kept and what came; it is emptied, and takes     *)
(* what is left of the data in the end.                                    *)
RoomInRbufOnce(size, kept, came) == IF kept > 0 THEN Doubled(size, came) ELSE size
RoomInRbuf(size, kept, came) == IF kept > 0 THEN Doubled(size, kept + came) ELSE size

DataReceived(k, stale) ==
    LET size == RoomInRbuf(rbufsz, rbuf, k)
        s    == Replies([at |-> received - rbuf + 1, left |-> rbuf + k, keep |-> 0, kept |-> rbuf,
                         ring |-> ring, out |-> out, up |-> TRUE, short |-> FALSE], stale)
    IN  /\ up
        /\ received' = received + k
        /\ rbuf' = s.keep
        /\ rbufsz' = IF s.keep > 0 THEN Doubled(size, k) ELSE size
        /\ ring' = s.ring /\ out' = s.out /\ up' = s.up
        /\ mishaps' = mishaps \cup (IF s.short THEN {"short"} ELSE {})
        /\ UNCHANGED <<kinds, lens, begins, answered>>

(* connection_lost: nobody tells the callbacks in the ring.                *)
ConnectionLost ==
    /\ up
    /\ up' = FALSE
    /\ rbuf' = 0
    /\ UNCHANGED <<kinds, lens, begins, answered, received, rbufsz, ring, out, mishaps>>

MrqNext ==
    \/ Get
    \/ GetSession
    \/ \E len \in ReplySizes : Answered(len)
    \/ Ignored
    \/ \E k \in 1 .. answered - received : \E stale \in StaleBytes(k) : DataReceived(k, stale)
    \/ ConnectionLost

MrqSpec == MrqInit /\ [][MrqNext]_mrqVars

-----------------------------------------------------------------------------
(* However the bytes are cut, a session callback gets the whole of its own *)
(* reply, and the queue the jobs; the k-th reply is handed over k-th.      *)
OwnReplyWhole ==
    mishaps = {} =>
        \A k \in 1 .. Len(out) :
            out[k] = [to |-> IF kinds[k] = "session" THEN k ELSE Nobody, n |-> k, size |-> lens[k]]

(* What is received is handed over or kept: with the last byte of a reply  *)
(* the reply itself has gone out.                                          *)
NothingHeldBack ==
    up /\ mishaps = {} /\ received = answered => rbuf = 0 /\ Len(out) = Len(lens)

(* However the bytes of the replies are cut, all that has come in has been *)
(* handed over, each reply to who asked for it.                            *)
RepliesHandedOver == OwnReplyWhole /\ NothingHeldBack

(* rbuf has room for what it keeps and what is put behind that.            *)
ReceivedFits ==
    [][received' > received /\ rbuf > 0 => rbuf + (received' - received) <= rbufsz']_mrqVars
=============================================================================
