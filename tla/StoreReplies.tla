---------------------------- MODULE StoreReplies ----------------------------
(***************************************************************************)
(* How the clients of the session stores take the bytes that come in at    *)
(* once apart into replies (data_received of memprotocol.c and             *)
(* mrcacheprotocol.c).  A reply is known by the bytes of the session, or   *)
(* Missing.  The bytes are those of some replies, the last cut bytes short.*)
(***************************************************************************)
EXTENDS Powers

Missing == -1

(* What a callback gets, or how it goes wrong: whole says whether the      *)
(* bytes handed over had come in.                                          *)
Callback(size, whole) == [kind |-> "callback", size |-> size, whole |-> whole]
Exit == [kind |-> "exit", size |-> 0, whole |-> TRUE]
PastTheEnd == [kind |-> "past the end", size |-> 0, whole |-> FALSE]

(* The loop: p bytes are read, left is what mrcache's takes to be left, out*)
(* what came of it.  It is a do ... while.                                 *)
Begin(l) == [p |-> 0, left |-> l, out |-> <<>>, going |-> TRUE]
GoesOn(s, l) == s.going /\ (s.p = 0 \/ s.p < l)

Hands(s, size, whole, bytes) ==
    [s EXCEPT !.p = @ + bytes, !.out = Append(@, Callback(size, whole))]
Stops(s, how) == [s EXCEPT !.out = Append(@, how), !.going = FALSE]

-----------------------------------------------------------------------------
(* memcached: "END" and two bytes; or a line with a key of 32, the number  *)
(* of bytes, the bytes, and seven more.                                    *)
MemHeader(size) == 50 + NumLength(size) + 2
MemLength(size) == IF size = Missing THEN 5 ELSE MemHeader(size) + size + 7

(* The size is compared with all that came in.                             *)
MemPartialNever(l, size) == FALSE
MemPartial(l, size) == l < 60 + size

MemReply(s, size, l) ==
    IF size = Missing THEN Hands(s, 0, TRUE, 5)
    ELSE IF s.p + MemHeader(size) > l THEN Stops(s, PastTheEnd)
    ELSE IF MemPartial(l, size) THEN Stops(s, Exit)
    ELSE Hands(s, size, s.p + MemHeader(size) + size <= l, MemLength(size))

MemBytes(replies) ==
    LET upto[i \in 0 .. Len(replies)] == IF i = 0 THEN 0 ELSE upto[i - 1] + MemLength(replies[i])
    IN  upto[Len(replies)]

MemTurn(s, size, l) == IF GoesOn(s, l) THEN MemReply(s, size, l) ELSE s

Memcached(replies, cut) ==
    LET l == MemBytes(replies) - cut
        after[i \in 0 .. Len(replies)] == IF i = 0 THEN Begin(l) ELSE MemTurn(after[i - 1], replies[i], l)
    IN  after[Len(replies)].out

-----------------------------------------------------------------------------
(* mrcache: four bytes with the size, then the bytes; 0 is a miss, which   *)
(* is not taken off what is left.                                          *)
CacheLength(size) == IF size = Missing THEN 4 ELSE 4 + size

CacheReply(s, size, l) ==
    IF s.left < 4 THEN Stops(s, Exit)
    ELSE IF s.p + 4 > l THEN Stops(s, PastTheEnd)
    ELSE IF size \in {Missing, 0} THEN Hands(s, 0, TRUE, 4)
    ELSE IF s.left - 4 < size THEN Stops(s, Exit)
    ELSE Hands([s EXCEPT !.left = @ - (4 + size)], size, s.p + 4 + size <= l, 4 + size)

CacheBytes(replies) ==
    LET upto[i \in 0 .. Len(replies)] == IF i = 0 THEN 0 ELSE upto[i - 1] + CacheLength(replies[i])
    IN  upto[Len(replies)]

CacheTurn(s, size, l) == IF GoesOn(s, l) THEN CacheReply(s, size, l) ELSE s

Mrcache(replies, cut) ==
    LET l == CacheBytes(replies) - cut
        after[i \in 0 .. Len(replies)] == IF i = 0 THEN Begin(l) ELSE CacheTurn(after[i - 1], replies[i], l)
    IN  after[Len(replies)].out

-----------------------------------------------------------------------------
(* What should come of replies that are not cut.                           *)
RightCallbacks(replies) ==
    [i \in 1 .. Len(replies) |-> Callback(IF replies[i] = Missing THEN 0 ELSE replies[i], TRUE)]

Whole(results) == \A i \in 1 .. Len(results) : results[i].whole
=============================================================================
