------------------------------ MODULE UrlText ------------------------------
(***************************************************************************)
(* The text of a URL, as request.c takes it apart in the receive buffer    *)
(* and in place: path and query string (path_decode), and the arguments of *)
(* a query string or of a form (parse_query_args).  A text is a sequence   *)
(* of cells, one for each byte; a character may be written as "%" and two  *)
(* hexadecimal digits.  (In the code anything may follow a "%".)           *)
(***************************************************************************)
EXTENDS Integers, Sequences, SequencesExt, TLC

HexOf == ("a" :> <<"6", "1">>) @@ ("1" :> <<"3", "1">>) @@ ("/" :> <<"2", "F">>) @@ ("&" :> <<"2", "6">>)
CharOf(high, low) == CHOOSE c \in DOMAIN HexOf : HexOf[c] = <<high, low>>
Escape(c) == <<"%">> \o HexOf[c]

(* The scan for any of the bytes chars: its first place in from .. to, or  *)
(* the place behind.                                                       *)
Next1(b, from, to, chars) == Min({i \in from .. to : b[i] \in chars} \cup {to + 1})

(* memcpy within the buffer, n bytes down to where they do not overlap     *)
(* what is still to come.                                                  *)
Moved(b, to, from, n) ==
    [i \in 1 .. Len(b) |-> IF i \in to .. to + n - 1 THEN b[from + i - to] ELSE b[i]]

(* path_decode of the bytes first .. last: the buffer, the number of bytes *)
(* the path now has, and of those of the query string with its "?".  What  *)
(* is behind the first escape moves down.                                  *)
RECURSIVE Unescape(_, _)
Unescape(s, last) ==
    LET at     == Next1(s.b, s.at, last, {"%", "?"})
        moved  == IF s.to = 0 THEN s.b ELSE Moved(s.b, s.to, s.from, at - s.from)
        to     == IF s.to = 0 THEN at ELSE s.to + at - s.from
    IN  IF at > last THEN s
        ELSE IF s.b[at] = "?" THEN [s EXCEPT !.len = @ - (last + 1 - at), !.qs = last + 1 - at]
        ELSE Unescape([s EXCEPT !.b = [moved EXCEPT ![to] = CharOf(s.b[at + 1], s.b[at + 2])],
                                !.at = at + 3, !.from = at + 3, !.to = to + 1, !.len = @ - 2],
                      last)

PathDecode(b, first, last) ==
    LET s == Unescape([b |-> b, at |-> first, from |-> first, to |-> 0, len |-> last + 1 - first, qs |-> 0], last)
    IN  [b   |-> IF s.to = 0 THEN s.b ELSE Moved(s.b, s.to, s.from, last + 1 - s.from),
         len |-> s.len, qs |-> s.qs]

(* A key or a value: it is decoded in the buffer too.                      *)
Decoded(b, first, last) ==
    LET d == PathDecode(b, first, last)
    IN  [b |-> d.b, text |-> SubSeq(d.b, first, first + d.len - 1)]

-----------------------------------------------------------------------------
(* parse_query_args of the bytes at .. last, of which there is at least    *)
(* one.  (Of none it returns without a value.)                             *)
NoKey == <<"no key">>

SetArg(args, key, value) == [k \in DOMAIN args \cup {key} |-> IF k = key THEN value ELSE args[k]]

TakesKeyLast(s) == TRUE
TakesKey(s) == ~s.inValue

(* One turn, for a mark at `at'.                                          *)
AtMark(s, at) ==
    LET d == Decoded(s.b, s.from, at - 1)
        behind == [s EXCEPT !.at = at + 1, !.from = at + 1, !.b = d.b]
    IN  CASE s.b[at] = "=" /\ TakesKey(s) -> [behind EXCEPT !.key = d.text, !.inValue = TRUE]
          [] s.b[at] = "&" /\ s.inValue   -> [behind EXCEPT !.args = SetArg(@, s.key, d.text), !.inValue = FALSE]
          [] OTHER                         -> [s EXCEPT !.at = at + 1]

RECURSIVE QueryPieces(_, _)
QueryPieces(s, last) ==
    LET at == Next1(s.b, s.at, last, {"&", "="})
    IN  IF at > last THEN s ELSE QueryPieces(AtMark(s, at), last)

(* What is left in the end is a value, of the last key: there may be none, *)
(* or it has got its value and has been given away.                        *)
ParseQueryArgs(b, first, last) ==
    LET s == QueryPieces([b |-> b, at |-> first, from |-> first, key |-> NoKey, inValue |-> FALSE, args |-> <<>>], last)
        d == Decoded(s.b, s.from, last)
    IN  [b |-> d.b, args |-> SetArg(s.args, s.key, d.text), sound |-> s.inValue]

-----------------------------------------------------------------------------
(* What a reader of RFC 3986 makes of it.  A text is given as its pieces:  *)
(* characters, and escapes.                                                *)
Chars(pieces) == [i \in 1 .. Len(pieces) |-> IF Len(pieces[i]) = 1 THEN pieces[i][1] ELSE CharOf(pieces[i][2], pieces[i][3])]

IndexOf(pieces, c) ==
    LET at == SelectInSeq(pieces, LAMBDA p : p = <<c>>) IN IF at = 0 THEN Len(pieces) + 1 ELSE at

Before(pieces, c) == SubSeq(pieces, 1, IndexOf(pieces, c) - 1)
Behind(pieces, c) == SubSeq(pieces, IndexOf(pieces, c) + 1, Len(pieces))

RECURSIVE SplitAt(_, _)
SplitAt(pieces, c) ==
    IF <<c>> \notin ToSet(pieces) THEN <<pieces>>
    ELSE <<Before(pieces, c)>> \o SplitAt(Behind(pieces, c), c)

RightArgs(pieces) ==
    FoldLeft(LAMBDA args, p : SetArg(args, Chars(Before(p, "=")), Chars(Behind(p, "="))),
             <<>>, SplitAt(pieces, "&"))

(* Every piece has a "=", and none a "?", at which values end too.         *)
PlainQuery(pieces) ==
    /\ \A p \in ToSet(SplitAt(pieces, "&")) : <<"=">> \in ToSet(p)
    /\ <<"?">> \notin ToSet(pieces)
=============================================================================
