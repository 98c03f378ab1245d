------------------------------- MODULE Unpack -------------------------------
(***************************************************************************)
(* decode of utils/unpack.c, which makes an object of mrpacker's bytes: the*)
(* body of a request, the session of a user.  The bytes are given as heads *)
(* in their order, each with the bytes it takes:                           *)
(*    kind "atom":  none, a Boolean, a number or a text of `size' bytes    *)
(*    kind "list", "dict": of `size' members, in one byte, or wide in five *)
(*    kind "unknown": a byte that begins nothing                           *)
(* and l of them have come in.                                             *)
(***************************************************************************)
EXTENDS UrlText

CONSTANT MaxDepth     (* MAX_DEPTH, 64                                      *)

ASSUME UnpackAssumption == MaxDepth \in Nat

None == [kind |-> "atom", size |-> 0, wide |-> FALSE]

Bytes(h) == IF h.kind = "atom" THEN 1 + h.size ELSE IF h.wide THEN 5 ELSE 1

(* An object: what it is, and its members.                                 *)
Atom(h) == <<"atom", h.size>>
Nothing == <<"nothing">>
Failure == <<"failure">>      (* of SetErrorInt, or "Parser error"           *)
Hashable(o) == o[1] = "atom"

(* A wide list is opened even if it has no members, and then never full.   *)
Opens(h) == h.kind # "atom" /\ (h.size > 0 \/ (h.kind = "list" /\ h.wide))
Opened(h) == [kind |-> h.kind, curlen |-> 0, maxlen |-> h.size, items |-> <<>>, key |-> Nothing]
Object(h) == IF h.kind = "atom" THEN Atom(h) ELSE <<h.kind, <<>>>>

(* The object goes into the innermost parent; one that is full by that is  *)
(* an object of the next.  PyDict_SetItem refuses a key that has no hash.  *)
FullTooSoon(p) == p.curlen + 1 >= p.maxlen
Full(p) == p.curlen = p.maxlen

RECURSIVE Put(_, _)
Put(parents, o) ==
    LET p    == Last(parents)
        with == IF p.kind = "list" THEN [p EXCEPT !.items = IF p.curlen < p.maxlen THEN Append(@, o) ELSE @, !.curlen = @ + 1]
                ELSE IF p.key = Nothing THEN [p EXCEPT !.key = o]
                ELSE [p EXCEPT !.items = IF Hashable(p.key) THEN SetArg(@, p.key, o) ELSE @,
                               !.key = Nothing, !.curlen = @ + 1]
    IN  IF parents = <<>> THEN [parents |-> <<>>, o |-> o]
        ELSE IF Full(with) /\ with.key = Nothing THEN Put(Front(parents), <<with.kind, with.items>>)
        ELSE [parents |-> Front(parents) \o <<with>>, o |-> Nothing]

(* One turn of the loop.  Only where an object starts is compared with the *)
(* end: short says that bytes of it had not come in.                       *)
Turn(s, h, l) ==
    LET put == Put(s.parents, Object(h))
        on  == [s EXCEPT !.at = @ + Bytes(h), !.short = @ \/ s.at + Bytes(h) > l]
    IN  IF s.o # Nothing \/ s.at >= l THEN s
        ELSE IF h.kind = "unknown" THEN [s EXCEPT !.o = Failure]
        ELSE IF ~Opens(h) THEN [on EXCEPT !.parents = put.parents, !.o = put.o]
        ELSE IF Len(s.parents) = MaxDepth THEN [on EXCEPT !.o = Failure]
        ELSE [on EXCEPT !.parents = Append(@, Opened(h))]

Decode(heads, l) ==
    FoldLeft(LAMBDA s, h : Turn(s, h, l), [at |-> 0, parents |-> <<>>, o |-> Nothing, short |-> FALSE], heads)

-----------------------------------------------------------------------------
(* What the heads say, read as a grammar: an object, then what follows.    *)
RECURSIVE Parse(_), ParseMembers(_, _)
Parse(heads) ==
    LET h == Head(heads)
        m == ParseMembers(Tail(heads), IF h.kind = "dict" THEN 2 * h.size ELSE h.size)
        pairs == [i \in 1 .. h.size |-> <<m.os[2 * i - 1], m.os[2 * i]>>]
    IN  IF heads = <<>> \/ h.kind = "unknown" THEN [o |-> Nothing, rest |-> <<>>, depth |-> 0, plain |-> FALSE]
        ELSE IF h.kind = "atom" THEN [o |-> Atom(h), rest |-> Tail(heads), depth |-> 0, plain |-> TRUE]
        ELSE IF ~m.plain \/ (h.kind = "dict" /\ \E i \in 1 .. h.size : ~Hashable(pairs[i][1]))
        THEN [o |-> Nothing, rest |-> <<>>, depth |-> m.depth, plain |-> FALSE]
        ELSE [o |-> IF h.kind = "list" THEN <<"list", m.os>>
                    ELSE <<"dict", FoldLeft(LAMBDA d, p : SetArg(d, p[1], p[2]), <<>>, pairs)>>,
              rest |-> m.rest, depth |-> IF h.size = 0 THEN 0 ELSE m.depth + 1,
              plain |-> h.kind # "list" \/ h.size > 0 \/ ~h.wide]

ParseMembers(heads, n) ==
    LET first == Parse(heads)
        others == ParseMembers(first.rest, n - 1)
    IN  IF n = 0 THEN [os |-> <<>>, rest |-> heads, depth |-> 0, plain |-> TRUE]
        ELSE IF ~first.plain THEN [os |-> <<>>, rest |-> <<>>, depth |-> first.depth, plain |-> FALSE]
        ELSE [os |-> <<first.o>> \o others.os, rest |-> others.rest,
              depth |-> IF first.depth > others.depth THEN first.depth ELSE others.depth,
              plain |-> others.plain]
=============================================================================
