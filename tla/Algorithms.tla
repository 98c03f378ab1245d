----------------------------- MODULE Algorithms -----------------------------
(***************************************************************************)
(* The functions of the server that compute a result and keep no state,    *)
(* each against what its input means.  WireFormats puts the inputs         *)
(* together and has those of the wire; the other modules extended here are *)
(* the other functions.                                                    *)
(***************************************************************************)
EXTENDS WireFormats, Router, CookieText, SessionKey, Unpack, HtmlText,
        MultipartForm, TimeSince

CONSTANT
    Lasts         (* the random part of a key                                *)

-----------------------------------------------------------------------------
(* A path as text: its segments, without an empty one at the end.          *)
Parts(text) ==
    LET ps == SplitAt([i \in 1 .. Len(text) - 1 |-> <<text[i + 1]>>], "/")
    IN  IF Last(text) = "/" THEN Front(ps) ELSE ps

PartText(part) == [i \in 1 .. Len(part) |-> part[i][1]]

RouteFits(route, text) ==
    LET rs == Parts(route)
        ps == Parts(text)
    IN  Len(rs) = Len(ps) /\ \A j \in 1 .. Len(rs) : rs[j] \in {<<<<h>>>> : h \in Holes} \/ rs[j] = ps[j]

(* A route is an exact one if there is one, else the most specific that    *)
(* fits, and none only if none fits.                                       *)
RightRoute(route, text) ==
    IF text \in ToSet(StaticRoutes) THEN route = text
    ELSE LET fit == {r \in ToSet(SortedRoutes) : RouteFits(r, text)}
         IN  IF fit = {} THEN route = NoRoute ELSE route \in fit /\ \A r \in fit : SortLen(r) <= SortLen(route)

(* Every segment that stands for a hole is an argument, in order.  A "{num}"*)
(* with digits only is a number, and the right one, unless it does not fit *)
(* a long or a digit happens to lie behind it.                             *)
RightPathArgs(route, b, len) ==
    LET text  == SubSeq(b, 1, len)
        parts == Parts(text)
        rs    == Parts(route)
        holes == SelectSeq([j \in 1 .. Len(rs) |-> j], LAMBDA j : rs[j] \in {<<<<h>>>> : h \in Holes})
        args  == PathArgs(route, b, len)
    IN  /\ Len(args) = Len(holes)
        /\ \A k \in 1 .. Len(args) :
              LET v == ArgValue(b, args[k])
                  t == PartText(parts[holes[k]])
              IN  /\ v.text = t
                  /\ (rs[holes[k]] = <<<<"{num}">>>> /\ AllDigits(t)) =>
                        \/ v.kind = "number" /\ v.value = Number(t, Exact)
                        \/ Number(t, Exact) > LongMax
                        \/ DigitBehind(b, args[k].seg)

(* Of a query string, with the buffer b in which it was decoded.           *)
QueryRight(query, b, args) ==
    /\ PlainQuery(query) => args.sound /\ args.args = RightArgs(query)
    /\ FlattenSeq(query) = Chars(query) => args.b = b

(* Of the pieces of a URL, path_decode having left d.                      *)
DecodedRight(pieces, d) ==
    LET path  == Chars(Before(pieces, "?"))
        query == Behind(pieces, "?")
        route == GetRoute(d.b, d.len)
    IN  /\ SubSeq(d.b, 1, d.len) = path
        /\ (d.qs = 0) = (<<"?">> \notin ToSet(pieces))
        /\ d.qs > 0 => SubSeq(d.b, d.len + 2, d.len + d.qs) = FlattenSeq(query)
        /\ RightRoute(route, path)
        /\ route # NoRoute => RightPathArgs(route, d.b, d.len)
        /\ d.qs > 1 => QueryRight(query, d.b, ParseQueryArgs(d.b, d.len + 2, d.len + d.qs))

(* What a handler gets of a URL is what the URL says: the path and the     *)
(* query string up to the first "?", both cut before anything is decoded,  *)
(* the route, the arguments, and those of the query string by name as long *)
(* as each has a "=".  Reading the arguments leaves a query string without *)
(* escapes as it was.  (request.c decodes all of it in place.)             *)
UrlRight ==
    subject = "url" =>
       LET pieces == <<<<"/">>>> \o input
           b      == FlattenSeq(pieces)
       IN  DecodedRight(pieces, PathDecode(b, 1, Len(b)))

(* An escaped text is the text with each special character replaced, also  *)
(* where blocks meet, and whatever an earlier call has left in the static  *)
(* block.                                                                  *)
EscapeRight ==
    subject = "html" =>
       \A c \in Pieces.html :
          escape_html(input, [i \in 1 .. Block |-> c]) =
              [i \in 1 .. Len(input) |-> IF input[i] \in DOMAIN Name THEN Name[input[i]] ELSE input[i]]

(* "... ago" has the whole number of the largest unit that is shorter than *)
(* the time, and all of the unit's name.  One byte is in front of it, and  *)
(* that is a blank if the number has one digit.                            *)
SinceRight ==
    \A i \in 1 .. Len(input) : subject = "since" =>
       LET diff    == input[i]
           shorter == {u \in {Hour, Month, Year} : u < diff} \cup {u \in {Day} : u <= diff}
           unit    == IF shorter = {} THEN Minute ELSE Max(shorter)
           ds      == DigitsOf(diff \div unit, 10)
           number  == IF ds = <<>> THEN <<0>> ELSE ds
           t       == timesince(diff)
       IN  /\ Tail(t) = number \o <<"blank">> \o [k \in 1 .. NameLength[unit] |-> <<unit, k>>]
           /\ Len(number) = 1 => Head(t) = "blank"

(* Every cookie with a name and a value reaches the handler, "=" in values *)
(* included, the last of a name winning; and the session's key starts where*)
(* the first cookie of that name has its value.                            *)
CookiesRight ==
    (subject = "cookies" /\ input # <<>> /\ \A i \in 1 .. Len(input) : input[i].equals) =>
       LET b == CookieHeader(input)
       IN  ParseCookies(b) = RightCookies(input) /\ GetSession(b) = RightSession(input)

(* Text changes its form as it comes in and as it goes out, and nothing    *)
(* else: what a URL and the cookies say, and what a page shows.            *)
TextRight == UrlRight /\ CookiesRight /\ EscapeRight /\ SinceRight

(* The work queue finds the user at the head of the session's key that     *)
(* app.py has put there, unless five bits in a row are zero: to64 has no   *)
(* character for 0.  A session is asked for in the slot it was stored in,  *)
(* and no slot is outside of its map.  And from64 undoes to64.             *)
SessionKeyRight ==
    subject = "key" => \A i \in 1 .. Len(input), last \in Lasts, c \in {0, 33, 63} :
       LET id  == input[i]
           key == SessionKeyOf(id, last, [k \in 1 .. KeyLength |-> c])
       IN  /\ from64(to64(id)) = id % WordSize
           /\ Len(key) = KeyLength
           /\ (id # 0 /\ 0 \notin ToSet(DigitsOf(id, GroupBits))) => UserIdOf(key) = id % WordSize
           /\ SetSlot(key) = GetSlot(key) /\ GetSlot(key) \in 0 .. 4095
           /\ SessionSlot(key) \in 0 .. 255

(* A handler reads form, file and files as they were sent, whatever it     *)
(* reads first, unless a part's content ends in "\r", which hides the      *)
(* boundary; or the form has files only and is asked for, beside another   *)
(* read: each that finds no fields takes the files once more.              *)
FormRight ==
    (subject = "form" /\ input # <<>> /\ \A i \in 1 .. Len(input) : ~Last(input[i].text).odd) =>
       LET lines == FormBody(input)
           right == RightForm(input)
           filesOnly == right.form = {}
       IN  \A first, second \in DOMAIN Fresh :
              LET r == ReadForm(lines, Fresh, first)
                  s == ReadForm(lines, r, second)
              IN  /\ r = right
                  /\ ~(filesOnly /\ second = "form") => s = right

(* mrpacker's bytes are read as the object they stand for, if no wide list *)
(* is empty, each key has a hash and nothing is nested too deep.  If not   *)
(* all of them have come in there is no object, or the last text or number *)
(* was read behind the end.  A byte in it that begins nothing is an error. *)
UnpackRight ==
    (subject = "object" /\ input # <<>>) =>
       LET all == FoldLeft(LAMBDA n, h : n + Bytes(h), 0, input)
           right == Parse(input)
           known == Parse([i \in DOMAIN input |-> IF input[i].kind = "unknown" THEN None ELSE input[i]])
           among == 1 .. Len(input) - Len(known.rest)
       IN  \A cut \in {0, 1, 2} :
              LET s == Decode(input, all - cut)
              IN  /\ (right.plain /\ right.depth <= MaxDepth /\ cut = 0) => s.o = right.o
                  /\ (right.plain /\ s.o \notin {Nothing, Failure} /\ ~s.short) => s.o = right.o
                  /\ (right.plain /\ right.depth > MaxDepth /\ cut = 0) => s.o = Failure
                  /\ (known.plain /\ (\E i \in among : input[i].kind = "unknown") /\ cut = 0) => s.o = Failure
=============================================================================
