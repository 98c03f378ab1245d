------------------------------- MODULE Router -------------------------------
(***************************************************************************)
(* The routes of an application (router.py, router.c): those without       *)
(* arguments are compared as a whole, the others segment by segment, those *)
(* with more letters of their own first.  And the arguments a handler gets *)
(* of the path (protocol.c).  A route is a text as in module UrlText, with *)
(* the cells "{}" and "{num}".                                             *)
(***************************************************************************)
EXTENDS UrlText, FiniteSets

CONSTANTS
    Routes,      (* the routes, in the order they were added                 *)
    NumDigits,   (* digits of a number that are too many for a long, 20      *)
    LongMax      (* the largest long, 2^63 - 1                               *)

ASSUME RouterAssumption == NumDigits \in Nat /\ LongMax \in Nat

Holes == {"{}", "{num}"}
HasHole(route) == ToSet(route) \cap Holes # {}

(* add_route: sortlen counts what is not a hole.                           *)
SortLen(route) == Len(SelectSeq(route, LAMBDA c : c \notin Holes))

StaticRoutes == SelectSeq(Routes, LAMBDA r : ~HasHole(r))

(* finalize_routes, a stable sort.                                         *)
Place(route) == CHOOSE i \in 1 .. Len(Routes) : Routes[i] = route
SortedRoutes ==
    SortSeq(SelectSeq(Routes, HasHole),
            LAMBDA r, s : SortLen(r) > SortLen(s) \/ (SortLen(r) = SortLen(s) /\ Place(r) < Place(s)))

(* numInString of "/", without one at the end.                             *)
NumSegs(b, len) ==
    Cardinality({i \in 1 .. len : b[i] = "/"}) - IF b[len] = "/" THEN 1 ELSE 0

(* The segments of a route, found by Router_setupRoutes, and those of a    *)
(* path, which router_getRoute walks in the same way: place and length.    *)
RECURSIVE SegmentsFrom(_, _, _, _)
SegmentsFrom(b, at, left, n) ==
    LET slash == Next1(b, at, at + left - 1, {"/"})
        len   == slash - at
    IN  IF n = 0 THEN <<>>
        ELSE <<[at |-> at, len |-> len]>> \o SegmentsFrom(b, slash + 1, left - (len + 1), n - 1)

Segments(b, len) == SegmentsFrom(b, 2, len - 1, NumSegs(b, len))

Cells(b, seg) == SubSeq(b, seg.at, seg.at + seg.len - 1)

(* router_getRoute of the decoded path, the first len bytes of b.          *)
SameLength(routeSegs, pathSegs) == Len(routeSegs) = Len(pathSegs)

Matches(route, b, len) ==
    LET rs == Segments(route, Len(route))
        ps == Segments(b, len)
    IN  /\ SameLength(rs, ps)
        /\ \A j \in 1 .. Len(ps) : route[rs[j].at] \in Holes \/ Cells(route, rs[j]) = Cells(b, ps[j])

NoRoute == <<>>

FirstOf(routes, Test(_)) ==
    LET i == SelectInSeq(routes, Test) IN IF i = 0 THEN NoRoute ELSE routes[i]

GetRoute(b, len) ==
    LET static == FirstOf(StaticRoutes, LAMBDA r : r = SubSeq(b, 1, len))
    IN  IF static # NoRoute THEN static ELSE FirstOf(SortedRoutes, LAMBDA r : Matches(r, b, len))

(* Request.args, argLens and argTypes.                                     *)
PathArgs(route, b, len) ==
    LET rs == Segments(route, Len(route))
        ps == Segments(b, len)
        holes == SelectSeq([j \in 1 .. Len(rs) |-> j], LAMBDA j : route[rs[j].at] \in Holes)
    IN  IF ~HasHole(route) THEN <<>>
        ELSE [k \in 1 .. Len(holes) |->
                 [seg |-> ps[holes[k]], num |-> route[rs[holes[k]].at] = "{num}"]]

-----------------------------------------------------------------------------
(* protocol_callPageHandler.  A number of fewer than NumDigits digits is   *)
(* added up in a long, where the byte behind it must not be a digit; a     *)
(* longer one is left to Python.  What is no number stays a text, or with  *)
(* that many bytes fails.                                                  *)
Digits == ("1" :> 1) @@ ("2" :> 2) @@ ("3" :> 3) @@ ("6" :> 6)
AllDigits(cells) == ToSet(cells) \subseteq DOMAIN Digits
DigitBehind(b, seg) == seg.at + seg.len <= Len(b) /\ b[seg.at + seg.len] \in DOMAIN Digits

AsLong(n) == ((n + LongMax + 1) % (2 * (LongMax + 1))) - (LongMax + 1)
InLong(l, d) == AsLong(l * 10 + d)
Exact(l, d) == l * 10 + d
Number(cells, AddDigit(_, _)) == FoldLeft(LAMBDA l, c : AddDigit(l, Digits[c]), 0, cells)

ArgValue(b, arg) ==
    LET cells == Cells(b, arg.seg)
        short == arg.seg.len < NumDigits
    IN  IF arg.num /\ AllDigits(cells) /\ ~(short /\ DigitBehind(b, arg.seg))
        THEN [kind |-> "number", value |-> IF short THEN Number(cells, InLong) ELSE Number(cells, Exact), text |-> cells]
        ELSE [kind |-> IF arg.num /\ ~short THEN "failure" ELSE "text", value |-> 0, text |-> cells]
=============================================================================
