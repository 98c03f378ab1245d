----------------------------- MODULE CookieText -----------------------------
(***************************************************************************)
(* The Cookie header (request.c): all cookies for the handler              *)
(* (parseCookies), and the session's alone before that (getSession).  Cells*)
(* as in module UrlText, the nine letters of the session's name being one. *)
(***************************************************************************)
EXTENDS UrlText

SessionName == <<"mrsession">>
NoSession == 0

(* The common loop.  A name ends at the next "=" or ";", a value at the    *)
(* next ";", behind which a blank is skipped unseen.                       *)
RECURSIVE CookiePieces(_, _, _)
CookiePieces(b, s, stopAtSession) ==
    LET at   == Next1(b, s.at, Len(b), {";", "="})
        text == SubSeq(b, s.from, at - 1)
    IN  IF at > Len(b) THEN s
        ELSE IF s.inValue /\ b[at] = "=" THEN CookiePieces(b, [s EXCEPT !.at = at + 1], stopAtSession)
        ELSE IF s.inValue /\ s.found /\ stopAtSession THEN [s EXCEPT !.session = s.from, !.stopped = TRUE]
        ELSE IF s.inValue
        THEN CookiePieces(b, [s EXCEPT !.cookies = SetArg(@, s.key, text), !.inValue = FALSE,
                                       !.session = IF s.found THEN s.from ELSE @,
                                       !.at = at + 2, !.from = at + 2],
                          stopAtSession)
        ELSE CookiePieces(b, [s EXCEPT !.key = text, !.found = @ \/ text = SessionName, !.inValue = TRUE,
                                       !.at = at + 1, !.from = at + 1],
                          stopAtSession)

CookieStart == [at |-> 1, from |-> 1, inValue |-> FALSE, found |-> FALSE, stopped |-> FALSE,
                key |-> NoKey, cookies |-> <<>>, session |-> NoSession]

ParseCookies(b) ==
    LET s == CookiePieces(b, CookieStart, FALSE)
    IN  IF s.inValue THEN SetArg(s.cookies, s.key, SubSeq(b, s.from, Len(b))) ELSE s.cookies

(* Where the session's value begins.  (Its size is taken from where the    *)
(* scan stopped, which is behind the header for the last cookie.)          *)
GetSession(b) ==
    LET s == CookiePieces(b, CookieStart, TRUE)
    IN  IF s.found /\ ~s.stopped THEN s.from ELSE s.session

-----------------------------------------------------------------------------
(* What was sent: cookies with a name and a value, joined by "; ".         *)
CookieCells(c) == c.name \o (IF c.equals THEN <<"=">> ELSE <<>>) \o c.value

CookieHeader(cs) ==
    FoldLeft(LAMBDA b, c : IF b = <<>> THEN CookieCells(c) ELSE b \o <<";", " ">> \o CookieCells(c), <<>>, cs)

RightCookies(cs) == FoldLeft(LAMBDA args, c : SetArg(args, c.name, c.value), <<>>, cs)

RightSession(cs) ==
    LET i == SelectInSeq(cs, LAMBDA c : c.name = SessionName)
        before == CookieHeader(SubSeq(cs, 1, i - 1))
    IN  IF i = 0 THEN NoSession
        ELSE Len(before) + (IF i = 1 THEN 0 ELSE 2) + Len(SessionName) + 2
=============================================================================
