--------------------------- MODULE MultipartForm ----------------------------
(***************************************************************************)
(* A body of type multipart/form-data (Request_parse_mp_form), and what    *)
(* request.py makes of it: form, file and files are filled by the first    *)
(* read that finds its own one empty.  A body is given as its lines:       *)
(*    "boundary", "last"          between the parts, and behind them       *)
(*    "disposition", "type"       header fields of a part                  *)
(*    ""                          ends the header fields                   *)
(*    "text"                      of the content, odd if it ends in "\r"   *)
(***************************************************************************)
EXTENDS Sequences, SequencesExt

NoName == <<>>

Line(kind) == [kind |-> kind, name |-> NoName, filename |-> NoName, odd |-> FALSE]

(* The scan goes from one "\r" to the byte behind the next, which is not   *)
(* the next line if there were two of them: that one is not looked at.     *)
NextLine(lines, i) == IF lines[i].kind = "text" /\ lines[i].odd THEN i + 2 ELSE i + 1

NoPart == [name |-> NoName, filename |-> NoName, type |-> "text/plain", body |-> 0]

(* A part ends where a boundary comes: its lines are those since its blank *)
(* one.                                                                    *)
SetField(form, name, text) == {f \in form : f[1] # name} \cup {<<name, text>>}

AddPart(r, part, text) ==
    LET file == <<part.filename, part.type, text>>
    IN  IF part.body = 0 THEN r
        ELSE IF part.filename = NoName THEN [r EXCEPT !.form = SetField(@, part.name, text)]
        ELSE [r EXCEPT !.file = IF @ = <<>> THEN file ELSE @, !.files = Append(@, file)]

RECURSIVE FormLines(_, _, _, _, _)
FormLines(lines, i, inHeader, part, r) ==
    LET line == lines[i]
        text == SubSeq(lines, part.body, i - 1)
        GoOn(h, p, q) == FormLines(lines, NextLine(lines, i), h, p, q)
    IN  IF i > Len(lines) THEN r
        ELSE IF ~inHeader /\ line.kind = "last" THEN AddPart(r, part, text)
        ELSE IF ~inHeader /\ line.kind = "boundary"
        THEN GoOn(TRUE, IF part.body = 0 THEN part ELSE NoPart, AddPart(r, part, text))
        ELSE IF inHeader /\ line.kind = "disposition"
        THEN GoOn(TRUE, [part EXCEPT !.name = line.name, !.filename = line.filename], r)
        ELSE IF inHeader /\ line.kind = "type" THEN GoOn(TRUE, [part EXCEPT !.type = "own"], r)
        ELSE IF inHeader /\ line.kind = "" THEN GoOn(FALSE, [part EXCEPT !.body = i + 1], r)
        ELSE GoOn(inHeader, part, r)

ParseMpForm(lines, r) == FormLines(lines, 1, FALSE, NoPart, r)

(* The properties form, file and files of a Request, None being empty.     *)
Fresh == [form |-> {}, file |-> <<>>, files |-> <<>>]
ParsesAgain(r, what) == TRUE
Parses(r, what) == r[what] = Fresh[what]

ReadForm(lines, r, what) == IF Parses(r, what) THEN ParseMpForm(lines, r) ELSE r

-----------------------------------------------------------------------------
(* What was sent.                                                          *)
PartLines(part) ==
    <<Line("boundary"), [Line("disposition") EXCEPT !.name = part.name, !.filename = part.filename]>>
    \o (IF part.typed THEN <<Line("type")>> ELSE <<>>) \o <<Line("")>> \o part.text

FormBody(parts) == FlattenSeq([i \in 1 .. Len(parts) |-> PartLines(parts[i])]) \o <<Line("last")>>

IsFile(part) == part.filename # NoName

RightForm(parts) ==
    LET fields == SelectSeq(parts, LAMBDA p : ~IsFile(p))
        sent   == SelectSeq(parts, IsFile)
        files  == [i \in 1 .. Len(sent) |->
                      <<sent[i].filename, IF sent[i].typed THEN "own" ELSE "text/plain", sent[i].text>>]
    IN  [form  |-> FoldLeft(LAMBDA f, p : SetField(f, p.name, p.text), {}, fields),
         file  |-> IF files = <<>> THEN <<>> ELSE files[1],
         files |-> files]
=============================================================================
