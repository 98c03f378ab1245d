------------------------------ MODULE HtmlText ------------------------------
(***************************************************************************)
(* mrhttp.escape (utils.c): "<", ">", "&" and the quote of a text become   *)
(* the names HTML has for them.  The text is searched a block of 16 bytes  *)
(* at a time; what is left in the end is copied to a static block first,   *)
(* over what earlier calls left there.                                     *)
(***************************************************************************)
EXTENDS Integers, Sequences, SequencesExt

CONSTANT Block       (* 16                                                   *)

ASSUME HtmlAssumption == Block \in Nat \ {0}

Quote == "quote"
Specials == <<"<", "&", ">", Quote>>     (* in the order they are tested     *)
Name == [c \in ToSet(Specials) |->
            CASE c = "<" -> "&lt;" [] c = "&" -> "&amp;" [] c = ">" -> "&gt;" [] c = Quote -> "&quot;"]

FirstSpecial(cells) == SelectInSeq(cells, LAMBDA c : c \in ToSet(Specials))

(* A special character in the block counts only if it is one of the copied *)
(* bytes: behind them are those of an earlier call.                        *)
InTail(r, left) == r # 0 /\ r <= left

(* findchar: where the next one is, else the end; and the static block.    *)
findchar(t, p, sbuf) ==
    LET whole == ((Len(t) - p + 1) \div Block) * Block
        tail  == SubSeq(t, p + whole, Len(t))
        inBlocks == FirstSpecial(SubSeq(t, p, p + whole - 1))
        left  == Len(tail)
        copy  == [i \in 1 .. Block |-> IF i <= left THEN tail[i] ELSE sbuf[i]]
        r     == FirstSpecial(copy)
    IN  CASE inBlocks # 0 -> [at |-> p + inBlocks - 1, found |-> TRUE, sbuf |-> sbuf]
          [] inBlocks = 0 /\ left # 0 /\ InTail(r, left) ->
                 [at |-> p + whole + r - 1, found |-> TRUE, sbuf |-> copy]
          [] inBlocks = 0 /\ left # 0 /\ ~InTail(r, left) ->
                 [at |-> Len(t) + 1, found |-> FALSE, sbuf |-> copy]
          [] inBlocks = 0 /\ left = 0 -> [at |-> Len(t) + 1, found |-> FALSE, sbuf |-> sbuf]

(* The four tests follow each other: after one that holds the next is of   *)
(* the next byte (behind the text a zero).                                 *)
Replaced(t, s) ==
    LET test(a, c) ==
            IF a.p <= Len(t) /\ t[a.p] = c
            THEN [a EXCEPT !.o = @ \o SubSeq(t, a.last, a.p - 1) \o <<Name[c]>>,
                           !.p = @ + 1, !.last = a.p + 1]
            ELSE a
    IN  FoldLeft(test, s, Specials)

RECURSIVE EscapeFrom(_, _)
EscapeFrom(t, s) ==
    IF s.p > Len(t) THEN s
    ELSE LET f == findchar(t, s.p, s.sbuf)
             a == [s EXCEPT !.p = f.at, !.sbuf = f.sbuf]
         IN  EscapeFrom(t, IF f.found THEN Replaced(t, a) ELSE a)

(* escape_html: a text with nothing to replace is returned as it is.       *)
escape_html(t, sbuf) ==
    LET s == EscapeFrom(t, [p |-> 1, last |-> 1, o |-> <<>>, sbuf |-> sbuf])
    IN  IF s.o = <<>> THEN t ELSE s.o \o SubSeq(t, s.last, Len(t))
=============================================================================
