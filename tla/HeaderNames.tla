---------------------------- MODULE HeaderNames ----------------------------
(***************************************************************************)
(* How the parser recognises the headers it needs (parser.c): fast_compare *)
(* (faststrcmp.h) compares a text with a constant, up to eight bytes one   *)
(* by one, longer ones in vectors that may overlap.                        *)
(*                                                                         *)
(* A text is known by its length and by where it is not the constant it is *)
(* compared with: diffs is a set of [at, by], by "case" where a letter has *)
(* the other case, by "byte" where the bytes are different ones.           *)
(***************************************************************************)
EXTENDS Powers

(* lct makes small letters of capital ones, so the case alone is no        *)
(* difference.                                                             *)
Lowered(diff) == diff.by # "case"

(* The vectors do the same with the four constants of __C; but nothing     *)
(* sets them, and with zeros for them no byte is changed.                  *)
VectorsSet == FALSE
VectorLowered(diff) == IF VectorsSet THEN Lowered(diff) ELSE TRUE

(* The offsets that are compared.                                          *)
Load(at, width) == at .. at + width - 1

stricmp_avx2_2lc(i) == Load(i, 32)
stricmp_avx2_2lc_64(i) == Load(i, 32) \cup Load(i + 32, 32)
stricmp_avx2_2lc_128(i) == UNION {Load(i + 32 * k, 32) : k \in 0 .. 3}

(* The rest, of 8 to 31 bytes: the first and the last of it.               *)
stricmp_avx2_2lc_tail(i, len) ==
    IF len >= 16 THEN Load(i, 16) \cup Load(i + len - 16, 8) \cup Load(i + len - 8, 8)
    ELSE Load(i, 8) \cup Load(i + len - 8, 8)

(* Less than a tail is left: it is moved to the left, over bytes that have *)
(* been compared.                                                          *)
TailFromRest(i, len) == stricmp_avx2_2lc_tail(i, 8)
TailOf(i, len) == IF len < 8 THEN stricmp_avx2_2lc_tail(i - (8 - len), 8)
                  ELSE stricmp_avx2_2lc_tail(i, len)

Vectors(len) ==
    IF len < 32 THEN stricmp_avx2_2lc_tail(0, len)
    ELSE LET i1 == 128 * (len \div 128)
             i2 == IF i1 + 64 <= len THEN i1 + 64 ELSE i1
             i3 == IF i2 + 32 <= len THEN i2 + 32 ELSE i2
         IN  (UNION {stricmp_avx2_2lc_128(128 * k) : k \in 0 .. len \div 128 - 1})
             \cup (IF i2 > i1 THEN stricmp_avx2_2lc_64(i1) ELSE {})
             \cup (IF i3 > i2 THEN stricmp_avx2_2lc(i2) ELSE {})
             \cup (IF i3 = len THEN {} ELSE TailOf(i3, len - i3))

(* fast_compare: TRUE if the text is not the constant.                     *)
fast_compare(len, diffs) ==
    IF len <= 8 THEN \E d \in diffs : Lowered(d)
    ELSE \E d \in diffs : d.at \in Vectors(len) /\ VectorLowered(d)

-----------------------------------------------------------------------------
WordLength == [w \in {"Content-Type", "Content-Length", "Connection", "close"} |->
              CASE w = "Content-Type" -> 12 [] w = "Content-Length" -> 14
                [] w = "Connection" -> 10 [] w = "close" -> 5]

(* name_compare and value_compare: the lengths are equal, then the bytes.  *)
Compares(text, word) == text.word = word /\ ~fast_compare(WordLength[word], text.diffs)

(* my_strtol: what the digits at the front of a value say, 0 if there are  *)
(* none.  A value is [digits, junk], with or without more behind them.     *)
my_strtol(value) == NumberOf(value.digits)

NotANumber(value) == my_strtol(value) = 0 /\ (value.digits # <<0>> \/ value.junk)

(* A header is [name, value].  "application/mrpacker" is known by its      *)
(* length and its first byte.                                              *)
ReadHeader(request, h) ==
    LET r == IF Compares(h.name, "Content-Type") /\ h.value.first = "a" /\ h.value.len = 20
             THEN [request EXCEPT !.flags = 2] ELSE request
    IN  CASE request.error -> request
          [] ~request.error /\ Compares(h.name, "Content-Length") ->
                 [r EXCEPT !.body_length = my_strtol(h.value), !.error = NotANumber(h.value)]
          [] ~request.error /\ ~Compares(h.name, "Content-Length")
                 /\ Compares(h.name, "Connection") /\ Compares(h.value, "close") ->
                 [r EXCEPT !.keep_alive = FALSE]
          [] OTHER -> r

(* The loop over the headers of a request, by HTTP 1.minor.                *)
ReadHeaders(minor, headers) ==
    LET after[i \in 0 .. Len(headers)] ==
            IF i = 0 THEN [flags |-> 0, body_length |-> 0, keep_alive |-> minor # 0, error |-> FALSE]
            ELSE ReadHeader(after[i - 1], headers[i])
    IN  after[Len(headers)]
=============================================================================
