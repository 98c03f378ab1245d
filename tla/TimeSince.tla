----------------------------- MODULE TimeSince -----------------------------
(***************************************************************************)
(* mrhttp.timesince (utils.c): how long ago a time was, in its largest     *)
(* unit.  The text is made in a static buffer for that unit, the digits    *)
(* backwards from its second byte; so two of them, and the byte the text   *)
(* starts with, reach to its first byte and to the one before it.          *)
(* Times in the future, whose difference wraps round, are left out.        *)
(***************************************************************************)
EXTENDS Integers, Sequences, SequencesExt

Minute == 60
Hour == 3600
Day == 86400
Month == 2592000
Year == 31536000

(* The buffers: three blanks, then the name; name[k] is its byte k.  What  *)
(* is before a buffer is not its own.                                      *)
NameLength == [u \in {Minute, Hour, Day, Month, Year} |->
                 CASE u = Minute -> 11 [] u = Hour -> 9 [] u = Day -> 8
                   [] u = Month -> 10 [] u = Year -> 9]

Buffer(unit) == [i \in -12 .. 2 + NameLength[unit] |->
                   IF i < 0 THEN "other" ELSE IF i < 3 THEN "blank" ELSE <<unit, i - 2>>]

UnitOf(diff) ==
    IF diff < Day THEN IF diff > Hour THEN Hour ELSE Minute
    ELSE CASE diff > Year -> Year
           [] diff > Month /\ diff <= Year -> Month
           [] diff <= Month -> Day

(* sl                                                                      *)
TextLength(unit) == CASE unit = Minute -> 14
                      [] unit = Month  -> 13
                      [] unit = Day    -> 11
                      [] OTHER         -> 12

RECURSIVE DecimalDigits(_)
DecimalDigits(n) == IF n < 10 THEN <<n>> ELSE Append(DecimalDigits(n \div 10), n % 10)

timesince(diff) ==
    LET unit == UnitOf(diff)
        ds   == DecimalDigits(diff \div unit)
        s    == 1 - Len(ds)
        b    == [i \in DOMAIN Buffer(unit) |->
                   IF i \in s + 1 .. 1 THEN ds[i - s]
                   ELSE IF i = 0 THEN "blank" ELSE Buffer(unit)[i]]
    IN  [k \in 1 .. TextLength(unit) - s |-> b[s + k - 1]]
=============================================================================
