------------------------------- MODULE Powers -------------------------------
(***************************************************************************)
(* How the buffers of the C code grow, their size being doubled until what *)
(* is to be put there fits; and how numbers are written in decimal and     *)
(* read again.                                                             *)
(***************************************************************************)
EXTENDS Integers, Sequences

TwoTo[k \in Nat] == IF k = 0 THEN 1 ELSE 2 * TwoTo[k - 1]
TenTo[k \in Nat] == IF k = 0 THEN 1 ELSE 10 * TenTo[k - 1]

(* The size s is doubled k times, until it holds n.                        *)
Doubled(s, n) ==
    s * TwoTo[CHOOSE k \in 0 .. n : s * TwoTo[k] >= n /\ (k = 0 \/ s * TwoTo[k - 1] < n)]

(* How many digits n has, at least one; these digits; and what digits say. *)
NumLength(n) == CHOOSE k \in 1 .. n + 1 : n < TenTo[k] /\ (k = 1 \/ n >= TenTo[k - 1])

Decimal(n) == LET len == NumLength(n) IN [i \in 1 .. len |-> (n \div TenTo[len - i]) % 10]

NumberOf(digits) ==
    LET said[i \in 0 .. Len(digits)] == IF i = 0 THEN 0 ELSE 10 * said[i - 1] + digits[i]
    IN  said[Len(digits)]
=============================================================================
