------------------------------ MODULE ServerPool ------------------------------
(***************************************************************************)
(* What the clients of the session stores and of the work queue do alike:  *)
(* the array of connections of a server, and the map from slots of keys to *)
(* servers.  memcachedclient.c, mrcacheclient.c and mrqclient.c each have  *)
(* a copy of this code.                                                    *)
(***************************************************************************)
EXTENDS Integers, Sequences, FiniteSets, SequencesExt

(* ...Server_addConnection                                                 *)
Added(conns, s, c) == [conns EXCEPT ![s] = Append(@, c)]

(* At start-up every connection is made before the server takes requests:  *)
(* pool of them to each of n servers, one server after the other.          *)
ServerOf(c, pool) == (c - 1) \div pool

StartUp(n, pool) == [s \in 0 .. n - 1 |-> [k \in 1 .. pool |-> s * pool + k]]

(* ..._setupConnMap: slots 0 .. n - 1 go round the servers that are up.    *)
Before(s, up) == {t \in up : t < s}

RoundRobin(n, up) ==
    [i \in 0 .. n - 1 |-> CHOOSE s \in up : Cardinality(Before(s, up)) = i % Cardinality(up)]

(* ...Server_connection_lost: the loop that takes connection c off an      *)
(* array of n + 1.  p is moved on, but is also indexed by i: what is meant *)
(* to shift left is copied to the right.                                   *)
ShiftOut(a, c) ==
    LET n == Len(a) - 1
        step(acc, i) ==
            LET b == [acc.a EXCEPT ![acc.p + i] = acc.a[i]]
            IN  [a |-> b, p |-> IF b[i] # c THEN acc.p + 1 ELSE acc.p]
        array == [i \in 0 .. 2 * Len(a) |-> IF i < Len(a) THEN a[i + 1] ELSE c]
        done  == FoldLeft(step, [a |-> array, p |-> 0], [i \in 1 .. n + 1 |-> i - 1])
    IN  [i \in 1 .. n |-> done.a[i - 1]]
=============================================================================
