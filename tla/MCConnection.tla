----------------------------- MODULE MCConnection -----------------------------
(* Small instances of Connection.  The connections are interchangeable.    *)
EXTENDS Connection, TLC

Symmetry == Permutations(Conns)
=============================================================================
