----------------------------- MODULE MCRequestPool -----------------------------
(* The request pool on a list of two Requests that up to five clients'     *)
(* Requests can be taken from at a time.                                   *)
EXTENDS RequestPool, TLC

Symmetry == Permutations(Clients)
=============================================================================
