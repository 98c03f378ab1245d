--------------------------- MODULE MCRequestObject ---------------------------
(* A small instance of RequestObject.                                      *)
EXTENDS RequestObject
=============================================================================
