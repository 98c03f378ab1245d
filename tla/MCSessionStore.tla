---------------------------- MODULE MCSessionStore ----------------------------
(* A small instance of SessionStore: see the .cfg files.                   *)
EXTENDS SessionStore
=============================================================================
