----------------------------- MODULE MCMrqClient -----------------------------
(* A small instance of MrqClient.                                          *)
EXTENDS MrqClient
=============================================================================
