---------------------------- MODULE MCMrqProtocol ----------------------------
(* A small instance of MrqProtocol.                                        *)
EXTENDS MrqProtocol
=============================================================================
