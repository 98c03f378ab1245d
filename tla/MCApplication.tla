--------------------------- MODULE MCApplication ---------------------------
(* A small instance of Application.                                        *)
EXTENDS Application
=============================================================================
