---------------------------- MODULE MCParserBuffer ----------------------------
(* Requests for ParserBuffer.                                              *)
EXTENDS ParserBuffer

Get == [length |-> "none", headers |-> 3, body |-> 0, packed |-> FALSE]
Post == [length |-> "good", headers |-> 1, body |-> 2, packed |-> TRUE]
BadPost == [length |-> "bad", headers |-> 0, body |-> 1, packed |-> FALSE]

MixedRequests == <<Get, Post, Get, BadPost>>
=============================================================================
