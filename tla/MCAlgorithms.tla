---------------------------- MODULE MCAlgorithms ----------------------------
EXTENDS Algorithms

MCRoutes == <<<<"/", "{}", "/">>, <<"/", "a", "/">>, <<"/", "{}", "/", "{num}">>,
              <<"/", "a", "/", "{num}", "/">>, <<"/", "a", "/", "1">>, <<"/", "a", "/", "{}">>>>
MCUrlPieces == {<<c>> : c \in {"a", "1", "/", "?", "&", "="}} \cup {Escape(c) : c \in {"a", "1", "/", "&"}}

MCCookies == [name : {SessionName, <<"a">>, <<"b">>}, value : {<<"1">>, <<"1", "=">>, <<>>}, equals : {TRUE}]
             \cup {[name |-> <<"a">>, value |-> <<>>, equals |-> FALSE]}

MCIds == 0 .. 1100 \cup 4090 .. 4200

MCSizes == {Missing, 0, 1, 9, 10, 120}

MCText(odd) == [Line("text") EXCEPT !.odd = odd]
MCFormParts == [name : {<<"a">>, <<"b">>}, filename : {NoName, <<"f">>}, typed : BOOLEAN,
                text : {<<MCText(FALSE)>>, <<MCText(TRUE), MCText(FALSE)>>, <<MCText(TRUE)>>}]

MCHeads == [kind : {"atom"}, size : {0, 2}, wide : {FALSE}]
           \cup [kind : {"list", "dict"}, size : {0, 1, 2}, wide : {FALSE}]
           \cup {[kind |-> "list", size |-> n, wide |-> TRUE] : n \in {0, 2}}
           \cup {[None EXCEPT !.kind = "unknown"]}

MCHtmlChars == {"a", "<", "&", ">", Quote}

MCTexts ==
    UNION {{[len |-> n, diffs |-> {}]} \cup [len : {n}, diffs : {{[at |-> i, by |-> b]} : i \in 0 .. n - 1, b \in {"case", "byte"}}]
             : n \in 1 .. 70 \cup 94 .. 106 \cup {127, 128, 129, 159, 160, 161, 191, 193, 231, 255, 256, 263, 300}}

MCName(word) == [word |-> word, diffs |-> {}]
MCValue(word, len) == [word |-> word, diffs |-> {}, first |-> IF word = "text/html" THEN "t" ELSE "a",
                       len |-> len, digits |-> <<>>, junk |-> TRUE]
MCLength(digits, junk) == [MCValue("number", 1) EXCEPT !.digits = digits, !.junk = junk]
MCOther(text, by) == [text EXCEPT !.diffs = {[at |-> 0, by |-> by]}]
MCOdd(text) == MCOther(text, "case")
MCHeaders ==
    [name : {MCName("Content-Length"), MCOdd(MCName("Content-Length"))},
     value : {MCLength(<<0>>, FALSE), MCLength(<<1, 2>>, FALSE), MCLength(<<3>>, TRUE), MCLength(<<0>>, TRUE), MCLength(<<>>, TRUE), MCLength(<<0, 0>>, FALSE)}]
    \cup [name : {MCName("Content-Type")},
          value : {MCValue("application/mrpacker", 20), MCValue("application/atom+xml", 20), MCValue("text/html", 9)}]
    \cup [name : {MCName("Connection"), MCOdd(MCName("Connection"))},
          value : {MCValue("close", 5), MCOdd(MCValue("close", 5)), MCOther(MCValue("close", 5), "byte"), MCValue("keep-alive", 10)}]

MCSeconds == UNION {{k * u - 1, k * u, k * u + 1, k * u + u \div 2} : k \in {1, 2, 9, 10, 12, 13, 23, 24, 29, 30, 31},
                                                                  u \in {Minute, Hour, Day, Month, Year}}

MCCommands == [how : {"set", "push", "pushj", "get"}, dsz : {1, 1000, 1021, 1025, 2049, 5000, 10241, 70000, 102401}]
MCPieces == [url |-> MCUrlPieces, cookies |-> MCCookies, key |-> MCIds, replies |-> MCSizes,
             form |-> MCFormParts, object |-> MCHeads, sends |-> MCCommands,
             html |-> MCHtmlChars, text |-> MCTexts, headers |-> MCHeaders, since |-> MCSeconds]
MCMaxPieces == [url |-> 5, cookies |-> 3, key |-> 1, replies |-> 3, form |-> 3, object |-> 5,
                sends |-> 3, html |-> 6, text |-> 1, headers |-> 3, since |-> 1]
=============================================================================
