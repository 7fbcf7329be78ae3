-------------------------- MODULE MCSqlClassifier --------------------------
(* SqlClassifier with at least one word of every class and the phrases that *)
(* open, close and nest.                                                    *)
EXTENDS SqlClassifier

QuotedNames == {"[LOGIN]", "[DROP]"}
NameTable == [q \in QuotedNames |-> IF q = "[LOGIN]" THEN "LOGIN" ELSE "DROP"]

PhraseTable ==
    {<<"SELECT", "(", "?", ")">>, <<"WITH", "X", "AS", "(">>, <<"(">>, <<")">>, <<",", "X", "AS">>,
     <<";">>, <<"GO">>, <<"BEGIN">>, <<"SET", "X">>, <<"INTO", "X">>, <<"DELETE", "X">>,
     <<"DROP">>, <<"TRUNCATE">>, <<"[LOGIN]">>, <<"[DROP]">>, <<"EXEC", "X">>, <<"GRANT">>,
     <<"COPY", "X">>, <<"PROGRAM", "?">>}

WordTable == UNION {Range(p) : p \in PhraseTable} \ ({"?", "(", ")", ",", ";"} \union QuotedNames)
=============================================================================
