---------------------------- MODULE MCHttpParser ----------------------------
(* A small instance of HttpParser for TLC: reads of one character, of a    *)
(* line, of a whole request and of two.                                    *)
EXTENDS HttpParser

Letters == {"G", "H", "T", "P", "Host", "Connection", "keep-alive"}

Plain(v, headers) == [method |-> <<"G">>, uri |-> <<"SLASH">>, major |-> 1, minor |-> v,
                      headers |-> headers]
Host == [name |-> <<"Host">>, value |-> <<"G">>]
Keep == [name |-> <<"Connection">>, value |-> <<"keep-alive">>]
Blank == [name |-> <<"G", "SLASH">>, value |-> <<>>]

MCRequests == {Plain(0, <<>>), Plain(1, <<Host>>), Plain(0, <<Keep>>), Plain(1, <<Host, Keep>>),
               Plain(1, <<>>), Plain(0, <<Blank>>)}

Heads == {<<"G", "SP", "SLASH", "SP", "H", "T", "T", "P", "SLASH">>, <<"SP", "SLASH", "SP">>,
          <<"1", "DOT">>} \cup
         {SubSeq(Text(Plain(v, <<>>)), 1, Len(Text(Plain(v, <<>>))) - 2) : v \in {0, 1}}

MCChunks ==
    {<<c>> : c \in {"G", "H", "0", "1", "x"} \cup Named}
    \cup Heads
    \cup {HeaderText(h) : h \in {Host, Keep, Blank}}
    \cup {<<"TAB", "SP", "x">> \o CRLF}
    \cup {CRLF}
    \cup {Text(r) : r \in MCRequests}
    \cup {Text(Plain(1, <<Host>>)) \o Text(Plain(0, <<Keep>>))}
=============================================================================
