------------------------------ MODULE MCRouter ------------------------------
(* A small instance of Dispatch, and with it of Router, for TLC.            *)
EXTENDS Dispatch

Segment(kind, part) == [kind |-> kind, part |-> part, optional |-> FALSE, default |-> "", takes |-> {}]
Text(part) == Segment("STATIC", part)
Param(name) == Segment("PARAMETER", name)
Rest(name) == Segment("WILDCARD", name)
Number(name) == [Segment("REGEX", name) EXCEPT !.takes = {"1"}]
Optional(name) == [Param(name) EXCEPT !.optional = TRUE]
Default(name, value) == [Optional(name) EXCEPT !.default = value]

MCPatterns == {
    <<>>,
    <<Text("users")>>,
    <<Text("users"), Param("id")>>,
    <<Text("users"), Text("id")>>,
    <<Text("users"), Text("new")>>,
    <<Text("users"), Number("num")>>,
    <<Text("users"), Rest("rest")>>,
    <<Text("users"), Param("id"), Optional("tab")>>,
    <<Text("users"), Default("lang", "en")>>,
    <<Param("id"), Param("id")>> }

MCPrefixes == {<<>>, <<Text("users")>>}
Folder(pat, dir) == [pattern |-> pat, dir |-> dir]
MCFolders == {
    Folder(<<Text("users")>>, <<"users">>),
    Folder(<<Text("users"), Text("new")>>, <<"users", "new">>),
    Folder(<<Text("users")>>, <<"public">>) }

MCPaths == {<<>>, <<"users">>, <<"new">>, <<"users", "new">>, <<"users", "1">>, <<"users", "id">>,
            <<"users", "users">>, <<"1", "new">>, <<"users", "1", "new">>, <<"users", "new", "1">>,
            <<"users", "users", "1">>}

Request(method, path) == [method |-> method, path |-> path, overrides |-> <<>>, query |-> <<>>]
With(overrides, query) ==
    [Request("POST", <<"users", "1">>) EXCEPT !.overrides = overrides, !.query = query]

Item(name, value) == <<name, "=", value>>
Method(value) == Item("_method", value)

MCRequests ==
    {Request(m, path) : m \in {"GET", "POST"}, path \in MCPaths \cup {<<"users", "..">>}}
    \cup {With(overrides, <<>>) : overrides \in {<<"GET">>, <<"PUT">>, <<"", "GET">>, <<"POST", "GET">>}}
    \cup {With(overrides, <<"?">> \o query) : overrides \in {<<>>, <<"">>}, query \in
            {Method("GET"), Method("PUT"), Item("a", "GET"), Item("a", "_method"),
             Item("a", "b") \o <<"&">> \o Method("GET"), Method("GET") \o <<"&">> \o Item("a", "b"),
             Method("POST") \o <<"&">> \o Method("GET"), Method("POST") \o <<"&">> \o Method("GET") \o <<"&">> \o Item("a", "b"),
             Method("GET") \o <<"&", "a">>, Method("GET") \o <<"&">>, <<"a", "=", "_method", "=", "GET">>}}
    \cup {With(<<"POST">>, <<"?">> \o Method("GET"))}

MCOpens == {<<"users">>, <<"users", "new">>, <<"users", "new", "1">>, <<"users", "1">>,
            <<"public", "users", "1">>}
=============================================================================
