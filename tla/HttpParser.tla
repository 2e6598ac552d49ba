----------------------------- MODULE HttpParser -----------------------------
(***************************************************************************)
(* The request parser of mycppwebfw::http (http/parser.cpp) and what the   *)
(* read handler of a Connection makes of its verdicts (core/connection.tpp).*)
(*                                                                         *)
(* A character is a member of Chars.  Those that the automaton treats alike*)
(* are one class; a word such as Host, which the automaton reads letter by *)
(* letter and only the handler compares, is one character of class Alpha.  *)
(* A connection has one parser and one request for its whole life, and     *)
(* nothing resets either.                                                  *)
(***************************************************************************)
EXTENDS Integers, Sequences, FiniteSets, SequencesExt

CONSTANTS
    Alpha,      \* isalpha(): letters and words
    Digits,     \* isdigit(), some of Numerals
    Other,      \* printable characters without a role of their own
    Chunks,     \* the data a read can bring
    Requests,   \* well-formed requests, to compare the automaton with
    MaxReads    \* bound: the reads of a connection

\* One character each: NUL stands for every control character but the named.
Named == {"SP", "TAB", "CR", "LF", "NUL", "COLON", "DOT", "SLASH"}
Chars == Alpha \cup Digits \cup Other \cup Named
Control == {"TAB", "CR", "LF", "NUL"}     \* iscntrl()
Numerals == <<"0", "1", "2", "3", "4", "5", "6", "7", "8", "9">>
Value(d) == CHOOSE n \in 0..9 : Numerals[n + 1] = d

\* The requests a client can write: with a method, and a name in each field.
Field == [name : Seq(Chars \ (Control \cup {"COLON", "SP"})) \ {<<>>}, value : Seq(Chars \ Control)]
Written ==
    [method : Seq(Alpha) \ {<<>>}, uri : Seq(Chars \ (Control \cup {"SP"})), major : 0..9, minor : 0..9,
     headers : Seq(Field)]

ASSUME ParserAssumption ==
    /\ {"H", "T", "P", "Host", "Connection", "keep-alive"} \subseteq Alpha
    /\ Digits \subseteq ToSet(Numerals)
    /\ (Alpha \cup Digits \cup Other) \cap Named = {} /\ Alpha \cap Digits = {}
    /\ Chunks \subseteq Seq(Chars) \ {<<>>}    \* a read that ends well brings something
    /\ Requests \subseteq Written
    /\ \A r \in Requests : {Numerals[r.major + 1], Numerals[r.minor + 1]} \subseteq Digits
    /\ MaxReads \in Nat

VARIABLES
    state,      \* state_
    req,        \* request_
    keepAlive,  \* keep_alive_ of the connection
    reads,      \* the reads so far
    input,      \* the characters parsed up to and including the first verdict
    verdict,    \* the first verdict of the parser that is not INDETERMINATE
    complete,   \* whether the parser has ever returned GOOD
    last        \* what the handler made of the last read

vars == <<state, req, keepAlive, reads, input, verdict, complete, last>>

Unset == -1    \* an int of Request that nothing has set

EmptyRequest == [method |-> <<>>, uri |-> <<>>, major |-> Unset, minor |-> Unset,
                 headers |-> <<>>]

-----------------------------------------------------------------------------
(* The automaton, one rule for every way out of a state.  A character that *)
(* no rule of the state takes is a BAD request and leaves the state as it  *)
(* was.                                                                    *)

Rule(from, chars, to, does) == [from |-> from, on |-> chars, to |-> to, does |-> does]

MethodRules ==
    {Rule("METHOD_START", Alpha, "METHOD", "method"),
     Rule("METHOD", {"SP"}, "URI", "skip"),
     Rule("METHOD", Alpha, "METHOD", "method")}

BugUriRules ==
    {Rule("URI", {"SP"}, "HTTP_VERSION_H", "skip"),
     Rule("URI", Chars \ {"SP"}, "URI", "uri")}

UriRules ==
    {Rule("URI", {"SP"}, "HTTP_VERSION_H", "skip"),
     Rule("URI", Chars \ (Control \cup {"SP"}), "URI", "uri")}

VersionRules ==
    {Rule("HTTP_VERSION_H", {"H"}, "HTTP_VERSION_T_1", "skip"),
     Rule("HTTP_VERSION_T_1", {"T"}, "HTTP_VERSION_T_2", "skip"),
     Rule("HTTP_VERSION_T_2", {"T"}, "HTTP_VERSION_P", "skip"),
     Rule("HTTP_VERSION_P", {"P"}, "HTTP_VERSION_SLASH", "skip"),
     Rule("HTTP_VERSION_SLASH", {"SLASH"}, "HTTP_VERSION_MAJOR_START", "skip"),
     Rule("HTTP_VERSION_MAJOR_START", Digits, "HTTP_VERSION_MAJOR", "setMajor"),
     Rule("HTTP_VERSION_MAJOR", {"DOT"}, "HTTP_VERSION_MINOR_START", "skip"),
     Rule("HTTP_VERSION_MAJOR", Digits, "HTTP_VERSION_MAJOR", "major"),
     Rule("HTTP_VERSION_MINOR_START", Digits, "HTTP_VERSION_MINOR", "setMinor"),
     Rule("HTTP_VERSION_MINOR", {"CR"}, "EXPECTING_NEWLINE_1", "skip"),
     Rule("HTTP_VERSION_MINOR", Digits, "HTTP_VERSION_MINOR", "minor"),
     Rule("EXPECTING_NEWLINE_1", {"LF"}, "HEADER_LINE_START", "skip")}

\* A line that begins with white space continues the header before it.
BugMayFold(r) == TRUE

MayFold(r) == r.headers # <<>>

LineStartRules(r) ==
    {Rule("HEADER_LINE_START", {"CR"}, "EXPECTING_NEWLINE_3", "skip"),
     Rule("HEADER_LINE_START", Chars \ (Control \cup {"COLON", "SP"}), "HEADER_NAME", "newHeader")}
    \cup
    IF MayFold(r) THEN {Rule("HEADER_LINE_START", {"SP", "TAB"}, "HEADER_LWS", "skip")} ELSE {}

HeaderRules ==
    {Rule("HEADER_LWS", {"CR"}, "EXPECTING_NEWLINE_2", "skip"),
     Rule("HEADER_LWS", {"SP", "TAB"}, "HEADER_LWS", "skip"),
     Rule("HEADER_LWS", Chars \ (Control \cup {"SP"}), "HEADER_VALUE", "value"),
     Rule("HEADER_NAME", {"COLON"}, "SPACE_BEFORE_HEADER_VALUE", "skip"),
     Rule("HEADER_NAME", Chars \ (Control \cup {"COLON", "SP"}), "HEADER_NAME", "name"),
     Rule("SPACE_BEFORE_HEADER_VALUE", {"SP"}, "HEADER_VALUE", "skip"),
     Rule("HEADER_VALUE", {"CR"}, "EXPECTING_NEWLINE_2", "skip"),
     Rule("HEADER_VALUE", Chars \ Control, "HEADER_VALUE", "value"),
     Rule("EXPECTING_NEWLINE_2", {"LF"}, "HEADER_LINE_START", "skip")}

FixedRules == MethodRules \cup UriRules \cup VersionRules \cup HeaderRules

RulesFor(s, r, c) ==
    {rule \in IF s = "HEADER_LINE_START" THEN LineStartRules(r) ELSE FixedRules :
        rule.from = s /\ c \in rule.on}

\* req.headers.back()
Back(r) == r.headers[Len(r.headers)]

BugSetBack(r, h) == [r EXCEPT !.headers[1] = h]

SetBack(r, h) == [r EXCEPT !.headers[Len(r.headers)] = h]

Effect(does, r, c) ==
    CASE does = "skip"       -> r
      [] does = "method"     -> [r EXCEPT !.method = Append(@, c)]
      [] does = "uri"        -> [r EXCEPT !.uri = Append(@, c)]
      [] does = "setMajor"  -> [r EXCEPT !.major = Value(c)]
      [] does = "major"      -> [r EXCEPT !.major = @ * 10 + Value(c)]
      [] does = "setMinor"  -> [r EXCEPT !.minor = Value(c)]
      [] does = "minor"      -> [r EXCEPT !.minor = @ * 10 + Value(c)]
      [] does = "newHeader" -> [r EXCEPT !.headers = Append(@, [name |-> <<c>>, value |-> <<>>])]
      [] does = "name"       -> SetBack(r, [Back(r) EXCEPT !.name = Append(@, c)])
      [] does = "value"      -> SetBack(r, [Back(r) EXCEPT !.value = Append(@, c)])

-----------------------------------------------------------------------------
(* parse(): the automaton over the characters of one read, up to a verdict.*)
(* What a read brings after the verdict is dropped.                        *)

BugVerdict(p, c) ==
    IF p.state = "EXPECTING_NEWLINE_3"
    THEN IF c = "LF" /\ p.req.headers # <<>> THEN "GOOD" ELSE "BAD"
    ELSE IF RulesFor(p.state, p.req, c) = {} THEN "BAD" ELSE "INDETERMINATE"

Verdict(p, c) ==
    IF p.state = "EXPECTING_NEWLINE_3"
    THEN IF c = "LF" THEN "GOOD" ELSE "BAD"
    ELSE IF RulesFor(p.state, p.req, c) = {} THEN "BAD" ELSE "INDETERMINATE"

Follow(p, c) ==
    LET rule == CHOOSE r \in RulesFor(p.state, p.req, c) : TRUE
    IN [p EXCEPT !.state = rule.to, !.req = Effect(rule.does, p.req, c), !.used = @ + 1]

Step(p, c) ==
    IF p.result # "INDETERMINATE" THEN p
    ELSE IF Verdict(p, c) = "INDETERMINATE" THEN Follow(p, c)
    ELSE [p EXCEPT !.result = Verdict(p, c), !.used = @ + 1]

Parse(s, r, chunk) ==
    LET parsed[i \in 0..Len(chunk)] ==
          IF i = 0 THEN [state |-> s, req |-> r, result |-> "INDETERMINATE", used |-> 0]
          ELSE Step(parsed[i - 1], chunk[i])
    IN parsed[Len(chunk)]

-----------------------------------------------------------------------------
(* The handler of a read.                                                  *)

Fields(r, name) == {i \in 1..Len(r.headers) : r.headers[i].name = <<name>>}
First(S) == CHOOSE i \in S : \A j \in S : i <= j

ConnectionValue(r) == r.headers[First(Fields(r, "Connection"))].value

AsksToKeep(r) == Contains(ConnectionValue(r), "keep-alive")

\* What an int of a request may hold.
Held(n) == IF n = Unset THEN {0, 1} ELSE {n}

\* The first header named Connection decides, else the version; a version that
\* no character has set yet is whatever the memory held.
KeepAlives(r) ==
    IF Fields(r, "Connection") # {}
    THEN {AsksToKeep(r)}
    ELSE {major = 1 /\ minor = 1 : major \in Held(r.major), minor \in Held(r.minor)}

Valid(r) ==
    /\ r.major = 1 /\ r.minor \in {0, 1}
    /\ r.method # <<>> /\ r.uri # <<>>
    /\ r.minor = 1 => Fields(r, "Host") # {}

BugStatus(p) == IF p.result # "INDETERMINATE" /\ Valid(p.req) THEN "ok" ELSE "bad"

Status(p) == IF p.result = "GOOD" /\ Valid(p.req) THEN "ok" ELSE "bad"

\* Where Connection takes the parser to be.
At(s, good) == IF good THEN "done" ELSE IF s = "METHOD_START" THEN "start" ELSE "mid"

\* How a request is written.
CRLF == <<"CR", "LF">>
HeaderText(h) == h.name \o <<"COLON", "SP">> \o h.value \o CRLF

TextOf(r, major, minor) ==
    r.method \o <<"SP">> \o r.uri \o <<"SP", "H", "T", "T", "P", "SLASH">>
    \o major \o <<"DOT">> \o minor \o CRLF
    \o FlattenSeq([i \in 1..Len(r.headers) |-> HeaderText(r.headers[i])]) \o CRLF

\* Of numbers below ten there is one shortest way to write them.
Text(r) == TextOf(r, <<Numerals[r.major + 1]>>, <<Numerals[r.minor + 1]>>)

\* One read brings one valid request, or something else.
Data(chunk) ==
    IF At(state, complete) # "mid" /\ \E r \in Requests : Valid(r) /\ chunk = Text(r)
    THEN "request" ELSE "other"

Init ==
    /\ state = "METHOD_START"
    /\ req = EmptyRequest
    /\ keepAlive = FALSE
    /\ reads = 0
    /\ input = <<>>
    /\ verdict = "INDETERMINATE"
    /\ complete = FALSE
    /\ last = [result |-> "INDETERMINATE", at |-> "start", keep |-> FALSE, status |-> "bad",
               data |-> "other"]

\* After a verdict the connection answers and, if it is kept alive, reads on.
Read(chunk) ==
    /\ reads < MaxReads
    /\ last.result # "INDETERMINATE" => keepAlive
    /\ LET p == Parse(state, req, chunk) IN
       /\ state' = p.state
       /\ req' = p.req
       /\ complete' = (complete \/ p.result = "GOOD")
       /\ verdict' = IF verdict = "INDETERMINATE" THEN p.result ELSE verdict
       /\ input' = IF verdict = "INDETERMINATE" THEN input \o SubSeq(chunk, 1, p.used) ELSE input
       /\ keepAlive' \in KeepAlives(p.req)
       /\ last' = [result |-> p.result, at |-> At(state', complete'), keep |-> keepAlive',
                   status |-> Status(p), data |-> Data(chunk)]
    /\ reads' = reads + 1

Next == \E chunk \in Chunks : Read(chunk)

Spec == Init /\ [][Next]_vars
-----------------------------------------------------------------------------
Lines == {"HEADER_LWS", "HEADER_NAME", "SPACE_BEFORE_HEADER_VALUE", "HEADER_VALUE",
          "EXPECTING_NEWLINE_2"}

States == {"METHOD_START", "METHOD", "URI", "HTTP_VERSION_H", "HTTP_VERSION_T_1",
           "HTTP_VERSION_T_2", "HTTP_VERSION_P", "HTTP_VERSION_SLASH",
           "HTTP_VERSION_MAJOR_START", "HTTP_VERSION_MAJOR", "HTTP_VERSION_MINOR_START",
           "HTTP_VERSION_MINOR", "EXPECTING_NEWLINE_1", "HEADER_LINE_START",
           "EXPECTING_NEWLINE_3"} \cup Lines

Texts == Seq(Chars)

(* The parser's state and what it has built, whatever the reads bring: a   *)
(* method of letters and a URI without spaces and control characters.      *)
TypeOK ==
    /\ state \in States
    /\ req.method \in Seq(Alpha) /\ req.uri \in Seq(Chars \ (Control \cup {"SP"}))
    /\ req.major \in Int /\ req.minor \in Int
    /\ req.headers \in Seq([name : Texts, value : Texts])
    /\ keepAlive \in BOOLEAN /\ complete \in BOOLEAN
    /\ reads \in 0..MaxReads
    /\ input \in Texts
    /\ verdict \in {"GOOD", "BAD", "INDETERMINATE"}

(* headers.back() is never taken of an empty vector, in whatever state one *)
(* read leaves the parser for the next and whatever was BAD before.        *)
BackIsSafe == state \in Lines => req.headers # <<>>

-----------------------------------------------------------------------------
(* The language, independently of the automaton: what folding the headers  *)
(* of a request, and leading zeros in its version, add to its text.        *)

NumberOf(ds) ==
    LET number[i \in 0..Len(ds)] == IF i = 0 THEN 0 ELSE 10 * number[i - 1] + Value(ds[i])
    IN number[Len(ds)]

\* The ways t writes n in digits.
DigitsAt(t) == {i \in 1..Len(t) : t[i] \in Digits}
NumeralsIn(t, n) ==
    {ds \in {SubSeq(t, i, j) : i \in DigitsAt(t), j \in DigitsAt(t)} :
        ds # <<>> /\ ds \in Seq(Digits) /\ NumberOf(ds) = n}

\* A line break with white space after it, anywhere in t.
Folded(t, i) ==
    \E a \in 1..i, b \in i..Len(t) :
        /\ a + 2 <= b
        /\ SubSeq(t, a, a + 1) = CRLF
        /\ \A j \in (a + 2)..b : t[j] \in {"SP", "TAB"}

Unfolded(t) ==
    LET text[i \in 0..Len(t)] == IF i = 0 THEN <<>>
                                ELSE IF Folded(t, i) THEN text[i - 1] ELSE Append(text[i - 1], t[i])
    IN text[Len(t)]

WellFormed(r) == r.method # <<>> /\ r.headers \in Seq(Field)

(* What is accepted was written: when the first verdict is GOOD, the       *)
(* characters read are the text of the request the parser has built, but   *)
(* for line folding.  No character is lost, doubled or put into another    *)
(* field, wherever the reads were cut.                                     *)
AcceptedWasWritten ==
    verdict = "GOOD" =>
        /\ WellFormed(req)
        /\ \E major \in NumeralsIn(input, req.major), minor \in NumeralsIn(input, req.minor) :
              Unfolded(input) = TextOf(req, major, minor)

(* What is written is accepted: no beginning of a well-formed request is   *)
(* BAD, and its end brings the verdict GOOD and that request.              *)
WrittenIsAccepted ==
    \A r \in Requests :
        /\ IsPrefix(input, Text(r)) => verdict # "BAD"
        /\ input = Text(r) => verdict = "GOOD" /\ req = r

-----------------------------------------------------------------------------
\* The parser as Connection sees it: one connection, in the handler of a read.
Conn == INSTANCE Connection
        WITH Conns <- {"k"}, Buffers <- {}, PoolSize <- 0, CanExpire <- FALSE,
             state <- [k |-> "Reading"], keepAlive <- [k |-> keepAlive],
             parser <- [k |-> At(state, complete)], response <- [k |-> "none"],
             pending <- [k |-> {}], timer <- [k |-> "off"], managed <- {"k"}, ready <- <<>>,
             crashed <- FALSE, pool <- <<>>, totalAllocated <- 0, held <- [k |-> {}]

(* Each read ends as Connection allows for the data and for where parser_  *)
(* was, also after a verdict: what is checked of connections rests on the  *)
(* automaton and not on a summary of it.                                   *)
ReadConforms ==
    [][reads' # reads =>
         [result |-> last'.result, at |-> last'.at, keep |-> last'.keep, status |-> last'.status]
             \in Conn!Parsed("k", last'.data)]_vars
=============================================================================
