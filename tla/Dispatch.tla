------------------------------ MODULE Dispatch ------------------------------
(***************************************************************************)
(* What Router::match_route() makes of a request (routing/router.cpp): the *)
(* method it is routed by, which a header or the query string can override *)
(* (http/request.cpp), the route, the folder or the refusal it finds in    *)
(* the tries of Router, and what the file server of a folder answers       *)
(* (utils/file_server.cpp).                                                *)
(*                                                                         *)
(* A request has its method, its path, the values of the headers           *)
(* X-HTTP-Method-Override in their order, and its query: empty, or a       *)
(* question mark and what follows it, a sequence of "=", "&" and words.    *)
(* Its path is written with a slash before each segment.                   *)
(***************************************************************************)
EXTENDS Router

CONSTANTS
    Requests,   \* the requests that are dispatched
    Opens,      \* the paths an ifstream can be opened for, directories among them
    Dotted      \* the segments with two dots in a row

ASSUME DispatchAssumption ==
    /\ Requests \subseteq [method : STRING, path : Seq(STRING), overrides : Seq(STRING), query : Seq(STRING)]
    /\ \A q \in Requests : q.query = <<>> \/ Head(q.query) = "?"

-----------------------------------------------------------------------------
(* Request.                                                                *)

\* What stands before a separator is a name or a value; a name is remembered
\* until the next one.
BugScan(s, token) ==
    CASE token = "=" -> [s EXCEPT !.key = s.word, !.word = ""]
      [] token = "&" -> [s EXCEPT !.params = Over(@, Single(s.key, s.word)), !.word = ""]
      [] OTHER -> [s EXCEPT !.word = token]

Scan(s, token) ==
    CASE token = "=" -> [s EXCEPT !.key = s.word, !.word = ""]
      [] token = "&" -> [s EXCEPT !.params = Over(Single(s.key, s.word), @), !.word = ""]
      [] OTHER -> [s EXCEPT !.word = token]

get_query_params(q) ==
    LET scanned[i \in 0..Len(q.query)] ==
          IF i <= 1 THEN [key |-> "", word |-> "", params |-> <<>>]
          ELSE Scan(scanned[i - 1], q.query[i])
        end == scanned[Len(q.query)]
    IN IF q.query = <<>> THEN <<>> ELSE Over(Single(end.key, end.word), end.params)

\* The first header of the name.
OverrideHeader(q) == IF q.overrides = <<>> THEN "" ELSE Head(q.overrides)

-----------------------------------------------------------------------------
(* The file server.                                                        *)

\* The base directory is taken off the path of the request when that begins
\* with it.
FilePath(dir, path) ==
    dir \o IF IsPrefix(dir, path) THEN SubSeq(path, Len(dir) + 1, Len(path)) ELSE path

Served(file) ==
    CASE ToSet(file) \cap Dotted # {} -> [status |-> "bad_request", content |-> <<>>]
      [] ToSet(file) \cap Dotted = {} /\ file \in Opens -> [status |-> "ok", content |-> file]
      [] OTHER -> [status |-> "not_found", content |-> <<>>]

-----------------------------------------------------------------------------
(* match_route().                                                          *)

EffectiveMethod(q) ==
    LET params == get_query_params(q)
    IN CASE OverrideHeader(q) # "" -> OverrideHeader(q)
         [] OverrideHeader(q) = "" /\ "_method" \in DOMAIN params -> params["_method"]
         [] OTHER -> q.method

Calls(id) == [does |-> "calls", handler |-> id]
Serves(answer) == [does |-> "serves", answer |-> answer]
Refuses(methods) == [does |-> "refuses", allowed |-> methods]

\* Of equal priorities any node may be the one; without methods to name, there
\* is no handler at all.
match_route(q) ==
    LET m == EffectiveMethod(q)
    IN IF Found(m, q.path)
       THEN {IF trees[m][k].files THEN Serves(Served(FilePath(trees[m][k].dir, q.path)))
                                  ELSE Calls(trees[m][k].handler) : k \in Best(trees[m], q.path)}
       ELSE {Refuses(Allowed(m, q.path))}

-----------------------------------------------------------------------------
(* What a request means, by its query as a list of pairs and the routes as *)
(* they were registered.                                                   *)

\* Pairs of a name and a value, and "&" between them.
WellFormed(query) ==
    \/ query = <<>>
    \/ /\ Len(query) % 4 = 0
       /\ \A i \in 2..Len(query) : query[i] = "=" <=> i % 4 = 3
       /\ \A i \in 2..Len(query) : query[i] = "&" <=> i % 4 = 1

\* The last of the pairs with one name counts.
Meant(query) ==
    LET signs == {i \in DOMAIN query : query[i] = "="}
        of(name) == CHOOSE i \in signs :
                       query[i - 1] = name /\ \A j \in signs : query[j - 1] = name => j <= i
    IN [name \in {query[i - 1] : i \in signs} |-> query[of(name) + 1]]

MeantMethod(q) ==
    LET given == {i \in DOMAIN q.overrides : i = 1 /\ q.overrides[i] # ""}
        asked == DOMAIN Meant(q.query) \cap {"_method"}
    IN IF given # {} THEN q.overrides[1]
       ELSE IF asked # {} THEN Meant(q.query)["_method"] ELSE q.method

\* A folder whose URL is its directory, so that the path names the file.
InPlace(i) == Keys(Pattern(i)) = table[i].dir

MeantAnswers(q) ==
    LET winners == Winners(MeantMethod(q), q.path)
    IN IF winners # {} THEN {IF table[i].files THEN Serves(Served(q.path)) ELSE Calls(i) : i \in winners}
       ELSE {Refuses({n \in Methods : Winners(n, q.path) # {}})}

-----------------------------------------------------------------------------
(* A request gets what its method, or the method it asks for instead, and  *)
(* its path mean: the handler of a route that wins, the file the path      *)
(* names in a folder, or a refusal that names just the methods which have  *)
(* a route for the path.  Left out are queries that are no list of pairs,  *)
(* of which the values land under the name before, and folders under       *)
(* another name than their directory's, where the file server looks for    *)
(* the whole path.                                                         *)
AnswerIsMeant ==
    (\A m \in Methods : Orderly(m)) => \A q \in Requests :
        /\ WellFormed(q.query)
        /\ \A m \in Methods : Plain(m, q.path)
        => /\ get_query_params(q) = Meant(q.query)
           /\ \/ match_route(q) = MeantAnswers(q)
              \/ \E i \in Winners(MeantMethod(q), q.path) : table[i].files /\ ~InPlace(i)
=============================================================================
