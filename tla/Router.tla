------------------------------- MODULE Router -------------------------------
(***************************************************************************)
(* The router of mycppwebfw::routing (routing/router.cpp, .h and           *)
(* route_matcher.cpp): a trie of path segments per HTTP method, built by   *)
(* add_route() and add_static_route(), searched by match_route().          *)
(*                                                                         *)
(* A path is the sequence of its non-empty segments.  A segment of a       *)
(* pattern is a record: its kind, its part (the text, or the name of what  *)
(* it binds), whether it may be missing, what it then stands for, and for  *)
(* a regular expression the segments it takes.  A node of a trie is named  *)
(* by the parts that lead to it: children are kept by part, whatever their *)
(* kind.  The pattern without segments is "/".                             *)
(***************************************************************************)
EXTENDS Integers, Sequences, FiniteSets, SequencesExt

CONSTANTS
    Methods,     \* "GET" among them
    Patterns,    \* the patterns add_route() is called with
    GroupPrefixes,  \* the prefixes of the groups it is called through, <<>> for none
    Folders,     \* what add_static_route() is called with: a pattern and a base directory
    Names,       \* the names a route can be given
    NoName,      \* a route without a name
    Priorities,  \* the priorities a route can be given, 0 for none
    Paths,       \* the paths of requests
    MaxRoutes    \* bound: the routes registered

Kinds == {"STATIC", "PARAMETER", "WILDCARD", "REGEX"}
AnySegment == [kind : Kinds, part : STRING, optional : BOOLEAN, default : STRING, takes : SUBSET STRING]
\* Only what begins with a colon is looked at for a question mark or an equals sign.
Segments == {seg \in AnySegment : seg.optional => seg.kind = "PARAMETER"}

ASSUME RouterAssumption ==
    /\ "GET" \in Methods
    /\ Patterns \cup GroupPrefixes \subseteq Seq(Segments)
    /\ Folders \subseteq [pattern : Seq({seg \in Segments : seg.kind = "STATIC"}), dir : Seq(STRING)]
    /\ Paths \subseteq Seq(STRING)
    /\ NoName \notin Names
    /\ Priorities \subseteq Nat
    /\ MaxRoutes \in Nat

VARIABLES
    trees,   \* trees: for each method the nodes of its trie
    named,   \* named_routes
    table    \* the registrations that did not throw, in order

vars == <<trees, named, table>>

NoHandler == 0   \* the handler of a registration is its place in the table

Init ==
    /\ trees = [m \in Methods |-> <<>>]
    /\ named = <<>>
    /\ table = <<>>

-----------------------------------------------------------------------------
\* Maps: one with a single key, and f before g; as :> and @@ of TLC, which the
\* provers take as uninterpreted.
Single(key, value) == [k \in {key} |-> value]
Over(f, g) == [k \in DOMAIN f \cup DOMAIN g |-> IF k \in DOMAIN f THEN f[k] ELSE g[k]]

-----------------------------------------------------------------------------
(* add_route() and add_static_route().                                     *)

Node(type) == [type |-> type, handler |-> NoHandler, optional |-> FALSE, default |-> "",
               takes |-> {}, priority |-> 0, files |-> FALSE, dir |-> <<>>, catchAll |-> FALSE]

Keys(pat) == [i \in DOMAIN pat |-> pat[i].part]

\* The nodes from the root to the end of pat, the root among them.
BugLine(pat) == {<<>>, Keys(pat)}

Line(pat) == {SubSeq(Keys(pat), 1, i) : i \in 0..Len(pat)}

\* A node that is there keeps its type, and gets the rest from the new segment.
Touched(node, seg) ==
    CASE seg.kind = "PARAMETER" -> [node EXCEPT !.optional = seg.optional, !.default = seg.default]
      [] seg.kind = "REGEX"     -> [node EXCEPT !.takes = seg.takes]
      [] OTHER                  -> node

Old(tree, pat, k) ==
    IF k \in DOMAIN tree THEN tree[k]
    ELSE IF k = <<>> THEN Node("STATIC") ELSE Node(pat[Len(k)].kind)

Grown(tree, pat) ==
    [k \in DOMAIN tree \cup Line(pat) |->
        IF k \notin Line(pat) THEN tree[k]
        ELSE IF k = <<>> THEN Old(tree, pat, k)
        ELSE Touched(Old(tree, pat, k), pat[Len(k)])]

\* A regular expression has no priority of its own, and keeps what its node had.
Priority(node, given) ==
    CASE given # 0 -> given
      [] given = 0 /\ node.type = "STATIC"    -> 3
      [] given = 0 /\ node.type = "PARAMETER" -> 2
      [] given = 0 /\ node.type = "WILDCARD"  -> 1
      [] OTHER -> node.priority

Handled(tree, pat, id, given) ==
    IF pat = <<>>
    THEN [tree EXCEPT ![<<>>].catchAll = TRUE, ![<<>>].handler = id]
    ELSE [tree EXCEPT ![Keys(pat)].handler = id,
                      ![Keys(pat)].priority = Priority(tree[Keys(pat)], given)]

Registered(m, pat, name, given, files, dir) ==
    table' = Append(table, [method |-> m, pattern |-> pat, name |-> name, priority |-> given,
                            files |-> files, dir |-> dir])

AddRoute(m, pat, name, given) ==
    /\ Len(table) < MaxRoutes
    /\ name \notin DOMAIN named
    /\ named' = IF name = NoName THEN named ELSE Over(Single(name, pat), named)
    /\ trees' = [trees EXCEPT ![m] = Handled(Grown(@, pat), pat, Len(table) + 1, given)]
    /\ Registered(m, pat, name, given, FALSE, <<>>)

\* Through groups, whose prefixes together are prefix.
AddGroupRoute(m, prefix, pat, name, given) == AddRoute(m, prefix \o pat, name, given)

\* The name is taken: the exception comes before anything has changed.
AddRouteThrows(name) ==
    /\ name \in DOMAIN named
    /\ UNCHANGED vars

AddStaticRoute(pat, dir) ==
    /\ Len(table) < MaxRoutes
    /\ trees' = [trees EXCEPT !["GET"] = [Grown(@, pat) EXCEPT ![Keys(pat)].files = TRUE,
                                                              ![Keys(pat)].dir = dir]]
    /\ Registered("GET", pat, NoName, 0, TRUE, dir)
    /\ UNCHANGED named

Next ==
    \/ \E m \in Methods, prefix \in GroupPrefixes, pat \in Patterns, name \in Names \cup {NoName},
          given \in Priorities : AddGroupRoute(m, prefix, pat, name, given)
    \/ \E name \in Names : AddRouteThrows(name)
    \/ \E folder \in Folders : AddStaticRoute(folder.pattern, folder.dir)

Spec == Init /\ [][Next]_vars

-----------------------------------------------------------------------------
(* RouteMatcher::match().                                                  *)

\* A child is entered by its key, whatever its type, and then by its type.
Enters(tree, k, seg) ==
    \/ Last(k) = seg
    \/ tree[k].type = "PARAMETER"
    \/ tree[k].type = "REGEX" /\ seg \in tree[k].takes

Child(tree, k, at) == k # <<>> /\ Front(k) = at

\* The nodes find_matches() is called for with the first n segments consumed
\* one by one; below a node that serves files it does not go.
Level(tree, path, n) ==
    LET level[i \in 0..n] ==
          IF i = 0 THEN {<<>>}
          ELSE {k \in DOMAIN tree : \E at \in level[i - 1] :
                   /\ Child(tree, k, at)
                   /\ ~tree[at].files
                   /\ Enters(tree, k, path[i])}
    IN level[n]

\* The wildcards it is called for with the rest of the path consumed at once.
Wildcards(tree, path) ==
    {k \in DOMAIN tree : \E n \in 0..(Len(path) - 1) : \E at \in Level(tree, path, n) :
        /\ Child(tree, k, at)
        /\ ~tree[at].files
        /\ tree[k].type = "WILDCARD"}

\* What it finds at a node with nothing left of the path.
Ends(tree, at) ==
    IF tree[at].files THEN {at}
    ELSE {k \in {at} \cup {c \in DOMAIN tree : Child(tree, c, at) /\ tree[c].optional} :
            tree[k].handler # NoHandler}

Matches(tree, path) ==
    {k \in DOMAIN tree : tree[k].files /\ \E n \in 0..Len(path) : k \in Level(tree, path, n)}
    \cup UNION {Ends(tree, at) : at \in Level(tree, path, Len(path)) \cup Wildcards(tree, path)}

BugBetter(a, b) == a.priority < b.priority

Better(a, b) == a.priority > b.priority

\* Of equal priorities any may come first: the sort is not stable, and the
\* children are in a hash table.
Best(tree, path) ==
    IF Matches(tree, path) # {}
    THEN {k \in Matches(tree, path) :
            \A j \in Matches(tree, path) : ~Better(tree[j], tree[k])}
    ELSE {k \in {<<>>} : tree[<<>>].catchAll}

\* recalculate_params() walks to node k with one segment for each step.  A
\* segment that is the key of its node binds nothing; of two that bind one name
\* the first counts.
Walked(tree, path, k) ==
    Len(k) <= Len(path) /\ \A i \in 1..Len(k) : Enters(tree, SubSeq(k, 1, i), path[i])

Bind(path, k) ==
    LET binds == {i \in 1..Len(k) : k[i] # path[i]}
    IN [name \in {k[i] : i \in binds} |->
           <<path[CHOOSE i \in binds : k[i] = name /\ \A j \in binds : k[j] = name => i <= j]>>]

BugRemaining(path, k) == SubSeq(path, Len(k) + 1, Len(path))

Remaining(path, k) == SubSeq(path, Len(k), Len(path))

\* To a wildcard, the last step takes the rest.  What it does not walk to, an
\* optional node that is not in the path, leaves every parameter unbound.
Recalculated(tree, path, k) ==
    IF Len(k) = Len(path) /\ Walked(tree, path, k) THEN Bind(path, k)
    ELSE IF k # <<>> /\ tree[k].type = "WILDCARD" /\ Len(k) <= Len(path)
            /\ Walked(tree, path, Front(k))
    THEN Over(Bind(path, Front(k)), Single(Last(k), Remaining(path, k)))
    ELSE <<>>

Params(tree, path, k) ==
    LET found == Recalculated(tree, path, k)
    IN IF tree[k].optional /\ tree[k].default # "" /\ Last(k) \notin DOMAIN found
       THEN Over(found, Single(Last(k), <<tree[k].default>>)) ELSE found

-----------------------------------------------------------------------------
(* match_route() and url_for().                                            *)

\* A method has a trie once a route has been registered for it.
HasTree(m) == m \in Methods /\ trees[m] # <<>>

Found(m, path) == HasTree(m) /\ Best(trees[m], path) # {}

\* When no route is found: the methods that have one for the path.
Allowed(m, path) == {n \in Methods \ {m} : Found(n, path)}

\* The first parameter of a name is replaced, up to the name; what it may
\* default to stays there.  No name is taken to begin with another.
BugFilled(pat, params, i) ==
    IF pat[i].kind = "PARAMETER" THEN params[pat[i].part] ELSE ":" \o pat[i].part

Filled(pat, params, i) ==
    LET seg == pat[i]
        again == \E j \in 1..(i - 1) : pat[j].kind = "PARAMETER" /\ pat[j].part = seg.part
        value == IF again THEN ":" \o seg.part ELSE params[seg.part]
    IN CASE seg.kind = "STATIC" -> seg.part
         [] seg.kind = "PARAMETER" /\ seg.default = "" -> value
         [] seg.kind = "PARAMETER" /\ seg.default # "" -> value \o "=" \o seg.default
         [] OTHER -> "*" \o seg.part

\* The path a request for the URL has: a question mark that made a parameter
\* optional begins the query.
UrlFor(pat, params) ==
    LET marks == {i \in DOMAIN pat : pat[i].optional /\ pat[i].default = ""}
        end == IF marks = {} THEN Len(pat) ELSE CHOOSE i \in marks : \A j \in marks : i <= j
    IN [i \in 1..end |-> Filled(pat, params, i)]

-----------------------------------------------------------------------------
(* What the routes mean, without a trie.                                   *)

Ids(m) == {i \in 1..Len(table) : table[i].method = m}
Pattern(i) == table[i].pattern

\* A later registration for the same pattern replaces an earlier one.
Live(m) == {i \in Ids(m) : \A j \in Ids(m) : j > i => Pattern(j) # Pattern(i)}

Fits(seg, x) ==
    CASE seg.kind = "STATIC"    -> seg.part = x
      [] seg.kind = "PARAMETER" -> TRUE
      [] seg.kind = "REGEX"     -> x \in seg.takes
      [] seg.kind = "WILDCARD"  -> FALSE

Begins(pat, path) == Len(pat) <= Len(path) /\ \A i \in DOMAIN pat : Fits(pat[i], path[i])

Covers(pat, path) ==
    \/ Len(pat) = Len(path) /\ Begins(pat, path)
    \/ /\ pat # <<>> /\ Last(pat).kind = "WILDCARD"
       /\ Len(pat) <= Len(path) /\ Begins(Front(pat), path)

\* The last segment is optional and missing.
Missing(pat, path) ==
    pat # <<>> /\ Last(pat).optional /\ ~Covers(pat, path) /\ Covers(Front(pat), path)

Means(i, path) ==
    IF table[i].files THEN Begins(Pattern(i), path)
    ELSE Covers(Pattern(i), path) \/ Missing(Pattern(i), path)

Rank(m, i) ==
    LET given == {j \in Ids(m) : j <= i /\ Pattern(j) = Pattern(i) /\ table[j].priority # 0}
        kind == Last(Pattern(i)).kind
    IN IF table[i].files \/ Pattern(i) = <<>> THEN 0
       ELSE IF table[i].priority # 0 THEN table[i].priority
       ELSE CASE kind = "STATIC"    -> 3
              [] kind = "PARAMETER" -> 2
              [] kind = "WILDCARD"  -> 1
              [] OTHER -> IF given = {} THEN 0
                          ELSE table[CHOOSE j \in given : \A l \in given : l <= j].priority

Winners(m, path) ==
    LET meant == {i \in Live(m) : Means(i, path)}
    IN IF meant # {} THEN {i \in meant : \A j \in meant : Rank(m, j) <= Rank(m, i)}
       ELSE {i \in Live(m) : Pattern(i) = <<>>}

Binding(pat, path) ==
    LET here == {i \in DOMAIN pat : i <= Len(path) /\ pat[i].kind # "STATIC"}
        of(name) == CHOOSE i \in here : pat[i].part = name /\ \A j \in here : pat[j].part = name => i <= j
        bound == [name \in {pat[i].part : i \in here} |->
                     IF pat[of(name)].kind = "WILDCARD" THEN SubSeq(path, of(name), Len(path))
                     ELSE <<path[of(name)]>>]
    IN IF Missing(pat, path) /\ Last(pat).default # ""
       THEN Over(bound, Single(Last(pat).part, <<Last(pat).default>>)) ELSE bound

\* Two routes that share a node and are not spelled alike up to it, or of which
\* one is below a folder of files, are in each other's way.
Compatible(r, s) ==
    /\ \A i \in DOMAIN r.pattern \cap DOMAIN s.pattern :
          SubSeq(Keys(r.pattern), 1, i) = SubSeq(Keys(s.pattern), 1, i) => r.pattern[i] = s.pattern[i]
    /\ r.files /\ IsPrefix(r.pattern, s.pattern) => s.files /\ s.pattern = r.pattern

Orderly(m) == \A i, j \in Ids(m) : Compatible(table[i], table[j])

\* No segment of the path is the name that a pattern binds.
Plain(m, path) ==
    \A i \in Ids(m) : \A seg \in ToSet(Pattern(i)) :
        seg.kind # "STATIC" => ~Contains(path, seg.part)

-----------------------------------------------------------------------------
(* The tries are trees whose nodes are reached from their roots, and the   *)
(* handler of a node is one registered for it.                             *)
TypeOK ==
    \A m \in Methods : \A k \in DOMAIN trees[m] :
        /\ trees[m][k].type \in Kinds
        /\ k # <<>> => Front(k) \in DOMAIN trees[m]
        /\ trees[m][k].handler # NoHandler =>
              /\ trees[m][k].handler \in Ids(m)
              /\ Keys(Pattern(trees[m][k].handler)) = k

(* The trie finds what the routes mean: for every path just the nodes of   *)
(* the routes that match it with the highest priority, or of "/" if there  *)
(* are none, each with the handler or the directory registered last,       *)
(* whatever the order of registration and however the routes overlap.      *)
LookupAgrees ==
    \A m \in Methods : HasTree(m) /\ Orderly(m) => \A path \in Paths : Plain(m, path) =>
        /\ Best(trees[m], path) = {Keys(Pattern(i)) : i \in Winners(m, path)}
        /\ \A i \in Winners(m, path) :
              LET node == trees[m][Keys(Pattern(i))]
              IN IF table[i].files THEN node.dir = table[i].dir ELSE node.handler = i

(* A handler gets the parameters its pattern binds.  The case that fails is*)
(* left out: when the last parameter of the pattern is optional and not in *)
(* the path, those before it are lost.                                     *)
ParamsAgree ==
    \A m \in Methods : HasTree(m) /\ Orderly(m) => \A path \in Paths : Plain(m, path) =>
        \A i \in Winners(m, path) :
            \/ table[i].files
            \/ /\ Missing(Pattern(i), path)
               /\ \E seg \in ToSet(Front(Pattern(i))) : seg.kind # "STATIC"
            \/ Pattern(i) = <<>>
            \/ Params(trees[m], path, Keys(Pattern(i))) = Binding(Pattern(i), path)

Parameters(pat) == {pat[i].part : i \in {j \in DOMAIN pat : pat[j].kind = "PARAMETER"}}
\* Behind an optional segment that is not the last the URL ends.
Substitutable(pat) ==
    \A i \in DOMAIN pat :
        /\ pat[i].kind \in {"STATIC", "PARAMETER"} /\ pat[i].default = ""
        /\ pat[i].optional => i = Len(pat)
Values == UNION {ToSet(path) : path \in Paths}

(* The URL of a named route leads back to it: its node matches, and if the *)
(* match is decided for it, its handler gets the parameters the URL was    *)
(* made from.                                                              *)
UrlRoundTrip ==
    \A i \in 1..Len(table) :
        table[i].name # NoName /\ Orderly(table[i].method) /\ Substitutable(Pattern(i)) =>
            \A params \in [Parameters(Pattern(i)) -> Values] :
                LET tree == trees[table[i].method]
                    url == UrlFor(named[table[i].name], params)
                IN Pattern(i) # <<>> /\ Plain(table[i].method, url) =>
                      /\ Keys(Pattern(i)) \in Matches(tree, url)
                      /\ \A name \in DOMAIN params :
                            Params(tree, url, Keys(Pattern(i)))[name] = <<params[name]>>
=============================================================================
