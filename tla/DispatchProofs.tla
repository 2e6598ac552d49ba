--------------------------- MODULE DispatchProofs ---------------------------
(***************************************************************************)
(* A proof that the search of Router finds what the routes mean, that its  *)
(* parameters and URLs agree with the patterns, and that a request gets    *)
(* the answer it means: for every set of routes, paths and requests.       *)
(***************************************************************************)
EXTENDS Dispatch, RouterProofs, WellFoundedInduction

-----------------------------------------------------------------------------
(* Numbers.                                                                *)

LEMMA LeastNumber ==
    ASSUME NEW S \in SUBSET Nat, S # {}
    PROVE  \E n \in S : \A k \in S : n <= k
<1>. DEFINE R == OpToRel(<, Nat)
<1>1. IsWellFoundedOn(R, Nat)
  BY NatLessThanWellFounded
<1>2. \A x, y \in Nat : x < y => <<x, y>> \in R
  BY DEF OpToRel
<1>. HIDE DEF R
<1>3. PICK n \in S : \A y \in S : ~ (<<y, n>> \in R)
  BY <1>1, WFMin, Zenon
<1>4. ASSUME NEW k \in S PROVE n <= k
  <2>1. n \in Nat /\ k \in Nat
    OBVIOUS
  <2>2. <<k, n>> \notin R
    BY <1>3, Zenon
  <2>3. ~ (k < n)
    BY <1>2, <2>1, <2>2, Zenon
  <2>. QED  BY <2>1, <2>3
<1>. QED  BY <1>4

LEMMA GreatestNumber ==
    ASSUME NEW n \in Nat, NEW S \in SUBSET (1 .. n), S # {}
    PROVE  \E k \in S : \A j \in S : j <= k
<1>. DEFINE T == {i \in 1 .. n : n + 1 - i \in S}
<1>1. T \in SUBSET Nat /\ T # {}
  <2>1. PICK k \in S : TRUE
    OBVIOUS
  <2>2. k \in 1 .. n /\ n + 1 - k \in 1 .. n /\ n + 1 - (n + 1 - k) = k
    OBVIOUS
  <2>3. n + 1 - k \in T
    BY <2>2
  <2>4. T \in SUBSET Nat
    OBVIOUS
  <2>. HIDE DEF T
  <2>. QED  BY <2>3, <2>4
<1>. HIDE DEF T
<1>2. PICK i \in T : \A k \in T : i <= k
  BY <1>1, LeastNumber
<1>3. i \in 1 .. n /\ n + 1 - i \in S
  BY <1>2 DEF T
<1>4. ASSUME NEW j \in S PROVE j <= n + 1 - i
  <2>1. j \in 1 .. n /\ n + 1 - j \in 1 .. n /\ n + 1 - (n + 1 - j) = j
    OBVIOUS
  <2>2. n + 1 - j \in T
    BY <2>1 DEF T
  <2>. QED  BY <1>2, <1>3, <2>1, <2>2
<1>. QED  BY <1>3, <1>4

(* What holds of 0, and of each number if it holds of the one before.      *)
LEMMA Induction ==
    ASSUME NEW n \in Nat, NEW S, 0 \in S, \A i \in 1 .. n : i - 1 \in S => i \in S
    PROVE  \A i \in 0 .. n : i \in S
<1>. DEFINE B == {i \in 0 .. n : i \notin S}
<1>. SUFFICES ASSUME B # {} PROVE FALSE
  OBVIOUS
<1>1. B \in SUBSET Nat
  OBVIOUS
<1>. HIDE DEF B
<1>2. PICK i \in B : \A k \in B : i <= k
  BY <1>1, LeastNumber
<1>3. i \in 0 .. n /\ i \notin S /\ i # 0
  BY <1>2 DEF B
<1>4. i - 1 \in 0 .. n /\ i - 1 \notin B
  BY <1>2, <1>3
<1>5. i - 1 \in S
  BY <1>4 DEF B
<1>. QED  BY <1>3, <1>5

-----------------------------------------------------------------------------
(* Beginnings of sequences.                                                *)

LEMMA PrefixProperties ==
    ASSUME NEW V, NEW s \in Seq(V), NEW j \in 0 .. Len(s)
    PROVE  /\ SubSeq(s, 1, j) \in Seq(V) /\ Len(SubSeq(s, 1, j)) = j
           /\ \A l \in 1 .. j : SubSeq(s, 1, j)[l] = s[l]
<1>1. Len(s) \in Nat /\ j \in Int /\ \A l \in 1 .. j : s[l] \in V
  BY LenProperties, ElementOfSeq
<1>. DEFINE p == SubSeq(s, 1, j)
<1>2. /\ p \in Seq(V)
      /\ Len(p) = IF 1 <= j THEN j - 1 + 1 ELSE 0
      /\ \A l \in 1 .. j - 1 + 1 : p[l] = s[1 + l - 1]
  BY <1>1, SubSeqProperties
<1>. HIDE DEF p
<1>3. Len(p) = j
  BY <1>1, <1>2
<1>4. ASSUME NEW l \in 1 .. j PROVE p[l] = s[l]
  <2>1. l \in 1 .. j - 1 + 1 /\ 1 + l - 1 = l
    BY <1>1
  <2>. QED  BY <1>2, <2>1
<1>. QED  BY <1>2, <1>3, <1>4 DEF p

LEMMA PrefixOfPrefix ==
    ASSUME NEW V, NEW s \in Seq(V), NEW j \in 0 .. Len(s), NEW l \in 0 .. j
    PROVE  SubSeq(SubSeq(s, 1, j), 1, l) = SubSeq(s, 1, l)
<1>. DEFINE p == SubSeq(s, 1, j)
            q == SubSeq(p, 1, l)
            r == SubSeq(s, 1, l)
<1>1. Len(s) \in Nat /\ l \in 0 .. Len(s)
  BY LenProperties
<1>2. p \in Seq(V) /\ Len(p) = j /\ \A i \in 1 .. j : p[i] = s[i]
  BY PrefixProperties
<1>3. r \in Seq(V) /\ Len(r) = l /\ \A i \in 1 .. l : r[i] = s[i]
  BY <1>1, PrefixProperties
<1>. HIDE DEF p, r
<1>4. q \in Seq(V) /\ Len(q) = l /\ \A i \in 1 .. l : q[i] = p[i]
  BY <1>2, PrefixProperties
<1>. HIDE DEF q
<1>5. \A i \in 1 .. l : q[i] = r[i]
  BY <1>1, <1>2, <1>3, <1>4
<1>6. q = r
  BY <1>3, <1>4, <1>5, SeqEqual
<1>. QED  BY <1>6 DEF p, q, r

LEMMA IsPrefixProperties ==
    ASSUME NEW V, NEW s \in Seq(V), NEW t \in Seq(V)
    PROVE  IsPrefix(s, t) <=> Len(s) <= Len(t) /\ \A i \in 1 .. Len(s) : s[i] = t[i]
<1>1. Len(s) \in Nat /\ Len(t) \in Nat /\ Len(s) \in 0 .. Len(s)
  BY LenProperties
<1>. DEFINE a == SubSeq(s, 1, Len(s))
            b == SubSeq(t, 1, Len(s))
<1>2. CASE Len(s) <= Len(t)
  <2>1. Len(s) \in 0 .. Len(t)
    BY <1>1, <1>2
  <2>2. a \in Seq(V) /\ Len(a) = Len(s) /\ \A i \in 1 .. Len(s) : a[i] = s[i]
    BY <1>1, PrefixProperties
  <2>3. b \in Seq(V) /\ Len(b) = Len(s) /\ \A i \in 1 .. Len(s) : b[i] = t[i]
    BY <2>1, PrefixProperties
  <2>. HIDE DEF a, b
  <2>4. a = b <=> \A i \in 1 .. Len(s) : s[i] = t[i]
    BY <2>2, <2>3, SeqEqual
  <2>. QED  BY <1>2, <2>4 DEF IsPrefix, a, b
<1>3. CASE ~ (Len(s) <= Len(t))
  BY <1>3 DEF IsPrefix
<1>. QED  BY <1>2, <1>3

-----------------------------------------------------------------------------
(* The way along a pattern.                                                *)

Way(pat, j) == SubSeq(Keys(pat), 1, j)

LEMMA WayProperties ==
    ASSUME NEW pat \in Seq(Segments), NEW j \in 0 .. Len(pat)
    PROVE  /\ Len(pat) \in Nat
           /\ Way(pat, j) \in Seq(STRING) /\ Len(Way(pat, j)) = j /\ Way(pat, j) \in Line(pat)
           /\ \A l \in 1 .. j : Way(pat, j)[l] = pat[l].part
           /\ \A l \in 0 .. j : SubSeq(Way(pat, j), 1, l) = Way(pat, l)
           /\ Way(pat, 0) = <<>> /\ Way(pat, Len(pat)) = Keys(pat)
           /\ j # 0 => /\ Way(pat, j) # <<>>
                       /\ Front(Way(pat, j)) = Way(pat, j - 1)
                       /\ Last(Way(pat, j)) = pat[j].part
<1>1. /\ Keys(pat) \in Seq(STRING) /\ Len(Keys(pat)) = Len(pat) /\ Len(pat) \in Nat
      /\ DOMAIN pat = 1 .. Len(pat)
  BY KeysProperties, LenProperties
<1>2. \A l \in 1 .. Len(pat) : Keys(pat)[l] = pat[l].part
  BY <1>1 DEF Keys
<1>. DEFINE s == Keys(pat)
            w == Way(pat, j)
<1>. HIDE DEF s
<1>3. w \in Seq(STRING) /\ Len(w) = j /\ \A l \in 1 .. j : w[l] = s[l]
  BY <1>1, PrefixProperties DEF Way, s
<1>4. \A l \in 1 .. j : w[l] = pat[l].part
  BY <1>1, <1>2, <1>3 DEF s
<1>5. \A l \in 0 .. j : SubSeq(w, 1, l) = Way(pat, l)
  BY <1>1, PrefixOfPrefix DEF Way, s
<1>6. w \in Line(pat)
  BY <1>1 DEF Line, Way
<1>7. Way(pat, 0) = <<>>
  <2>1. 0 \in 0 .. Len(s)
    BY <1>1 DEF s
  <2>. QED  BY <1>1, <2>1, BeginningProperties DEF Way, s
<1>8. Way(pat, Len(pat)) = Keys(pat)
  BY <1>1, SubSeqFull DEF Way
<1>9. ASSUME j # 0
      PROVE  w # <<>> /\ Front(w) = Way(pat, j - 1) /\ Last(w) = pat[j].part
  <2>1. j \in 1 .. j /\ j - 1 \in 0 .. j
    BY <1>1, <1>9
  <2>2. w # <<>>
    BY <1>3, <1>9, EmptySeq
  <2>3. Front(w) = Way(pat, j - 1)
    BY <1>3, <1>5, <2>1 DEF Front
  <2>4. Last(w) = pat[j].part
    BY <1>3, <1>4, <2>1 DEF Last
  <2>. QED  BY <2>2, <2>3, <2>4
<1>. QED  BY <1>1, <1>3, <1>4, <1>5, <1>6, <1>7, <1>8, <1>9

LEMMA LineIsWays ==
    ASSUME NEW pat \in Seq(Segments)
    PROVE  /\ \A k : k \in Line(pat) <=> \E j \in 0 .. Len(pat) : k = Way(pat, j)
           /\ \A k \in Line(pat) : Len(k) \in 0 .. Len(pat) /\ k = Way(pat, Len(k))
<1>1. \A k : k \in Line(pat) <=> \E j \in 0 .. Len(pat) : k = Way(pat, j)
  BY DEF Line, Way
<1>2. ASSUME NEW k \in Line(pat)
      PROVE  Len(k) \in 0 .. Len(pat) /\ k = Way(pat, Len(k))
  <2>1. PICK j \in 0 .. Len(pat) : k = Way(pat, j)
    BY <1>1
  <2>. QED  BY <2>1, WayProperties
<1>. QED  BY <1>1, <1>2

(* Two routes that are not in each other's way share a node only where     *)
(* they are spelled alike.                                                 *)
LEMMA CompatibleProperties ==
    ASSUME NEW r, NEW s, r.pattern \in Seq(Segments), s.pattern \in Seq(Segments), Compatible(r, s)
    PROVE  /\ \A j \in 1 .. Len(r.pattern), l \in 1 .. Len(s.pattern) :
                 Way(r.pattern, j) = Way(s.pattern, l) => j = l /\ r.pattern[j] = s.pattern[l]
           /\ Keys(r.pattern) \in Line(s.pattern) => IsPrefix(r.pattern, s.pattern)
           /\ Keys(r.pattern) = Keys(s.pattern) => r.pattern = s.pattern
           /\ r.files /\ Keys(r.pattern) \in Line(s.pattern) => s.files /\ s.pattern = r.pattern
<1>. DEFINE p == r.pattern
            q == s.pattern
<1>1. /\ Len(p) \in Nat /\ DOMAIN p = 1 .. Len(p)
      /\ Len(q) \in Nat /\ DOMAIN q = 1 .. Len(q)
  BY LenProperties
<1>2. /\ \A i \in DOMAIN p \cap DOMAIN q : Way(p, i) = Way(q, i) => p[i] = q[i]
      /\ r.files /\ IsPrefix(p, q) => s.files /\ q = p
  BY DEF Compatible, Way
<1>3. p \in Seq(Segments) /\ q \in Seq(Segments)
  OBVIOUS
<1>. HIDE DEF p, q
<1>4. ASSUME NEW j \in 1 .. Len(p), NEW l \in 1 .. Len(q), Way(p, j) = Way(q, l)
      PROVE  j = l /\ p[j] = q[l]
  <2>1. j \in 0 .. Len(p) /\ l \in 0 .. Len(q)
    BY <1>1
  <2>2. j = l
    BY <1>3, <1>4, <2>1, WayProperties
  <2>. QED  BY <1>1, <1>2, <1>4, <2>2
<1>5. ASSUME Keys(p) \in Line(q) PROVE IsPrefix(p, q)
  <2>1. Len(p) \in 0 .. Len(p) /\ Len(Keys(p)) = Len(p) /\ Keys(p) = Way(p, Len(p))
    BY <1>1, <1>3, KeysProperties, WayProperties
  <2>2. Len(p) \in 0 .. Len(q) /\ Keys(p) = Way(q, Len(p))
    BY <1>3, <1>5, <2>1, LineIsWays
  <2>3. ASSUME NEW i \in 1 .. Len(p) PROVE p[i] = q[i]
    <3>1. i \in 1 .. Len(q) /\ i \in 0 .. Len(p)
      BY <1>1, <2>2
    <3>2. Way(p, i) = SubSeq(Keys(p), 1, i)
      BY DEF Way
    <3>3. Way(q, i) = SubSeq(Way(q, Len(p)), 1, i)
      BY <1>3, <2>2, <3>1, WayProperties
    <3>4. Way(p, i) = Way(q, i)
      BY <2>2, <3>2, <3>3
    <3>. QED  BY <1>4, <3>1, <3>4
  <2>. QED  BY <1>1, <1>3, <2>2, <2>3, IsPrefixProperties
<1>6. ASSUME Keys(p) = Keys(q) PROVE p = q
  <2>1. Keys(q) \in Line(q)
    BY <1>3, LineProperties
  <2>2. Len(p) = Len(q)
    BY <1>3, <1>6, KeysProperties
  <2>3. IsPrefix(p, q)
    BY <1>5, <1>6, <2>1
  <2>4. \A i \in 1 .. Len(p) : p[i] = q[i]
    BY <1>3, <2>3, IsPrefixProperties
  <2>. QED  BY <1>3, <2>2, <2>4, SeqEqual
<1>7. ASSUME r.files, Keys(p) \in Line(q) PROVE s.files /\ q = p
  BY <1>2, <1>5, <1>7
<1>. QED  BY <1>4, <1>5, <1>6, <1>7 DEF p, q

-----------------------------------------------------------------------------
(* What a trie says of the routes.                                         *)

Spelled(node, seg) ==
    /\ node.type = seg.kind /\ node.optional = seg.optional
    /\ seg.kind = "PARAMETER" => node.default = seg.default
    /\ seg.kind = "REGEX" => node.takes = seg.takes

Serving(m, i, node) ==
    /\ node.files = table[i].files /\ node.priority = Rank(m, i)
    /\ node.catchAll = (Pattern(i) = <<>> /\ ~table[i].files)
    /\ IF table[i].files THEN node.dir = table[i].dir ELSE node.handler = i

Bare(node) == node.handler = NoHandler /\ ~node.files /\ node.priority = 0 /\ ~node.catchAll

Domain(m) == \A k : k \in DOMAIN trees[m] <=> \E i \in Ids(m) : k \in Line(Pattern(i))
Spelling(m) ==
    \A i \in Ids(m) : \A j \in 1 .. Len(Pattern(i)) :
        Spelled(trees[m][Way(Pattern(i), j)], Pattern(i)[j])
Ending(m) == \A i \in Live(m) : Serving(m, i, trees[m][Keys(Pattern(i))])
Passing(m) ==
    \A k \in DOMAIN trees[m] : (\A i \in Ids(m) : Keys(Pattern(i)) # k) => Bare(trees[m][k])

Faithful(m) == Domain(m) /\ Spelling(m) /\ Ending(m) /\ Passing(m)

NamesHold ==
    \A i \in 1 .. Len(table) : table[i].name # NoName =>
        /\ table[i].name \in DOMAIN named /\ named[table[i].name] = Pattern(i)
        /\ ~ table[i].files

\* A folder is named by texts alone.
FoldersHold ==
    \A i \in 1 .. Len(table) : table[i].files =>
        \A j \in 1 .. Len(Pattern(i)) : Pattern(i)[j].kind = "STATIC"

Agreement == NamesHold /\ FoldersHold /\ \A m \in Methods : Orderly(m) => Faithful(m)

-----------------------------------------------------------------------------
(* What a registration does to a node.                                     *)

SameUse(a, b) ==
    /\ a.handler = b.handler /\ a.files = b.files /\ a.dir = b.dir
    /\ a.priority = b.priority /\ a.catchAll = b.catchAll
SameSpelling(a, b) ==
    a.type = b.type /\ a.optional = b.optional /\ a.default = b.default /\ a.takes = b.takes

LEMMA NewNodeProperties ==
    ASSUME NEW type
    PROVE  Node(type).type = type /\ Node(type).optional = FALSE /\ Bare(Node(type))
BY DEF Node, Bare

LEMMA TouchedUse ==
    ASSUME NEW node \in Nodes, NEW seg \in Segments
    PROVE  SameUse(Touched(node, seg), node)
<1>1. CASE seg.kind = "PARAMETER"
  <2>1. Touched(node, seg) = [node EXCEPT !.optional = seg.optional, !.default = seg.default]
    BY <1>1 DEF Touched
  <2>. QED  BY <2>1 DEF Nodes, SameUse
<1>2. CASE seg.kind = "REGEX"
  <2>1. Touched(node, seg) = [node EXCEPT !.takes = seg.takes]
    BY <1>2 DEF Touched
  <2>. QED  BY <2>1 DEF Nodes, SameUse
<1>3. CASE seg.kind # "PARAMETER" /\ seg.kind # "REGEX"
  <2>1. Touched(node, seg) = node
    BY <1>3 DEF Touched
  <2>. QED  BY <2>1 DEF SameUse
<1>. QED  BY <1>1, <1>2, <1>3

LEMMA TouchedSpelling ==
    ASSUME NEW node \in Nodes, NEW seg \in Segments,
           node.type = seg.kind, seg.kind # "PARAMETER" => node.optional = FALSE
    PROVE  Spelled(Touched(node, seg), seg)
<1>1. seg.optional \in BOOLEAN /\ (seg.kind # "PARAMETER" => seg.optional = FALSE)
  BY DEF Segments, AnySegment
<1>2. CASE seg.kind = "PARAMETER"
  <2>1. Touched(node, seg) = [node EXCEPT !.optional = seg.optional, !.default = seg.default]
    BY <1>2 DEF Touched
  <2>. QED  BY <1>2, <2>1 DEF Nodes, Spelled
<1>3. CASE seg.kind = "REGEX"
  <2>1. Touched(node, seg) = [node EXCEPT !.takes = seg.takes]
    BY <1>3 DEF Touched
  <2>. QED  BY <1>1, <1>3, <2>1 DEF Nodes, Spelled
<1>4. CASE seg.kind # "PARAMETER" /\ seg.kind # "REGEX"
  <2>1. Touched(node, seg) = node
    BY <1>4 DEF Touched
  <2>. QED  BY <1>1, <1>4, <2>1 DEF Spelled
<1>. QED  BY <1>2, <1>3, <1>4

LEMMA SpelledAlike ==
    ASSUME NEW a, NEW b, NEW seg, SameSpelling(a, b), Spelled(b, seg)
    PROVE  Spelled(a, seg)
BY DEF SameSpelling, Spelled

(* On its way a new pattern keeps the use of the nodes there are, and      *)
(* spells those that are spelled as it is, and those it makes.             *)
LEMMA GrownUse ==
    ASSUME NEW S \in Places, NEW tree \in [S -> Nodes], NEW pat \in Seq(Segments)
    PROVE  /\ \A k \in S : k \notin Line(pat) => Grown(tree, pat)[k] = tree[k]
           /\ \A k \in S : SameUse(Grown(tree, pat)[k], tree[k])
           /\ \A k \in Line(pat) : k \notin S => Bare(Grown(tree, pat)[k])
           /\ \A j \in 1 .. Len(pat) :
                 \/ Way(pat, j) \notin S
                 \/ Spelled(tree[Way(pat, j)], pat[j])
                 => Spelled(Grown(tree, pat)[Way(pat, j)], pat[j])
<1>. DEFINE T == S \cup Line(pat)
            g == Grown(tree, pat)
<1>1. DOMAIN tree = S
  OBVIOUS
<1>2. /\ \A k \in T : k \notin Line(pat) => g[k] = tree[k]
      /\ \A k \in Line(pat) : k = <<>> => g[k] = Old(tree, pat, k)
      /\ \A k \in Line(pat) : k # <<>> => g[k] = Touched(Old(tree, pat, k), pat[Len(k)])
  BY <1>1 DEF Grown
<1>. HIDE DEF g
<1>3. \A k \in Line(pat) : k # <<>> => Len(k) \in 1 .. Len(pat)
  BY LineProperties
<1>4. \A j \in 1 .. Len(pat) : pat[j] \in Segments /\ pat[j].kind \in Kinds
  <2>1. \A j \in 1 .. Len(pat) : pat[j] \in Segments
    BY ElementOfSeq
  <2>. QED  BY <2>1 DEF Segments, AnySegment
<1>5. /\ \A k \in S : Old(tree, pat, k) = tree[k]
      /\ \A k \in Line(pat) : k \notin S /\ k # <<>> => Old(tree, pat, k) = Node(pat[Len(k)].kind)
      /\ <<>> \notin S => Old(tree, pat, <<>>) = Node("STATIC")
  BY <1>1 DEF Old
<1>6. \A k \in Line(pat) : Old(tree, pat, k) \in Nodes
  <2>. SUFFICES ASSUME NEW k \in Line(pat) PROVE Old(tree, pat, k) \in Nodes
    OBVIOUS
  <2>1. CASE k \in S
    BY <1>5, <2>1
  <2>2. CASE k \notin S /\ k = <<>>
    BY <1>5, <2>2, NodeProperties DEF Kinds
  <2>3. CASE k \notin S /\ k # <<>>
    BY <1>3, <1>4, <1>5, <2>3, NodeProperties
  <2>. QED  BY <2>1, <2>2, <2>3
<1>7. ASSUME NEW k \in Line(pat) PROVE SameUse(g[k], Old(tree, pat, k))
  <2>1. CASE k = <<>>
    BY <1>2, <2>1 DEF SameUse
  <2>2. CASE k # <<>>
    BY <1>2, <1>3, <1>4, <1>6, <2>2, TouchedUse
  <2>. QED  BY <2>1, <2>2
<1>8. ASSUME NEW k \in S PROVE SameUse(g[k], tree[k])
  <2>1. CASE k \in Line(pat)
    BY <1>5, <1>7, <2>1
  <2>2. CASE k \notin Line(pat)
    BY <1>2, <2>2 DEF SameUse
  <2>. QED  BY <2>1, <2>2
<1>9. ASSUME NEW k \in Line(pat), k \notin S PROVE Bare(g[k])
  <2>1. Bare(Old(tree, pat, k))
    BY <1>5, <1>9, NewNodeProperties
  <2>. QED  BY <1>7, <2>1 DEF Bare, SameUse
<1>10. ASSUME NEW j \in 1 .. Len(pat),
              Way(pat, j) \notin S \/ Spelled(tree[Way(pat, j)], pat[j])
       PROVE  Spelled(g[Way(pat, j)], pat[j])
  <2>. DEFINE k == Way(pat, j)
  <2>1. k \in Line(pat) /\ k # <<>> /\ Len(k) = j
    BY WayProperties, LenProperties
  <2>. HIDE DEF k
  <2>2. g[k] = Touched(Old(tree, pat, k), pat[j]) /\ Old(tree, pat, k) \in Nodes
    BY <1>2, <1>6, <2>1
  <2>3. Old(tree, pat, k).type = pat[j].kind
    BY <1>5, <1>10, <2>1, NewNodeProperties DEF Spelled, k
  <2>4. pat[j].kind # "PARAMETER" => Old(tree, pat, k).optional = FALSE
    <3>1. pat[j].kind # "PARAMETER" => pat[j].optional = FALSE
      BY <1>4 DEF Segments, AnySegment
    <3>. QED  BY <1>5, <1>10, <2>1, <3>1, NewNodeProperties DEF Spelled, k
  <2>. QED  BY <1>4, <2>2, <2>3, <2>4, TouchedSpelling DEF k
<1>. QED  BY <1>2, <1>8, <1>9, <1>10 DEF g

-----------------------------------------------------------------------------
(* The table.                                                              *)

Given(m, i) == {j \in Ids(m) : j <= i /\ Pattern(j) = Pattern(i) /\ table[j].priority # 0}
Latest(S) == CHOOSE j \in S : \A l \in S : l <= j

LEMMA RankIs ==
    ASSUME NEW m, NEW i
    PROVE  Rank(m, i) =
             IF table[i].files \/ Pattern(i) = <<>> THEN 0
             ELSE IF table[i].priority # 0 THEN table[i].priority
             ELSE CASE Last(Pattern(i)).kind = "STATIC"    -> 3
                    [] Last(Pattern(i)).kind = "PARAMETER" -> 2
                    [] Last(Pattern(i)).kind = "WILDCARD"  -> 1
                    [] OTHER -> IF Given(m, i) = {} THEN 0 ELSE table[Latest(Given(m, i))].priority
BY DEF Rank, Given, Latest

LEMMA LatestProperties ==
    ASSUME NEW n \in Nat, NEW S \in SUBSET (1 .. n), S # {}
    PROVE  Latest(S) \in S /\ \A l \in S : l <= Latest(S)
BY GreatestNumber DEF Latest

LEMMA TableProperties ==
    ASSUME IInv
    PROVE  /\ table \in Seq(Entries) /\ Len(table) \in Nat
           /\ \A m : Ids(m) \in SUBSET (1 .. Len(table))
           /\ \A i \in 1 .. Len(table) :
                 /\ table[i] \in Entries /\ table[i].method \in Methods /\ table[i].files \in BOOLEAN
                 /\ table[i].priority \in Nat
                 /\ Pattern(i) = table[i].pattern /\ Pattern(i) \in Seq(Segments)
                 /\ Len(Pattern(i)) \in Nat /\ DOMAIN Pattern(i) = 1 .. Len(Pattern(i))
                 /\ \A j \in 1 .. Len(Pattern(i)) : Pattern(i)[j] \in Segments
<1>1. table \in Seq(Entries) /\ Len(table) \in Nat
  BY LenProperties DEF IInv, Types
<1>2. \A m : Ids(m) \in SUBSET (1 .. Len(table))
  BY DEF Ids
<1>3. \A i \in 1 .. Len(table) : table[i] \in Entries
  BY <1>1, ElementOfSeq
<1>4. ASSUME NEW i \in 1 .. Len(table)
      PROVE  /\ table[i] \in Entries /\ table[i].method \in Methods /\ table[i].files \in BOOLEAN
             /\ table[i].priority \in Nat
             /\ Pattern(i) = table[i].pattern /\ Pattern(i) \in Seq(Segments)
  BY <1>3 DEF Entries, Pattern
<1>5. ASSUME NEW i \in 1 .. Len(table)
      PROVE  /\ Len(Pattern(i)) \in Nat /\ DOMAIN Pattern(i) = 1 .. Len(Pattern(i))
             /\ \A j \in 1 .. Len(Pattern(i)) : Pattern(i)[j] \in Segments
  BY <1>4, LenProperties, ElementOfSeq
<1>. QED  BY <1>1, <1>2, <1>4, <1>5

(* Of the registrations of one pattern the last is live.                   *)
LEMMA LiveProperties ==
    ASSUME IInv, NEW m, NEW i \in Ids(m)
    PROVE  \E l \in Live(m) : Pattern(l) = Pattern(i) /\ \A j \in Ids(m) : Pattern(j) = Pattern(i) => j <= l
<1>. DEFINE S == {j \in Ids(m) : Pattern(j) = Pattern(i)}
<1>1. Len(table) \in Nat /\ S \in SUBSET (1 .. Len(table)) /\ S # {}
  BY TableProperties
<1>2. PICK l \in S : \A j \in S : j <= l
  BY <1>1, GreatestNumber
<1>3. \A j \in Ids(m) : Pattern(j) = Pattern(i) => j <= l
  BY <1>2
<1>4. l \in Live(m)
  <2>1. ASSUME NEW j \in Ids(m), j > l PROVE Pattern(j) # Pattern(l)
    BY <1>1, <1>2, <1>3, <2>1 DEF Ids
  <2>. QED  BY <1>2, <2>1 DEF Live
<1>. QED  BY <1>2, <1>3, <1>4

(* A registration appends to the table and changes nothing in it.          *)
LEMMA AppendedTable ==
    ASSUME IInv, NEW e \in Entries, table' = Append(table, e)
    PROVE  /\ Len(table') = Len(table) + 1 /\ table'[Len(table) + 1] = e
           /\ \A i \in 1 .. Len(table) : table'[i] = table[i] /\ Pattern(i)' = Pattern(i)
           /\ \A n : n = Len(table) + 1 => Pattern(n)' = e.pattern
           /\ \A m : Ids(m)' = IF m = e.method THEN Ids(m) \cup {Len(table) + 1} ELSE Ids(m)
<1>1. table \in Seq(Entries) /\ Len(table) \in Nat
  BY TableProperties
<1>2. /\ Len(table') = Len(table) + 1
      /\ \A i \in 1 .. Len(table) : table'[i] = table[i]
      /\ table'[Len(table) + 1] = e
  BY <1>1, AppendProperties
<1>3. /\ \A i \in 1 .. Len(table) : Pattern(i)' = Pattern(i)
      /\ \A n : n = Len(table) + 1 => Pattern(n)' = e.pattern
  BY <1>2 DEF Pattern
<1>4. ASSUME NEW m
      PROVE  Ids(m)' = IF m = e.method THEN Ids(m) \cup {Len(table) + 1} ELSE Ids(m)
  <2>1. 1 .. Len(table') = (1 .. Len(table)) \cup {Len(table) + 1}
    BY <1>1, <1>2
  <2>. QED  BY <1>2, <2>1 DEF Ids
<1>. QED  BY <1>2, <1>3, <1>4

LEMMA RankStays ==
    ASSUME IInv, NEW e \in Entries, table' = Append(table, e), NEW m, NEW i \in Ids(m)
    PROVE  Rank(m, i)' = Rank(m, i)
<1>1. /\ Len(table) \in Nat /\ i \in 1 .. Len(table) /\ Ids(m) \in SUBSET (1 .. Len(table))
      /\ table'[i] = table[i] /\ Pattern(i)' = Pattern(i)
  BY TableProperties, AppendedTable
<1>2. Given(m, i)' = Given(m, i)
  <2>1. \A j : j \in Ids(m)' /\ j <= i <=> j \in Ids(m) /\ j <= i
    BY <1>1, AppendedTable
  <2>2. \A j \in Ids(m) : table'[j] = table[j] /\ Pattern(j)' = Pattern(j)
    BY <1>1, AppendedTable
  <2>. QED  BY <1>1, <2>1, <2>2 DEF Given
<1>3. Given(m, i) # {} => table'[Latest(Given(m, i))] = table[Latest(Given(m, i))]
  <2>1. Given(m, i) \in SUBSET (1 .. Len(table))
    BY <1>1 DEF Given
  <2>. QED  BY <1>1, <2>1, LatestProperties, AppendedTable
<1>4. Rank(m, i)' =
        IF table[i].files \/ Pattern(i) = <<>> THEN 0
        ELSE IF table[i].priority # 0 THEN table[i].priority
        ELSE CASE Last(Pattern(i)).kind = "STATIC"    -> 3
               [] Last(Pattern(i)).kind = "PARAMETER" -> 2
               [] Last(Pattern(i)).kind = "WILDCARD"  -> 1
               [] OTHER -> IF Given(m, i)' = {} THEN 0 ELSE table'[Latest(Given(m, i)')].priority
  BY <1>1 DEF Rank, Given, Latest
<1>. QED  BY <1>2, <1>3, <1>4, RankIs

-----------------------------------------------------------------------------
(* A registration keeps the trie faithful.                                 *)

(* What becomes of the node at the end of the pattern: before and after.   *)
Ended(e, before, after) ==
    /\ SameSpelling(after, before)
    /\ IF e.files
       THEN /\ after.files = TRUE /\ after.dir = e.dir
            /\ after.priority = before.priority /\ after.catchAll = before.catchAll
       ELSE /\ after.handler = Len(table) + 1 /\ after.files = before.files
            /\ after.catchAll = (e.pattern = <<>> \/ before.catchAll)
            /\ after.priority = IF e.pattern = <<>> THEN before.priority
                                ELSE Priority(before, e.priority)

(* One trie is another but for the end of the pattern.                     *)
Extended(T, e, old, new) ==
    /\ \A k \in T : k # Keys(e.pattern) => new[k] = old[k]
    /\ Ended(e, old[Keys(e.pattern)], new[Keys(e.pattern)])

(* Whether there is a route for the pattern of e, and how its node is used.*)
Follows(m, e, before) ==
    \/ \E l \in Live(m) : /\ Pattern(l) = e.pattern /\ Serving(m, l, before)
                          /\ \A j \in Ids(m) : Pattern(j) = e.pattern => j <= l
    \/ Bare(before) /\ \A j \in Ids(m) : Pattern(j) # e.pattern

(* Of a regular expression the priority given last counts, be it this one. *)
LEMMA RegexRank ==
    ASSUME IInv, NEW m, NEW i \in Ids(m), ~ table[i].files, Pattern(i) # <<>>,
           Last(Pattern(i)).kind = "REGEX"
    PROVE  Rank(m, i) = IF Given(m, i) = {} THEN 0 ELSE table[Latest(Given(m, i))].priority
<1>1. CASE table[i].priority = 0
  BY <1>1, RankIs
<1>2. CASE table[i].priority # 0
  <2>1. /\ i \in 1 .. Len(table) /\ Len(table) \in Nat /\ Given(m, i) \in SUBSET (1 .. Len(table))
        /\ i \in Given(m, i) /\ \A j \in Given(m, i) : j <= i
    BY <1>2, TableProperties DEF Given
  <2>2. Latest(Given(m, i)) \in Given(m, i) /\ i <= Latest(Given(m, i))
    BY <2>1, LatestProperties
  <2>3. Latest(Given(m, i)) = i
    <3>. DEFINE l == Latest(Given(m, i))
    <3>1. l \in 1 .. Len(table) /\ l <= i /\ i <= l
      BY <2>1, <2>2
    <3>. HIDE DEF l
    <3>. QED  BY <2>1, <3>1 DEF l
  <2>. QED  BY <1>2, <2>2, <2>3, RankIs
<1>. QED  BY <1>1, <1>2

(* The node at the end of a pattern is that of the route there was for it, *)
(* or has no use yet.                                                      *)
LEMMA EndBefore ==
    ASSUME IInv, NEW m \in Methods, Faithful(m), NEW S \in Places, trees[m] \in [S -> Nodes],
           NEW e \in Entries, \A i \in Ids(m) : Compatible(table[i], e),
           NEW before, before = Grown(trees[m], e.pattern)[Keys(e.pattern)]
    PROVE  Follows(m, e, before)
<1>. DEFINE pat == e.pattern
            k == Keys(pat)
<1>1. pat \in Seq(Segments) /\ k \in Line(pat)
  BY LineProperties DEF Entries
<1>2. ASSUME NEW i \in Ids(m), Keys(Pattern(i)) = k PROVE Pattern(i) = pat
  <2>1. table[i].pattern \in Seq(Segments) /\ Pattern(i) = table[i].pattern
    BY TableProperties
  <2>. QED  BY <1>1, <1>2, <2>1, CompatibleProperties
<1>3. CASE \E i \in Ids(m) : Pattern(i) = pat
  <2>1. PICK i \in Ids(m) : Pattern(i) = pat
    BY <1>3
  <2>2. PICK l \in Live(m) : Pattern(l) = pat /\ \A j \in Ids(m) : Pattern(j) = pat => j <= l
    BY <2>1, LiveProperties
  <2>3. l \in Ids(m)
    BY DEF Live
  <2>4. k \in S
    BY <1>1, <2>2, <2>3 DEF Faithful, Domain
  <2>5. SameUse(before, trees[m][k])
    BY <1>1, <2>4, GrownUse
  <2>6. Serving(m, l, trees[m][k])
    BY <2>2 DEF Faithful, Ending
  <2>7. Serving(m, l, before)
    BY <2>5, <2>6 DEF Serving, SameUse
  <2>. QED  BY <2>2, <2>7 DEF Follows
<1>4. CASE \A i \in Ids(m) : Pattern(i) # pat
  <2>1. CASE k \in S
    <3>1. SameUse(before, trees[m][k])
      BY <1>1, <2>1, GrownUse
    <3>2. \A i \in Ids(m) : Keys(Pattern(i)) # k
      BY <1>2, <1>4
    <3>3. Bare(trees[m][k])
      BY <2>1, <3>2 DEF Faithful, Passing
    <3>. QED  BY <1>4, <3>1, <3>3 DEF Bare, SameUse, Follows
  <2>2. CASE k \notin S
    BY <1>1, <1>4, <2>2, GrownUse DEF Follows
  <2>. QED  BY <2>1, <2>2
<1>. QED  BY <1>3, <1>4

(* The priority a node has for the registrations before, and by the table. *)
LEMMA FollowedPriority ==
    ASSUME IInv, NEW m \in Methods, NEW e \in Entries, e.method = m,
           \A i \in Ids(m) : Compatible(table[i], e) /\ Compatible(e, table[i]),
           NEW before, Follows(m, e, before)
    PROVE  /\ e.files \/ e.pattern = <<>> => before.priority = 0
           /\ before.files => e.files
           /\ before.catchAll => e.pattern = <<>> /\ ~ e.files
<1>. DEFINE pat == e.pattern
<1>1. CASE Bare(before)
  BY <1>1 DEF Bare
<1>2. ASSUME NEW l \in Live(m), Pattern(l) = pat, Serving(m, l, before)
      PROVE  /\ e.files \/ pat = <<>> => before.priority = 0
             /\ before.files => e.files
             /\ before.catchAll => pat = <<>> /\ ~ e.files
  <2>1. l \in Ids(m) /\ l \in 1 .. Len(table) /\ table[l].pattern = pat /\ pat \in Seq(Segments)
    BY <1>2, TableProperties DEF Live, Pattern, Entries
  <2>2. Keys(pat) \in Line(pat)
    BY <2>1, LineProperties
  <2>3. e.files \in BOOLEAN /\ table[l].files \in BOOLEAN
    BY <2>1, TableProperties DEF Entries
  <2>4. e.files => table[l].files
    BY <2>1, <2>2, CompatibleProperties
  <2>5. table[l].files => e.files
    BY <2>1, <2>2, CompatibleProperties
  <2>6. before.files = table[l].files /\ before.priority = Rank(m, l)
    BY <1>2 DEF Serving
  <2>7. before.catchAll = (pat = <<>> /\ ~ table[l].files)
    BY <1>2 DEF Serving
  <2>8. table[l].files \/ pat = <<>> => Rank(m, l) = 0
    BY <1>2, RankIs
  <2>. QED  BY <2>3, <2>4, <2>5, <2>6, <2>7, <2>8
<1>. QED  BY <1>1, <1>2 DEF Follows

LEMMA NewRank ==
    ASSUME IInv, NEW m \in Methods, NEW e \in Entries, e.method = m, table' = Append(table, e),
           \A i \in Ids(m) : Compatible(table[i], e) /\ Compatible(e, table[i]),
           NEW before, Follows(m, e, before), NEW n, n = Len(table) + 1,
           e.pattern # <<>> => before.type = Last(e.pattern).kind
    PROVE  Rank(m, n)' = IF e.files \/ e.pattern = <<>> THEN before.priority
                         ELSE Priority(before, e.priority)
<1>. DEFINE pat == e.pattern
            kind == Last(pat).kind
            given == Given(m, n)'
<1>1. /\ Len(table) \in Nat /\ table'[n] = e /\ Pattern(n)' = pat /\ Ids(m)' = Ids(m) \cup {n}
      /\ Ids(m) \in SUBSET (1 .. Len(table))
      /\ \A i \in Ids(m) : table'[i] = table[i] /\ Pattern(i)' = Pattern(i)
  BY TableProperties, AppendedTable
<1>2. Rank(m, n)' =
        IF e.files \/ pat = <<>> THEN 0
        ELSE IF e.priority # 0 THEN e.priority
        ELSE CASE kind = "STATIC"    -> 3
               [] kind = "PARAMETER" -> 2
               [] kind = "WILDCARD"  -> 1
               [] OTHER -> IF given = {} THEN 0 ELSE table'[Latest(given)].priority
  <2>1. Rank(m, n)' =
          IF table'[n].files \/ Pattern(n)' = <<>> THEN 0
          ELSE IF table'[n].priority # 0 THEN table'[n].priority
          ELSE CASE Last(Pattern(n)').kind = "STATIC"    -> 3
                 [] Last(Pattern(n)').kind = "PARAMETER" -> 2
                 [] Last(Pattern(n)').kind = "WILDCARD"  -> 1
                 [] OTHER -> IF given = {} THEN 0 ELSE table'[Latest(given)].priority
    BY DEF Rank, Given, Latest
  <2>. HIDE DEF given
  <2>. QED  BY <1>1, <2>1
<1>3. CASE e.files \/ pat = <<>>
  BY <1>2, <1>3, FollowedPriority
<1>4. CASE ~ e.files /\ pat # <<>> /\ e.priority # 0
  <2>. HIDE DEF given, kind
  <2>1. Rank(m, n)' = e.priority
    BY <1>2, <1>4
  <2>2. Priority(before, e.priority) = e.priority
    BY <1>4 DEF Priority
  <2>. QED  BY <1>4, <2>1, <2>2
<1>5. CASE ~ e.files /\ pat # <<>> /\ e.priority = 0 /\ kind # "REGEX"
  <2>1. kind \in Kinds
    <3>1. pat \in Seq(Segments) /\ Len(pat) \in Nat /\ Len(pat) # 0
      BY <1>5, LenProperties, EmptySeq DEF Entries
    <3>2. pat[Len(pat)] \in Segments
      BY <3>1, ElementOfSeq
    <3>. QED  BY <3>2 DEF Last, Segments, AnySegment
  <2>2. before.type = kind
    BY <1>5
  <2>3. kind = "STATIC" \/ kind = "PARAMETER" \/ kind = "WILDCARD"
    BY <1>5, <2>1 DEF Kinds
  <2>. HIDE DEF given, kind
  <2>4. Priority(before, e.priority) =
          CASE kind = "STATIC" -> 3 [] kind = "PARAMETER" -> 2 [] OTHER -> 1
    BY <1>5, <2>2, <2>3 DEF Priority
  <2>5. Rank(m, n)' = CASE kind = "STATIC" -> 3 [] kind = "PARAMETER" -> 2 [] OTHER -> 1
    BY <1>2, <1>5, <2>3
  <2>. QED  BY <1>5, <2>4, <2>5
<1>6. CASE ~ e.files /\ pat # <<>> /\ e.priority = 0 /\ kind = "REGEX"
  <2>1. Priority(before, e.priority) = before.priority
    BY <1>6 DEF Priority
  <2>2. Rank(m, n)' = IF given = {} THEN 0 ELSE table'[Latest(given)].priority
    BY <1>2, <1>6
  <2>3. given = {j \in Ids(m) : Pattern(j) = pat /\ table[j].priority # 0}
    <3>1. \A j \in Ids(m) : j <= n /\ j # n
      BY <1>1
    <3>2. given = {j \in Ids(m) \cup {n} : j <= n /\ Pattern(j)' = pat /\ table'[j].priority # 0}
      BY <1>1 DEF Given
    <3>3. \A j : j \in given <=> j \in Ids(m) /\ Pattern(j) = pat /\ table[j].priority # 0
      BY <1>1, <1>6, <3>1, <3>2
    <3>. QED  BY <3>3
  <2>. HIDE DEF given
  <2>4. CASE Bare(before) /\ \A j \in Ids(m) : Pattern(j) # pat
    BY <1>6, <2>1, <2>2, <2>3, <2>4 DEF Bare
  <2>5. ASSUME NEW l \in Live(m), Pattern(l) = pat, Serving(m, l, before),
               \A j \in Ids(m) : Pattern(j) = pat => j <= l
        PROVE  Rank(m, n)' = before.priority
    <3>1. l \in Ids(m)
      BY DEF Live
    <3>2. given = Given(m, l)
      BY <2>3, <2>5 DEF Given
    <3>3. ~ table[l].files
      <4>1. table[l].pattern = pat /\ pat \in Seq(Segments) /\ Keys(pat) \in Line(pat)
        BY <2>5, LineProperties DEF Pattern, Entries
      <4>. QED  BY <1>6, <3>1, <4>1, CompatibleProperties
    <3>4. before.priority = IF given = {} THEN 0 ELSE table[Latest(given)].priority
      BY <1>6, <2>5, <3>1, <3>2, <3>3, RegexRank DEF Serving
    <3>5. given # {} => table'[Latest(given)] = table[Latest(given)]
      <4>1. given \in SUBSET (1 .. Len(table)) /\ given \in SUBSET Ids(m)
        BY <1>1, <2>3
      <4>. QED  BY <1>1, <4>1, LatestProperties
    <3>. QED  BY <2>2, <3>4, <3>5
  <2>. QED  BY <1>6, <2>1, <2>4, <2>5 DEF Follows
<1>. QED  BY <1>3, <1>4, <1>5, <1>6

LEMMA LiveStays ==
    ASSUME IInv, NEW e \in Entries, table' = Append(table, e), NEW m, NEW n, n = Len(table) + 1
    PROVE  /\ Live(m)' = IF m = e.method THEN {i \in Live(m) : Pattern(i) # e.pattern} \cup {n}
                         ELSE Live(m)
           /\ \A i \in Ids(m) : \A node : Serving(m, i, node)' <=> Serving(m, i, node)
<1>1. /\ Len(table) \in Nat /\ Ids(m) \in SUBSET (1 .. Len(table))
      /\ Ids(m)' = IF m = e.method THEN Ids(m) \cup {n} ELSE Ids(m)
      /\ \A i \in 1 .. Len(table) : table'[i] = table[i] /\ Pattern(i)' = Pattern(i)
      /\ Pattern(n)' = e.pattern
  BY TableProperties, AppendedTable
<1>2. \A i \in Ids(m) : i < n /\ Pattern(i)' = Pattern(i) /\ table'[i] = table[i]
  BY <1>1
<1>3. Live(m)' = {i \in Ids(m)' : \A j \in Ids(m)' : j > i => Pattern(j)' # Pattern(i)'}
  BY DEF Live
<1>4. ASSUME m = e.method
      PROVE  Live(m)' = {i \in Live(m) : Pattern(i) # e.pattern} \cup {n}
  <2>1. \A i : i \in Live(m)' <=> (i \in Live(m) /\ Pattern(i) # e.pattern) \/ i = n
    <3>1. ASSUME NEW i \in Live(m), Pattern(i) # e.pattern PROVE i \in Live(m)'
      BY <1>1, <1>2, <1>3, <1>4, <3>1 DEF Live
    <3>2. n \in Live(m)'
      <4>1. \A j \in Ids(m)' : ~ (j > n)
        BY <1>1, <1>2, <1>4
      <4>. QED  BY <1>1, <1>3, <1>4, <4>1
    <3>3. ASSUME NEW i \in Live(m)', i # n PROVE i \in Live(m) /\ Pattern(i) # e.pattern
      BY <1>1, <1>2, <1>3, <1>4, <3>3 DEF Live
    <3>. QED  BY <3>1, <3>2, <3>3
  <2>. QED  BY <1>4, <2>1
<1>5. ASSUME m # e.method PROVE Live(m)' = Live(m)
  <2>1. \A i : i \in Live(m)' <=> i \in Live(m)
    BY <1>1, <1>2, <1>3, <1>5 DEF Live
  <2>2. Live(m)' \subseteq Ids(m)' /\ Live(m) \subseteq Ids(m)
    BY DEF Live
  <2>. QED  BY <2>1, <2>2
<1>6. ASSUME NEW i \in Ids(m), NEW node
      PROVE  Serving(m, i, node)' <=> Serving(m, i, node)
  BY <1>2, RankStays DEF Serving
<1>7. \A i \in Ids(m) : \A node : Serving(m, i, node)' <=> Serving(m, i, node)
  BY <1>6
<1>8. Live(m)' = IF m = e.method THEN {i \in Live(m) : Pattern(i) # e.pattern} \cup {n} ELSE Live(m)
  BY <1>4, <1>5
<1>. QED  BY <1>7, <1>8, Zenon

LEMMA OrderlyBefore ==
    ASSUME IInv, NEW e \in Entries, table' = Append(table, e), NEW m, Orderly(m)'
    PROVE  /\ Orderly(m)
           /\ m = e.method => \A i \in Ids(m) : Compatible(table[i], e) /\ Compatible(e, table[i])
<1>1. \A i, j \in Ids(m)' : Compatible(table'[i], table'[j])
  BY DEF Orderly
<1>2. Len(table) \in Nat /\ Ids(m) \in SUBSET (1 .. Len(table)) /\ Ids(m) \in SUBSET Ids(m)'
  BY TableProperties, AppendedTable
<1>3. \A i \in Ids(m) : table'[i] = table[i]
  BY <1>2, AppendedTable
<1>4. m = e.method => Len(table) + 1 \in Ids(m)' /\ table'[Len(table) + 1] = e
  BY AppendedTable
<1>5. Orderly(m)
  BY <1>1, <1>2, <1>3 DEF Orderly
<1>6. ASSUME m = e.method, NEW i \in Ids(m) PROVE Compatible(table[i], e) /\ Compatible(e, table[i])
  <2>1. i \in Ids(m)' /\ table'[i] = table[i]
    BY <1>2, <1>3
  <2>. QED  BY <1>1, <1>4, <1>6, <2>1
<1>. QED  BY <1>5, <1>6

(* The tries of the other methods.                                         *)
LEMMA OthersStay ==
    ASSUME IInv, NEW e \in Entries, table' = Append(table, e), NEW m, m # e.method,
           trees'[m] = trees[m], Faithful(m)
    PROVE  Faithful(m)'
<1>1. /\ Len(table) \in Nat /\ Ids(m) \in SUBSET (1 .. Len(table)) /\ Ids(m)' = Ids(m)
      /\ Live(m)' = Live(m)
      /\ \A i \in Ids(m) : Pattern(i)' = Pattern(i)
  BY TableProperties, AppendedTable, LiveStays
<1>2. Domain(m)'
  BY <1>1 DEF Faithful, Domain
<1>3. Spelling(m)'
  BY <1>1 DEF Faithful, Spelling
<1>4. Ending(m)'
  <2>1. ASSUME NEW i \in Live(m), NEW node, node = trees[m][Keys(Pattern(i))]
        PROVE  Serving(m, i, node)'
    <3>1. Serving(m, i, node) /\ i \in Ids(m)
      BY <2>1 DEF Faithful, Ending, Live
    <3>. QED  BY <3>1, LiveStays
  <2>2. \A i \in Live(m) : Pattern(i)' = Pattern(i)
    BY <1>1 DEF Live
  <2>3. ASSUME NEW i \in Live(m)' PROVE Serving(m, i, trees[m][Keys(Pattern(i))])'
    <3>1. Keys(Pattern(i))' = Keys(Pattern(i)) /\ i \in Live(m)
      BY <1>1, <2>2 DEF Keys
    <3>2. ASSUME NEW node, node = trees[m][Keys(Pattern(i))]'
          PROVE  Serving(m, i, node)'
      <4>1. trees[m][Keys(Pattern(i))]' = trees[m][Keys(Pattern(i))]
        BY <3>1
      <4>. QED  BY <2>1, <3>1, <3>2, <4>1
    <3>. QED  BY <3>2 DEF Serving
  <2>. QED  BY <2>3 DEF Ending
<1>5. Passing(m)'
  BY <1>1 DEF Faithful, Passing
<1>. QED  BY <1>2, <1>3, <1>4, <1>5 DEF Faithful

(* The trie of the method the route is registered for.                     *)
LEMMA RegistrationAgrees ==
    ASSUME IInv, NEW m \in Methods, NEW S \in Places, trees[m] \in [S -> Nodes],
           NEW e \in Entries, e.method = m, table' = Append(table, e),
           NEW tree \in [S \cup Line(e.pattern) -> Nodes], trees'[m] = tree,
           Extended(S \cup Line(e.pattern), e, Grown(trees[m], e.pattern), tree),
           Faithful(m), Orderly(m)'
    PROVE  Faithful(m)'
<1>. DEFINE n == Len(table) + 1
            pat == e.pattern
            at == Keys(pat)
            T == S \cup Line(pat)
            g == Grown(trees[m], pat)
<1>1. /\ Len(table) \in Nat /\ Ids(m) \in SUBSET (1 .. Len(table)) /\ n \notin Ids(m)
      /\ Ids(m)' = Ids(m) \cup {n} /\ table'[n] = e
      /\ \A i \in Ids(m) : Pattern(i)' = Pattern(i) /\ table'[i] = table[i]
      /\ \A i : i = n => Pattern(i)' = pat
  BY TableProperties, AppendedTable
<1>2. /\ \A i \in Ids(m) : Pattern(i) \in Seq(Segments) /\ Pattern(i) = table[i].pattern
      /\ pat \in Seq(Segments)
      /\ \A i \in Ids(m) : Compatible(table[i], e) /\ Compatible(e, table[i])
  BY <1>1, TableProperties, OrderlyBefore DEF Entries
<1>3. /\ \A k \in S : k \notin Line(pat) => g[k] = trees[m][k]
      /\ \A k \in S : SameUse(g[k], trees[m][k])
      /\ \A k \in Line(pat) : k \notin S => Bare(g[k])
      /\ \A j \in 1 .. Len(pat) :
            \/ Way(pat, j) \notin S
            \/ Spelled(trees[m][Way(pat, j)], pat[j])
            => Spelled(g[Way(pat, j)], pat[j])
  BY <1>2, GrownUse
<1>4. \A k : k \in S <=> \E i \in Ids(m) : k \in Line(Pattern(i))
  BY DEF Faithful, Domain
<1>5. at \in Line(pat) /\ at \in T /\ DOMAIN tree = T
  BY <1>2, LineProperties
<1>6. \A k \in T : k # at => tree[k] = g[k]
  BY DEF Extended
<1>7. \A k \in T : SameSpelling(tree[k], g[k])
  BY <1>6 DEF Extended, Ended, SameSpelling, g, T
<1>8. \A i \in Ids(m) : Keys(Pattern(i)) = at => Pattern(i) = pat
  BY <1>2, CompatibleProperties
<1>9. Ended(e, g[at], tree[at])
  BY DEF Extended
<1>10. Follows(m, e, g[at])
  BY <1>2, EndBefore
<1>. HIDE DEF n, T, g
<1>11. Domain(m)'
  <2>1. ASSUME NEW k
        PROVE  k \in T <=> \E i \in Ids(m) \cup {n} : k \in Line(Pattern(i)')
    BY <1>1, <1>4 DEF T
  <2>2. \A k : k \in DOMAIN trees'[m] <=> \E i \in Ids(m)' : k \in Line(Pattern(i)')
    BY <1>1, <1>5, <2>1
  <2>. QED  BY <2>2 DEF Domain, Line, Keys
<1>12. ASSUME NEW i \in Ids(m) \cup {n}, NEW p, p = Pattern(i)', NEW j \in 1 .. Len(p)
       PROVE  Spelled(tree[Way(p, j)], p[j])
  <2>1. j \in 0 .. Len(p) /\ p \in Seq(Segments)
    BY <1>1, <1>2, <1>12, LenProperties
  <2>2. Way(p, j) \in Line(p) /\ Way(p, j) \in T
    BY <1>1, <1>4, <1>12, <2>1, WayProperties DEF T
  <2>3. ASSUME NEW l \in 1 .. Len(pat), Way(p, j) = Way(pat, l)
        PROVE  p[j] = pat[l]
    <3>1. CASE i = n
      BY <1>1, <1>2, <1>12, <2>1, <2>3, <3>1, WayProperties, LenProperties
    <3>2. CASE i \in Ids(m)
      BY <1>1, <1>2, <1>12, <2>3, <3>2, CompatibleProperties
    <3>. QED  BY <3>1, <3>2
  <2>4. \A l \in 1 .. Len(pat) : Spelled(g[Way(pat, l)], pat[l])
    <3>. SUFFICES ASSUME NEW l \in 1 .. Len(pat), Way(pat, l) \in S
                  PROVE  Spelled(trees[m][Way(pat, l)], pat[l])
      BY <1>3
    <3>1. PICK f \in Ids(m) : Way(pat, l) \in Line(Pattern(f))
      BY <1>4
    <3>. DEFINE q == Pattern(f)
    <3>2. q \in Seq(Segments) /\ q = table[f].pattern /\ Len(pat) \in Nat /\ l \in 0 .. Len(pat)
      BY <1>2, LenProperties
    <3>3. Len(Way(pat, l)) = l
      BY <1>2, <3>2, WayProperties
    <3>4. l \in 0 .. Len(q) /\ Way(pat, l) = Way(q, l) /\ Len(q) \in Nat
      BY <3>1, <3>2, <3>3, LineIsWays, LenProperties
    <3>. HIDE DEF q
    <3>5. l \in 1 .. Len(q)
      BY <3>2, <3>4
    <3>6. Compatible(table[f], e)
      BY <1>2
    <3>7. q[l] = pat[l]
      BY <1>2, <3>2, <3>4, <3>5, <3>6, CompatibleProperties
    <3>8. Spelled(trees[m][Way(q, l)], q[l])
      BY <3>5 DEF Faithful, Spelling, q
    <3>. QED  BY <3>4, <3>7, <3>8
  <2>5. CASE Way(p, j) \in Line(pat)
    <3>1. PICK l \in 0 .. Len(pat) : Way(p, j) = Way(pat, l)
      BY <1>2, <2>5, LineIsWays
    <3>2. l = j /\ Len(pat) \in Nat
      BY <1>2, <2>1, <3>1, WayProperties, LenProperties
    <3>3. l \in 1 .. Len(pat)
      BY <3>1, <3>2
    <3>4. Spelled(g[Way(p, j)], p[j])
      BY <2>3, <2>4, <3>1, <3>3
    <3>. QED  BY <1>7, <2>2, <3>4, SpelledAlike
  <2>6. CASE Way(p, j) \notin Line(pat)
    <3>1. i \in Ids(m) /\ p = Pattern(i)
      BY <1>1, <1>12, <2>2, <2>6
    <3>2. Spelled(trees[m][Way(p, j)], p[j]) /\ Way(p, j) \in S
      BY <2>2, <2>6, <3>1, <1>12 DEF Faithful, Spelling, T
    <3>3. tree[Way(p, j)] = trees[m][Way(p, j)]
      BY <1>3, <1>5, <1>6, <2>2, <2>6, <3>2
    <3>. QED  BY <3>2, <3>3
  <2>. QED  BY <2>5, <2>6
<1>13. Spelling(m)'
  <2>1. \A i \in Ids(m)' : \A p : p = Pattern(i)' => \A j \in 1 .. Len(p) : Spelled(tree[Way(p, j)], p[j])
    BY <1>1, <1>12
  <2>2. \A i \in Ids(m)' : \A j \in 1 .. Len(Pattern(i)') :
            Spelled(trees'[m][Way(Pattern(i)', j)], Pattern(i)'[j])
    BY <2>1
  <2>. QED  BY <2>2, Zenon DEF Spelling
<1>14. ASSUME NEW i \in {l \in Live(m) : Pattern(l) # pat}, NEW node, node = tree[Keys(Pattern(i))]
       PROVE  Serving(m, i, node)'
  <2>1. i \in Ids(m) /\ Keys(Pattern(i)) # at
    BY <1>8 DEF Live
  <2>2. Keys(Pattern(i)) \in Line(Pattern(i))
    BY <1>2, <2>1, LineProperties
  <2>3. Keys(Pattern(i)) \in S
    BY <1>4, <2>1, <2>2
  <2>4. SameUse(node, trees[m][Keys(Pattern(i))])
    BY <1>3, <1>6, <1>14, <2>1, <2>3 DEF T
  <2>5. Serving(m, i, trees[m][Keys(Pattern(i))])
    BY DEF Faithful, Ending
  <2>6. Serving(m, i, node)
    BY <2>4, <2>5 DEF SameUse, Serving
  <2>. QED  BY <2>1, <2>6, LiveStays
<1>15. ASSUME NEW i, i = n, NEW node, node = tree[at]
       PROVE  Serving(m, i, node)'
  <2>1. pat # <<>> => g[at].type = Last(pat).kind
    <3>. SUFFICES ASSUME pat # <<>> PROVE g[at].type = Last(pat).kind
      OBVIOUS
    <3>1. Len(pat) \in Nat /\ Len(pat) # 0
      BY <1>2, LenProperties, EmptySeq
    <3>2. Len(pat) \in 1 .. Len(pat) /\ Len(pat) \in 0 .. Len(pat)
      BY <3>1
    <3>3. Way(pat, Len(pat)) = at
      BY <1>2, <3>2, WayProperties
    <3>4. Spelled(tree[at], pat[Len(pat)])
      BY <1>1, <1>12, <3>2, <3>3
    <3>5. SameSpelling(tree[at], g[at])
      BY <1>5, <1>7
    <3>. QED  BY <3>4, <3>5 DEF Last, Spelled, SameSpelling
  <2>2. Rank(m, i)' = IF e.files \/ pat = <<>> THEN g[at].priority ELSE Priority(g[at], e.priority)
    BY <1>2, <1>10, <1>15, <2>1, NewRank DEF n
  <2>3. /\ e.files \/ pat = <<>> => g[at].priority = 0
        /\ g[at].files => e.files
        /\ g[at].catchAll => pat = <<>> /\ ~ e.files
    BY <1>2, <1>10, FollowedPriority
  <2>4. e.files \in BOOLEAN /\ tree[at] \in Nodes
    BY <1>5 DEF Entries, T
  <2>5. node.files \in BOOLEAN /\ node.catchAll \in BOOLEAN
    BY <1>15, <2>4 DEF Nodes
  <2>6. g[at] \in Nodes
    <3>1. Rooted(trees[m])
      BY DEF IInv
    <3>2. g \in [T -> Nodes]
      BY <1>2, <3>1, GrownProperties DEF g, T
    <3>. QED  BY <1>5, <3>2
  <2>7. g[at].files \in BOOLEAN /\ g[at].catchAll \in BOOLEAN
    BY <2>6 DEF Nodes
  <2>8. /\ node.files = e.files
        /\ node.priority = Rank(m, i)'
        /\ node.catchAll = (pat = <<>> /\ ~ e.files)
        /\ IF e.files THEN node.dir = e.dir ELSE node.handler = i
    BY <1>9, <1>15, <2>2, <2>3, <2>4, <2>5, <2>7 DEF Ended, n
  <2>9. table'[i] = e /\ Pattern(i)' = pat
    BY <1>1, <1>15
  <2>. QED  BY <2>8, <2>9 DEF Serving
<1>16. Ending(m)'
  <2>1. Live(m)' = {l \in Live(m) : Pattern(l) # pat} \cup {n}
    BY LiveStays DEF n
  <2>2. ASSUME NEW i \in Live(m)', NEW p, p = Pattern(i)', NEW node, node = tree[Keys(p)]
        PROVE  Serving(m, i, node)'
    <3>1. CASE i = n
      BY <1>1, <1>15, <2>2, <3>1
    <3>2. CASE i # n
      <4>1. i \in {l \in Live(m) : Pattern(l) # pat} /\ i \in Ids(m)
        BY <2>1, <3>2 DEF Live
      <4>2. Pattern(i)' = Pattern(i)
        BY <1>1, <4>1
      <4>. QED  BY <1>14, <2>2, <4>1, <4>2
    <3>. QED  BY <3>1, <3>2
  <2>3. \A i \in Live(m)' : \A node : node = trees'[m][Keys(Pattern(i)')] => Serving(m, i, node)'
    BY <2>2
  <2>. QED  BY <2>3, Zenon DEF Ending, Serving, Keys
<1>17. Passing(m)'
  <2>1. ASSUME NEW k \in T, \A i \in Ids(m) \cup {n} : Keys(Pattern(i)') # k
        PROVE  Bare(tree[k])
    <3>1. k # at /\ \A i \in Ids(m) : Keys(Pattern(i)) # k
      BY <1>1, <2>1
    <3>2. tree[k] = g[k]
      BY <1>6, <3>1
    <3>3. CASE k \in S
      <4>1. Bare(trees[m][k]) /\ SameUse(g[k], trees[m][k])
        BY <1>3, <3>1, <3>3 DEF Faithful, Passing
      <4>. QED  BY <3>2, <4>1 DEF Bare, SameUse
    <3>4. CASE k \notin S
      BY <1>3, <3>2, <3>4 DEF T
    <3>. QED  BY <3>3, <3>4
  <2>2. \A k \in DOMAIN trees'[m] : (\A i \in Ids(m)' : Keys(Pattern(i)') # k) => Bare(trees'[m][k])
    BY <1>1, <1>5, <2>1
  <2>. QED  BY <2>2, Zenon DEF Passing, Keys, Bare
<1>. QED  BY <1>11, <1>13, <1>16, <1>17 DEF Faithful

-----------------------------------------------------------------------------
(* The steps.                                                              *)

LEMMA SingleProperties ==
    ASSUME NEW key, NEW value
    PROVE  DOMAIN Single(key, value) = {key} /\ Single(key, value)[key] = value
BY DEF Single

LEMMA EmptyMap ==
    ASSUME NEW f \in [{} -> {}]
    PROVE  f = <<>>
<1>1. 1 .. 0 = {} /\ 0 \in Nat
  OBVIOUS
<1>2. f \in [1 .. 0 -> {}]
  BY <1>1
<1>3. f \in Seq({})
  BY <1>1, <1>2, IsASeq
<1>4. DOMAIN f = 1 .. Len(f) /\ Len(f) \in Nat
  BY <1>3, LenProperties
<1>5. Len(f) # 0 => 1 \in 1 .. Len(f)
  BY <1>4
<1>. QED  BY <1>3, <1>4, <1>5, EmptySeq

LEMMA OverProperties ==
    ASSUME NEW f, NEW g
    PROVE  /\ DOMAIN Over(f, g) = DOMAIN f \cup DOMAIN g
           /\ \A k \in DOMAIN f : Over(f, g)[k] = f[k]
           /\ \A k \in DOMAIN g : k \notin DOMAIN f => Over(f, g)[k] = g[k]
BY DEF Over

LEMMA StepAgrees ==
    ASSUME IInv, Agreement, NEW m \in Methods, NEW S \in Places, trees[m] \in [S -> Nodes],
           NEW e \in Entries, e.method = m, table' = Append(table, e),
           NEW tree \in [S \cup Line(e.pattern) -> Nodes], trees' = [trees EXCEPT ![m] = tree],
           Extended(S \cup Line(e.pattern), e, Grown(trees[m], e.pattern), tree),
           NamesHold', e.files => \A j \in 1 .. Len(e.pattern) : e.pattern[j].kind = "STATIC"
    PROVE  Agreement'
<1>1. trees \in [Methods -> Tries]
  BY DEF IInv, Types
<1>2. trees'[m] = tree /\ \A o \in Methods : o # m => trees'[o] = trees[o]
  BY <1>1
<1>3. ASSUME NEW o \in Methods, Orderly(o)' PROVE Faithful(o)'
  <2>1. Faithful(o)
    BY <1>3, OrderlyBefore DEF Agreement
  <2>2. CASE o = m
    BY <1>2, <1>3, <2>1, <2>2, RegistrationAgrees
  <2>3. CASE o # m
    BY <1>2, <2>1, <2>3, OthersStay
  <2>. QED  BY <2>2, <2>3
<1>4. FoldersHold'
  <2>. SUFFICES ASSUME NEW i \in 1 .. Len(table'), table'[i].files, NEW p, p = Pattern(i)'
                PROVE  \A j \in 1 .. Len(p) : p[j].kind = "STATIC"
    BY DEF FoldersHold
  <2>1. /\ Len(table') = Len(table) + 1 /\ Len(table) \in Nat
        /\ \A j \in 1 .. Len(table) : table'[j] = table[j] /\ Pattern(j)' = Pattern(j)
        /\ \A n : n = Len(table) + 1 => table'[n] = e /\ Pattern(n)' = e.pattern
    BY AppendedTable, TableProperties
  <2>2. CASE i = Len(table) + 1
    BY <2>1, <2>2
  <2>3. CASE i \in 1 .. Len(table)
    BY <2>1, <2>3 DEF Agreement, FoldersHold
  <2>. QED  BY <2>1, <2>2, <2>3
<1>. QED  BY <1>3, <1>4 DEF Agreement

LEMMA HandledEnd ==
    ASSUME NEW T \in Places, NEW grown \in [T -> Nodes], NEW e \in Entries, ~ e.files,
           Keys(e.pattern) \in T, NEW tree, tree = Handled(grown, e.pattern, Len(table) + 1, e.priority)
    PROVE  Extended(T, e, grown, tree)
<1>. DEFINE pat == e.pattern
            at == Keys(pat)
            id == Len(table) + 1
            priority == Priority(grown[at], e.priority)
<1>1. grown[at] \in Nodes /\ pat \in Seq(Segments)
  BY DEF Entries
<1>2. CASE pat = <<>>
  <2>1. at = <<>>
    BY <1>1, <1>2, KeysProperties
  <2>2. tree = [grown EXCEPT ![at].catchAll = TRUE, ![at].handler = id]
    BY <1>2, <2>1 DEF Handled
  <2>. HIDE DEF at, id
  <2>3. tree[at] = [grown[at] EXCEPT !.catchAll = TRUE, !.handler = id]
    BY <1>1, <2>2 DEF Nodes, at
  <2>4. \A k \in T : k # at => tree[k] = grown[k]
    BY <1>1, <2>2
  <2>5. Ended(e, grown[at], tree[at])
    BY <1>1, <1>2, <2>3 DEF Ended, Nodes, SameSpelling, id
  <2>. QED  BY <2>4, <2>5 DEF at, Extended
<1>3. CASE pat # <<>>
  <2>1. tree = [grown EXCEPT ![at].handler = id, ![at].priority = priority]
    BY <1>3 DEF Handled
  <2>. HIDE DEF at, id, priority
  <2>2. tree[at] = [grown[at] EXCEPT !.handler = id, !.priority = priority]
    BY <1>1, <2>1 DEF Nodes, at
  <2>3. \A k \in T : k # at => tree[k] = grown[k]
    BY <1>1, <2>1
  <2>4. grown[at].catchAll \in BOOLEAN
    BY <1>1 DEF Nodes
  <2>5. Ended(e, grown[at], tree[at])
    BY <1>1, <1>3, <2>2, <2>4 DEF Ended, Nodes, SameSpelling, id, priority
  <2>. QED  BY <2>3, <2>5 DEF at, Extended
<1>. QED  BY <1>2, <1>3

LEMMA FolderEnd ==
    ASSUME NEW T \in Places, NEW grown \in [T -> Nodes], NEW e \in Entries, e.files,
           Keys(e.pattern) \in T,
           NEW tree, tree = [grown EXCEPT ![Keys(e.pattern)].files = TRUE, ![Keys(e.pattern)].dir = e.dir]
    PROVE  Extended(T, e, grown, tree)
<1>. DEFINE at == Keys(e.pattern)
            folder(node) == [node EXCEPT !.files = TRUE, !.dir = e.dir]
<1>1. grown[at] \in Nodes
  OBVIOUS
<1>. HIDE DEF at
<1>2. tree = [grown EXCEPT ![at].files = TRUE, ![at].dir = e.dir]
  BY DEF at
<1>3. tree[at] = folder(grown[at])
  BY <1>1, <1>2 DEF Nodes, at
<1>4. \A k \in T : k # at => tree[k] = grown[k]
  BY <1>1, <1>2
<1>5. ASSUME NEW node \in Nodes
      PROVE  /\ SameSpelling(folder(node), node)
             /\ folder(node).files = TRUE /\ folder(node).dir = e.dir
             /\ folder(node).priority = node.priority /\ folder(node).catchAll = node.catchAll
  BY DEF Nodes, SameSpelling
<1>. HIDE DEF folder
<1>6. Ended(e, grown[at], tree[at])
  BY <1>1, <1>3, <1>5 DEF Ended
<1>. QED  BY <1>4, <1>6 DEF at, Extended

LEMMA AddRouteAgrees ==
    ASSUME IInv, Agreement, NEW m \in Methods, NEW pat \in Seq(Segments),
           NEW name \in Names \cup {NoName}, NEW given \in Nat, AddRoute(m, pat, name, given)
    PROVE  Agreement'
<1>1. Rooted(trees[m]) /\ trees[m] \in Tries /\ trees \in [Methods -> Tries]
  BY DEF IInv, Types
<1>2. PICK S \in Places : trees[m] \in [S -> Nodes]
  BY <1>1 DEF Tries
<1>. DEFINE T == S \cup Line(pat)
            grown == Grown(trees[m], pat)
            tree == Handled(grown, pat, Len(table) + 1, given)
            e == [method |-> m, pattern |-> pat, name |-> name, priority |-> given,
                  files |-> FALSE, dir |-> <<>>]
<1>3. T \in Places /\ grown \in [T -> Nodes] /\ Keys(pat) \in T
  BY <1>1, <1>2, GrownProperties, LineProperties
<1>4. trees' = [trees EXCEPT ![m] = tree] /\ table' = Append(table, e)
  BY <1>1 DEF AddRoute, Registered
<1>5. /\ e \in Entries /\ e.method = m /\ e.pattern = pat /\ e.files = FALSE /\ e.name = name
      /\ e.priority = given
  BY EmptySeq DEF Entries
<1>. HIDE DEF e
<1>6. Len(table) \in Nat /\ Len(table) + 1 \in Nat
  BY TableProperties
<1>7. tree \in [T -> Nodes]
  BY <1>3, <1>6, HandledProperties
<1>8. Extended(T, e, grown, tree)
  <2>1. tree = Handled(grown, e.pattern, Len(table) + 1, e.priority) /\ Keys(e.pattern) \in T /\ ~ e.files
    BY <1>3, <1>5
  <2>. HIDE DEF tree, grown, T
  <2>. QED  BY <1>3, <1>5, <2>1, HandledEnd
<1>9. NamesHold'
  <2>. SUFFICES ASSUME NEW i \in 1 .. Len(table'), table'[i].name # NoName,
                       NEW p, p = Pattern(i)'
                PROVE  /\ table'[i].name \in DOMAIN named' /\ named'[table'[i].name] = p
                       /\ ~ table'[i].files
    BY DEF NamesHold
  <2>1. /\ Len(table') = Len(table) + 1
        /\ \A j \in 1 .. Len(table) : table'[j] = table[j] /\ Pattern(j)' = Pattern(j)
        /\ \A n : n = Len(table) + 1 => table'[n] = e /\ Pattern(n)' = pat
    BY <1>4, <1>5, AppendedTable
  <2>2. named' = IF name = NoName THEN named ELSE Over(Single(name, pat), named)
    BY DEF AddRoute
  <2>3. name \notin DOMAIN named
    BY DEF AddRoute
  <2>4. CASE i = Len(table) + 1
    <3>1. table'[i].name = name /\ p = pat /\ ~ table'[i].files
      BY <1>5, <2>1, <2>4
    <3>2. named' = Over(Single(name, pat), named)
      BY <2>2, <3>1
    <3>3. DOMAIN Single(name, pat) = {name} /\ Single(name, pat)[name] = pat
      BY SingleProperties, Zenon
    <3>4. name \in DOMAIN named' /\ named'[name] = pat
      <4>. DEFINE f == Single(name, pat)
      <4>1. name \in DOMAIN f /\ f[name] = pat
        BY <3>3
      <4>. HIDE DEF f
      <4>2. name \in DOMAIN Over(f, named) /\ Over(f, named)[name] = pat
        BY <4>1 DEF Over
      <4>. QED  BY <3>2, <4>2 DEF f
    <3>. QED  BY <3>1, <3>4
  <2>5. CASE i \in 1 .. Len(table)
    <3>1. table'[i] = table[i] /\ p = Pattern(i)
      BY <2>1, <2>5
    <3>2. /\ table[i].name \in DOMAIN named /\ named[table[i].name] = Pattern(i)
          /\ ~ table[i].files
      BY <2>5, <3>1 DEF Agreement, NamesHold
    <3>3. table[i].name # name
      BY <2>3, <3>2
    <3>4. table[i].name \in DOMAIN named' /\ named'[table[i].name] = named[table[i].name]
      <4>1. CASE name = NoName
        BY <2>2, <3>2, <4>1
      <4>2. CASE name # NoName
        <5>1. named' = Over(Single(name, pat), named)
          BY <2>2, <4>2
        <5>. DEFINE f == Single(name, pat)
        <5>2. DOMAIN f = {name}
          BY SingleProperties, Zenon
        <5>. HIDE DEF f
        <5>3. \A key \in DOMAIN named : key \notin DOMAIN f =>
                 key \in DOMAIN Over(f, named) /\ Over(f, named)[key] = named[key]
          BY DEF Over
        <5>. QED  BY <3>2, <3>3, <5>1, <5>2, <5>3 DEF f
      <4>. QED  BY <4>1, <4>2
    <3>. QED  BY <3>1, <3>2, <3>4
  <2>. QED  BY <1>6, <2>1, <2>4, <2>5
<1>10. /\ tree \in [S \cup Line(e.pattern) -> Nodes]
       /\ Extended(S \cup Line(e.pattern), e, Grown(trees[m], e.pattern), tree)
  BY <1>5, <1>7, <1>8
<1>. HIDE DEF tree
<1>. QED  BY <1>2, <1>4, <1>5, <1>9, <1>10, StepAgrees, Zenon

LEMMA AddStaticRouteAgrees ==
    ASSUME IInv, Agreement, NEW pat \in Seq(Segments), NEW dir \in Seq(STRING),
           \A j \in 1 .. Len(pat) : pat[j].kind = "STATIC", AddStaticRoute(pat, dir)
    PROVE  Agreement'
<1>. DEFINE m == "GET"
<1>0. m \in Methods
  BY RouterAssumption
<1>1. Rooted(trees[m]) /\ trees[m] \in Tries /\ trees \in [Methods -> Tries]
  BY <1>0 DEF IInv, Types
<1>2. PICK S \in Places : trees[m] \in [S -> Nodes]
  BY <1>1 DEF Tries
<1>. DEFINE T == S \cup Line(pat)
            grown == Grown(trees[m], pat)
            tree == [grown EXCEPT ![Keys(pat)].files = TRUE, ![Keys(pat)].dir = dir]
            e == [method |-> m, pattern |-> pat, name |-> NoName, priority |-> 0,
                  files |-> TRUE, dir |-> dir]
<1>3. T \in Places /\ grown \in [T -> Nodes] /\ Keys(pat) \in T
  BY <1>1, <1>2, GrownProperties, LineProperties
<1>4. trees' = [trees EXCEPT ![m] = tree] /\ table' = Append(table, e)
  BY <1>0, <1>1 DEF AddStaticRoute, Registered
<1>5. /\ e \in Entries /\ e.method = m /\ e.pattern = pat /\ e.files = TRUE /\ e.name = NoName
      /\ e.dir = dir
  BY <1>0 DEF Entries
<1>. HIDE DEF e
<1>7. tree \in [T -> Nodes]
  BY <1>3, FolderProperties
<1>8. Extended(T, e, grown, tree)
  <2>1. /\ tree = [grown EXCEPT ![Keys(e.pattern)].files = TRUE, ![Keys(e.pattern)].dir = e.dir]
        /\ Keys(e.pattern) \in T /\ e.files
    BY <1>3, <1>5
  <2>. HIDE DEF tree, grown, T
  <2>. QED  BY <1>3, <1>5, <2>1, FolderEnd
<1>9. NamesHold'
  <2>. SUFFICES ASSUME NEW i \in 1 .. Len(table'), table'[i].name # NoName,
                       NEW p, p = Pattern(i)'
                PROVE  /\ table'[i].name \in DOMAIN named' /\ named'[table'[i].name] = p
                       /\ ~ table'[i].files
    BY DEF NamesHold
  <2>1. /\ Len(table') = Len(table) + 1 /\ Len(table) \in Nat
        /\ \A j \in 1 .. Len(table) : table'[j] = table[j] /\ Pattern(j)' = Pattern(j)
        /\ \A n : n = Len(table) + 1 => table'[n] = e
    BY <1>4, <1>5, AppendedTable, TableProperties
  <2>2. i \in 1 .. Len(table)
    BY <1>5, <2>1
  <2>3. table'[i] = table[i] /\ p = Pattern(i) /\ named' = named
    BY <2>1, <2>2 DEF AddStaticRoute
  <2>. QED  BY <2>2, <2>3 DEF Agreement, NamesHold
<1>10. /\ tree \in [S \cup Line(e.pattern) -> Nodes]
       /\ Extended(S \cup Line(e.pattern), e, Grown(trees[m], e.pattern), tree)
  BY <1>5, <1>7, <1>8
<1>. HIDE DEF tree, m
<1>. QED  BY <1>0, <1>2, <1>4, <1>5, <1>9, <1>10, StepAgrees, Zenon

LEMMA InitAgrees == Init => Agreement
<1>. SUFFICES ASSUME Init PROVE Agreement
  OBVIOUS
<1>1. Len(table) = 0 /\ \A m : Ids(m) = {}
  BY EmptySeq DEF Init, Ids
<1>2. \A m \in Methods : DOMAIN trees[m] = {}
  BY EmptySeq DEF Init
<1>3. \A m \in Methods : Domain(m) /\ Spelling(m) /\ Ending(m) /\ Passing(m)
  BY <1>1, <1>2 DEF Domain, Spelling, Ending, Live, Passing
<1>. QED  BY <1>1, <1>3 DEF Agreement, NamesHold, FoldersHold, Faithful

LEMMA NextAgrees == IInv /\ Agreement /\ [Next]_vars => Agreement'
<1>. SUFFICES ASSUME IInv, Agreement, [Next]_vars PROVE Agreement'
  OBVIOUS
<1>1. ASSUME NEW m \in Methods, NEW prefix \in GroupPrefixes, NEW pat \in Patterns,
             NEW name \in Names \cup {NoName}, NEW given \in Priorities,
             AddGroupRoute(m, prefix, pat, name, given)
      PROVE  Agreement'
  <2>1. prefix \in Seq(Segments) /\ pat \in Seq(Segments) /\ given \in Nat
    BY RouterAssumption
  <2>2. prefix \o pat \in Seq(Segments)
    BY <2>1, ConcatProperties
  <2>. QED  BY <1>1, <2>1, <2>2, AddRouteAgrees DEF AddGroupRoute
<1>2. ASSUME NEW folder \in Folders, AddStaticRoute(folder.pattern, folder.dir)
      PROVE  Agreement'
  <2>. DEFINE p == folder.pattern
  <2>1. p \in Seq({seg \in Segments : seg.kind = "STATIC"}) /\ folder.dir \in Seq(STRING)
    BY RouterAssumption
  <2>2. Len(p) \in Nat /\ p \in [1 .. Len(p) -> {seg \in Segments : seg.kind = "STATIC"}]
    BY <2>1, LenProperties, ElementOfSeq
  <2>3. p \in Seq(Segments) /\ \A j \in 1 .. Len(p) : p[j].kind = "STATIC"
    BY <2>2, IsASeq
  <2>. QED  BY <1>2, <2>1, <2>3, AddStaticRouteAgrees
<1>3. CASE UNCHANGED vars
  <2>1. UNCHANGED <<trees, named, table>>
    BY <1>3 DEF vars
  <2>2. NamesHold' /\ FoldersHold'
    BY <2>1 DEF Agreement, NamesHold, FoldersHold, Pattern
  <2>3. ASSUME NEW m \in Methods, Orderly(m)' PROVE Faithful(m)'
    <3>1. Orderly(m)
      BY <2>1, <2>3 DEF Orderly, Ids
    <3>2. Faithful(m)
      BY <3>1 DEF Agreement
    <3>3. Domain(m)' /\ Spelling(m)' /\ Passing(m)'
      BY <2>1, <3>2 DEF Faithful, Domain, Spelling, Passing, Ids, Pattern
    <3>4. Ending(m)'
      <4>1. Ending(m)
        BY <3>2 DEF Faithful
      <4>2. Live(m)' = Live(m)
        BY <2>1 DEF Live, Ids, Pattern
      <4>3. \A i : Rank(m, i)' = Rank(m, i)
        BY <2>1 DEF Rank, Ids, Pattern
      <4>. QED  BY <2>1, <4>1, <4>2, <4>3 DEF Ending, Serving, Pattern
    <3>. QED  BY <3>3, <3>4 DEF Faithful
  <2>. QED  BY <2>2, <2>3 DEF Agreement
<1>. QED  BY <1>1, <1>2, <1>3 DEF Next, AddRouteThrows

LEMMA Agrees == Spec => [](IInv /\ Agreement)
<1>1. Init => IInv /\ Agreement
  BY InitHolds, InitAgrees
<1>2. (IInv /\ Agreement) /\ [Next]_vars => (IInv /\ Agreement)'
  BY NextKeeps, NextAgrees
<1>. QED  BY <1>1, <1>2, PTL DEF Spec

-----------------------------------------------------------------------------
(* The search.  A trie is searched when it has been registered in, no two  *)
(* of its routes being in each other's way.                                *)

Ready(m) == IInv /\ FoldersHold /\ m \in Methods /\ Orderly(m) /\ Faithful(m) /\ trees[m] # <<>>

(* A node of the trie is one on the way of a route.                        *)
LEMMA ReadyProperties ==
    ASSUME NEW m, Ready(m)
    PROVE  /\ \E S \in Places : trees[m] \in [S -> Nodes]
           /\ <<>> \in DOMAIN trees[m]
           /\ \A k \in DOMAIN trees[m] :
                 /\ k \in Seq(STRING) /\ Len(k) \in Nat /\ trees[m][k] \in Nodes
                 /\ k # <<>> => Front(k) \in DOMAIN trees[m]
                 /\ \E i \in Ids(m) : Len(k) \in 0 .. Len(Pattern(i)) /\ k = Way(Pattern(i), Len(k))
           /\ \A i \in Ids(m) :
                 /\ Pattern(i) \in Seq(Segments) /\ Len(Pattern(i)) \in Nat
                 /\ \A j \in 0 .. Len(Pattern(i)) : Way(Pattern(i), j) \in DOMAIN trees[m]
                 /\ Keys(Pattern(i)) \in DOMAIN trees[m]
<1>1. PICK S \in Places : trees[m] \in [S -> Nodes]
  BY DEF Ready, IInv, Types, Tries
<1>2. DOMAIN trees[m] = S /\ S \subseteq Seq(STRING)
  BY <1>1 DEF Places
<1>3. \A i \in Ids(m) : Pattern(i) \in Seq(Segments) /\ Len(Pattern(i)) \in Nat
  BY TableProperties DEF Ready
<1>4. \A k : k \in S <=> \E i \in Ids(m) : k \in Line(Pattern(i))
  BY <1>2 DEF Ready, Faithful, Domain
<1>5. <<>> \in S
  <2>1. S # {}
    <3>1. SUFFICES ASSUME S = {} PROVE trees[m] = <<>>
      BY DEF Ready
    <3>2. trees[m] \in Seq(Nodes) /\ Len(trees[m]) = 0
      <4>1. S = 1 .. 0 /\ 0 \in Nat
        BY <3>1
      <4>2. trees[m] \in Seq(Nodes)
        BY <1>1, <4>1, IsASeq
      <4>3. DOMAIN trees[m] = 1 .. Len(trees[m]) /\ Len(trees[m]) \in Nat
        BY <4>2, LenProperties
      <4>4. Len(trees[m]) # 0 => 1 \in 1 .. Len(trees[m])
        BY <4>3
      <4>. QED  BY <1>2, <3>1, <4>2, <4>3, <4>4
    <3>. QED  BY <3>2, EmptySeq
  <2>2. PICK i \in Ids(m) : TRUE
    BY <1>4, <2>1
  <2>. QED  BY <1>3, <1>4, LineProperties
<1>6. ASSUME NEW k \in S
      PROVE  /\ k \in Seq(STRING) /\ Len(k) \in Nat /\ trees[m][k] \in Nodes
             /\ k # <<>> => Front(k) \in S
             /\ \E i \in Ids(m) : Len(k) \in 0 .. Len(Pattern(i)) /\ k = Way(Pattern(i), Len(k))
  <2>1. k \in Seq(STRING) /\ Len(k) \in Nat /\ trees[m][k] \in Nodes
    BY <1>1, <1>2, LenProperties
  <2>2. k # <<>> => Front(k) \in S
    BY <1>2 DEF Ready, IInv, Rooted
  <2>3. PICK i \in Ids(m) : k \in Line(Pattern(i))
    BY <1>4
  <2>. QED  BY <1>3, <2>1, <2>2, <2>3, LineIsWays
<1>7. ASSUME NEW i \in Ids(m)
      PROVE  /\ \A j \in 0 .. Len(Pattern(i)) : Way(Pattern(i), j) \in S
             /\ Keys(Pattern(i)) \in S
  BY <1>3, <1>4, WayProperties, LineProperties
<1>. QED  BY <1>1, <1>2, <1>3, <1>5, <1>6, <1>7

(* A node with a use is the end of a route that was not replaced.          *)
LEMMA UsedNodes ==
    ASSUME NEW m, Ready(m), NEW k \in DOMAIN trees[m], ~ Bare(trees[m][k])
    PROVE  \E i \in Live(m) : k = Keys(Pattern(i))
<1>1. PICK i \in Ids(m) : Keys(Pattern(i)) = k
  BY DEF Ready, Faithful, Passing
<1>2. PICK l \in Live(m) : Pattern(l) = Pattern(i)
  BY <1>1, LiveProperties DEF Ready
<1>. QED  BY <1>1, <1>2

(* Below a folder there is nothing.                                        *)
LEMMA NothingBelow ==
    ASSUME NEW m, Ready(m), NEW k \in DOMAIN trees[m], k # <<>>
    PROVE  ~ trees[m][Front(k)].files
<1>. SUFFICES ASSUME trees[m][Front(k)].files PROVE FALSE
  OBVIOUS
<1>1. Front(k) \in DOMAIN trees[m] /\ k \in Seq(STRING) /\ Len(k) \in Nat /\ Len(k) # 0
  BY ReadyProperties, EmptySeq
<1>2. ~ Bare(trees[m][Front(k)])
  BY DEF Bare
<1>3. PICK l \in Live(m) : Front(k) = Keys(Pattern(l))
  BY <1>1, <1>2, UsedNodes
<1>4. PICK i \in Ids(m) : Len(k) \in 0 .. Len(Pattern(i)) /\ k = Way(Pattern(i), Len(k))
  BY ReadyProperties
<1>. DEFINE p == Pattern(l)
            q == Pattern(i)
<1>5. /\ p \in Seq(Segments) /\ q \in Seq(Segments) /\ p = table[l].pattern /\ q = table[i].pattern
      /\ l \in Ids(m) /\ Len(q) \in Nat
  BY <1>4, TableProperties DEF Ready, Live
<1>6. table[l].files
  <2>1. Serving(m, l, trees[m][Keys(Pattern(l))])
    BY DEF Ready, Faithful, Ending
  <2>. QED  BY <1>3, <2>1 DEF Serving
<1>. HIDE DEF p, q
<1>7. Len(k) - 1 \in 0 .. Len(q) /\ Front(k) = Way(q, Len(k) - 1)
  <2>. DEFINE j == Len(k)
  <2>1. j \in 0 .. Len(q) /\ j # 0 /\ k = Way(q, j) /\ j - 1 \in 0 .. Len(q)
    BY <1>1, <1>4, <1>5 DEF q
  <2>. HIDE DEF j
  <2>2. Front(Way(q, j)) = Way(q, j - 1)
    BY <1>5, <2>1, WayProperties
  <2>. QED  BY <2>1, <2>2 DEF j
<1>8. Front(k) \in Line(q) /\ Len(Front(k)) = Len(k) - 1
  BY <1>5, <1>7, WayProperties
<1>9. q = p
  <2>1. Compatible(table[l], table[i])
    BY <1>5 DEF Ready, Orderly
  <2>2. Keys(table[l].pattern) \in Line(table[i].pattern)
    BY <1>3, <1>5, <1>8 DEF p
  <2>. QED  BY <1>5, <1>6, <2>1, <2>2, CompatibleProperties
<1>10. Len(Front(k)) = Len(q)
  BY <1>3, <1>5, <1>9, KeysProperties DEF p
<1>. QED  BY <1>1, <1>4, <1>5, <1>8, <1>10 DEF q

(* A walk to a node is one to its parent and a step.                       *)
LEMMA WalkedStep ==
    ASSUME NEW tree, NEW V, NEW path \in Seq(V), NEW k \in Seq(STRING)
    PROVE  /\ k = <<>> => Walked(tree, path, k)
           /\ k # <<>> => (Walked(tree, path, k) <=>
                 Walked(tree, path, Front(k)) /\ Len(k) <= Len(path) /\ Enters(tree, k, path[Len(k)]))
<1>1. Len(k) \in Nat /\ Len(path) \in Nat /\ SubSeq(k, 1, Len(k)) = k
  BY LenProperties, SubSeqFull
<1>2. CASE k = <<>>
  <2>1. Len(k) = 0
    BY <1>2, EmptySeq
  <2>. QED  BY <1>1, <1>2, <2>1 DEF Walked
<1>3. CASE k # <<>>
  <2>. DEFINE f == Front(k)
              n == Len(k)
  <2>1. n \in Nat /\ n # 0 /\ n - 1 \in 0 .. n
    BY <1>1, <1>3, EmptySeq
  <2>2. Len(f) = n - 1
    BY <2>1, PrefixProperties DEF Front
  <2>3. \A i \in 1 .. n - 1 : SubSeq(f, 1, i) = SubSeq(k, 1, i)
    BY <2>1, PrefixOfPrefix DEF Front
  <2>4. SubSeq(k, 1, n) = k
    BY <1>1
  <2>. HIDE DEF f, n
  <2>5. Walked(tree, path, f) <=>
           n - 1 <= Len(path) /\ \A i \in 1 .. n - 1 : Enters(tree, SubSeq(k, 1, i), path[i])
    BY <2>1, <2>2, <2>3 DEF Walked
  <2>6. Walked(tree, path, k) <=>
           n <= Len(path) /\ \A i \in 1 .. n : Enters(tree, SubSeq(k, 1, i), path[i])
    BY DEF Walked, n
  <2>7. (\A i \in 1 .. n : Enters(tree, SubSeq(k, 1, i), path[i])) <=>
           /\ \A i \in 1 .. n - 1 : Enters(tree, SubSeq(k, 1, i), path[i])
           /\ Enters(tree, k, path[n])
    <3>1. ASSUME \A i \in 1 .. n - 1 : Enters(tree, SubSeq(k, 1, i), path[i]),
                 Enters(tree, k, path[n]), NEW i \in 1 .. n
          PROVE  Enters(tree, SubSeq(k, 1, i), path[i])
      <4>1. CASE i = n
        BY <2>4, <3>1, <4>1
      <4>2. CASE i # n
        <5>1. i \in 1 .. n - 1
          BY <2>1, <4>2
        <5>. QED  BY <3>1, <5>1
      <4>. QED  BY <4>1, <4>2
    <3>2. 1 .. n - 1 \subseteq 1 .. n /\ n \in 1 .. n
      BY <2>1
    <3>. QED  BY <2>4, <3>1, <3>2
  <2>. QED  BY <1>1, <1>3, <2>1, <2>5, <2>6, <2>7 DEF f, n
<1>. QED  BY <1>2, <1>3

(* A trie in which the parents of nodes are nodes, and serve no files.     *)
Closed(tree) ==
    /\ DOMAIN tree \subseteq Seq(STRING) /\ <<>> \in DOMAIN tree
    /\ \A k \in DOMAIN tree : k # <<>> => Front(k) \in DOMAIN tree /\ ~ tree[Front(k)].files

(* The search, level by level, gets where the walks lead.                  *)
LEMMA LevelIs ==
    ASSUME NEW tree, Closed(tree), NEW V, NEW path \in Seq(V), NEW n \in 0 .. Len(path)
    PROVE  Level(tree, path, n) = {k \in DOMAIN tree : Len(k) = n /\ Walked(tree, path, k)}
<1>. DEFINE step(l, i) == IF i = 0 THEN {<<>>}
                          ELSE {k \in DOMAIN tree : \E at \in l[i - 1] :
                                   /\ Child(tree, k, at)
                                   /\ ~ tree[at].files
                                   /\ Enters(tree, k, path[i])}
            walks(i) == {k \in DOMAIN tree : Len(k) = i /\ Walked(tree, path, k)}
            f == [i \in 0 .. n |-> walks(i)]
            level == CHOOSE l : l = [i \in 0 .. n |-> step(l, i)]
<1>1. Level(tree, path, n) = level[n]
  BY DEF Level
<1>2. Len(path) \in Nat /\ n \in Nat
  BY LenProperties
<1>3. ASSUME NEW k \in DOMAIN tree
      PROVE  k \in Seq(STRING) /\ Len(k) \in Nat /\ (k = <<>> <=> Len(k) = 0)
  BY LenProperties, EmptySeq DEF Closed
<1>4. walks(0) = {<<>>}
  <2>1. <<>> \in DOMAIN tree
    BY DEF Closed
  <2>2. Walked(tree, path, <<>>)
    BY <1>3, <2>1, WalkedStep
  <2>. QED  BY <1>3, <2>1, <2>2
<1>5. ASSUME NEW l, NEW i \in 1 .. n, l[i - 1] = walks(i - 1)
      PROVE  step(l, i) = walks(i)
  <2>1. i # 0 /\ i <= Len(path) /\ i \in Nat
    BY <1>2
  <2>2. ASSUME NEW k \in step(l, i) PROVE k \in walks(i)
    <3>1. k \in DOMAIN tree /\ k # <<>> /\ Front(k) \in walks(i - 1) /\ Enters(tree, k, path[i])
      BY <1>5, <2>1 DEF Child
    <3>2. Len(Front(k)) = i - 1 /\ Walked(tree, path, Front(k))
      BY <3>1
    <3>3. Len(k) = i
      <4>1. Len(k) - 1 \in 0 .. Len(k)
        BY <1>3, <3>1
      <4>2. Len(Front(k)) = Len(k) - 1
        BY <1>3, <3>1, <4>1, PrefixProperties DEF Front
      <4>. QED  BY <1>3, <2>1, <3>1, <3>2, <4>2
    <3>4. Walked(tree, path, k)
      BY <1>3, <2>1, <3>1, <3>2, <3>3, WalkedStep
    <3>. QED  BY <3>1, <3>3, <3>4
  <2>3. ASSUME NEW k \in walks(i) PROVE k \in step(l, i)
    <3>1. k \in DOMAIN tree /\ Len(k) = i /\ Walked(tree, path, k) /\ k # <<>>
      BY <1>3, <2>1
    <3>2. Front(k) \in DOMAIN tree /\ ~ tree[Front(k)].files
      BY <3>1 DEF Closed
    <3>3. Walked(tree, path, Front(k)) /\ Enters(tree, k, path[i])
      BY <1>3, <3>1, WalkedStep
    <3>4. Len(Front(k)) = i - 1
      <4>1. Len(k) - 1 \in 0 .. Len(k)
        BY <1>3, <2>1, <3>1
      <4>. QED  BY <1>3, <3>1, <4>1, PrefixProperties DEF Front
    <3>5. Front(k) \in l[i - 1]
      BY <1>5, <3>2, <3>3, <3>4
    <3>6. Child(tree, k, Front(k))
      BY <3>1 DEF Child
    <3>. QED  BY <2>1, <3>1, <3>2, <3>3, <3>5, <3>6
  <2>. HIDE DEF step, walks
  <2>. QED  BY <2>2, <2>3
<1>. HIDE DEF walks
<1>6. f = [i \in 0 .. n |-> step(f, i)]
  <2>1. \A i \in 0 .. n : f[i] = walks(i)
    OBVIOUS
  <2>2. ASSUME NEW i \in 0 .. n PROVE walks(i) = step(f, i)
    <3>1. CASE i = 0
      BY <1>4, <3>1
    <3>2. CASE i # 0
      <4>1. i \in 1 .. n /\ i - 1 \in 0 .. n
        BY <1>2, <3>2
      <4>. HIDE DEF step, f
      <4>. QED  BY <1>5, <2>1, <4>1
    <3>. QED  BY <3>1, <3>2
  <2>. HIDE DEF step
  <2>. QED  BY <2>2
<1>. HIDE DEF f
<1>7. level = [i \in 0 .. n |-> step(level, i)]
  <2>. HIDE DEF step
  <2>. QED  BY <1>6
<1>. HIDE DEF level
<1>8. \A i \in 0 .. n : level[i] = step(level, i)
  <2>. HIDE DEF step
  <2>. QED  BY <1>7
<1>. DEFINE S == {i \in 0 .. n : level[i] = walks(i)}
<1>9. 0 \in S
  <2>1. 0 \in 0 .. n
    BY <1>2
  <2>2. level[0] = {<<>>}
    BY <1>8, <2>1
  <2>. QED  BY <1>4, <2>1, <2>2
<1>10. ASSUME NEW i \in 1 .. n, i - 1 \in S PROVE i \in S
  <2>1. i \in 0 .. n /\ level[i - 1] = walks(i - 1)
    BY <1>2, <1>10
  <2>. HIDE DEF step
  <2>. QED  BY <1>5, <1>8, <2>1
<1>. HIDE DEF S
<1>11. n \in S
  <2>1. \A i \in 0 .. n : i \in S
    BY <1>2, <1>9, <1>10, Induction
  <2>. QED  BY <1>2, <2>1
<1>. QED  BY <1>1, <1>11 DEF S, walks

(* Where a walk ends, or a wildcard takes the rest.                        *)
Reached(tree, path, k) ==
    \/ Len(k) = Len(path) /\ Walked(tree, path, k)
    \/ /\ k # <<>> /\ tree[k].type = "WILDCARD"
       /\ Len(k) <= Len(path) /\ Walked(tree, path, Front(k))

\* What is found at a node: where the walk to it or to its parent ends.
Hit(tree, path, k) ==
    \/ tree[k].files /\ Walked(tree, path, k)
    \/ (tree[k].files \/ tree[k].handler # NoHandler) /\ Reached(tree, path, k)
    \/ /\ tree[k].handler # NoHandler
       /\ k # <<>> /\ tree[k].optional /\ Reached(tree, path, Front(k))

LEMMA MatchesAre ==
    ASSUME NEW tree, Closed(tree), NEW V, NEW path \in Seq(V)
    PROVE  Matches(tree, path) = {k \in DOMAIN tree : Hit(tree, path, k)}
<1>1. Len(path) \in Nat
  BY LenProperties
<1>2. \A n \in 0 .. Len(path) :
         Level(tree, path, n) = {k \in DOMAIN tree : Len(k) = n /\ Walked(tree, path, k)}
  BY LevelIs
<1>3. ASSUME NEW k \in DOMAIN tree
      PROVE  /\ k \in Seq(STRING) /\ Len(k) \in Nat
             /\ k # <<>> => /\ Front(k) \in DOMAIN tree /\ ~ tree[Front(k)].files
                            /\ Len(Front(k)) = Len(k) - 1 /\ Len(k) # 0
             /\ Walked(tree, path, k) => Len(k) \in 0 .. Len(path)
  <2>1. k \in Seq(STRING) /\ Len(k) \in Nat /\ (k # <<>> => Len(k) # 0)
    BY LenProperties, EmptySeq DEF Closed
  <2>2. k # <<>> => Front(k) \in DOMAIN tree /\ ~ tree[Front(k)].files
    BY DEF Closed
  <2>3. ASSUME k # <<>> PROVE Len(Front(k)) = Len(k) - 1
    <3>1. Len(k) - 1 \in 0 .. Len(k)
      BY <2>1, <2>3
    <3>. QED  BY <2>1, <3>1, PrefixProperties DEF Front
  <2>4. Walked(tree, path, k) => Len(k) \in 0 .. Len(path)
    BY <1>1, <2>1 DEF Walked
  <2>. QED  BY <2>1, <2>2, <2>3, <2>4
<1>. DEFINE whole == Level(tree, path, Len(path))
            rest == Wildcards(tree, path)
            folders == {k \in DOMAIN tree :
                          tree[k].files /\ \E n \in 0 .. Len(path) : k \in Level(tree, path, n)}
<1>4. Matches(tree, path) = folders \cup UNION {Ends(tree, at) : at \in whole \cup rest}
  BY DEF Matches
<1>5. whole = {k \in DOMAIN tree : Len(k) = Len(path) /\ Walked(tree, path, k)}
  BY <1>1, <1>2
<1>6. rest = {k \in DOMAIN tree : /\ k # <<>> /\ tree[k].type = "WILDCARD"
                                  /\ Len(k) <= Len(path) /\ Walked(tree, path, Front(k))}
  <2>1. ASSUME NEW k \in DOMAIN tree, k # <<>>, Len(k) <= Len(path), Walked(tree, path, Front(k)),
               tree[k].type = "WILDCARD"
        PROVE  k \in rest
    <3>1. Len(k) - 1 \in 0 .. Len(path) - 1 /\ Len(k) - 1 \in 0 .. Len(path)
      BY <1>1, <1>3, <2>1
    <3>2. Front(k) \in Level(tree, path, Len(k) - 1)
      BY <1>2, <1>3, <2>1, <3>1
    <3>3. Child(tree, k, Front(k)) /\ ~ tree[Front(k)].files
      BY <1>3, <2>1 DEF Child
    <3>. QED  BY <2>1, <3>1, <3>2, <3>3 DEF Wildcards
  <2>2. ASSUME NEW k \in rest
        PROVE  /\ k \in DOMAIN tree /\ k # <<>> /\ tree[k].type = "WILDCARD"
               /\ Len(k) <= Len(path) /\ Walked(tree, path, Front(k))
    <3>1. PICK n \in 0 .. Len(path) - 1 : \E at \in Level(tree, path, n) :
             Child(tree, k, at) /\ ~ tree[at].files /\ tree[k].type = "WILDCARD"
      BY DEF Wildcards
    <3>2. k \in DOMAIN tree
      BY DEF Wildcards
    <3>3. n \in 0 .. Len(path)
      BY <1>1
    <3>4. k # <<>> /\ Front(k) \in Level(tree, path, n) /\ tree[k].type = "WILDCARD"
      BY <3>1 DEF Child
    <3>5. Len(Front(k)) = n /\ Walked(tree, path, Front(k))
      BY <1>2, <3>3, <3>4
    <3>. QED  BY <1>1, <1>3, <3>2, <3>4, <3>5
  <2>. HIDE DEF rest
  <2>. QED  BY <2>1, <2>2
<1>7. folders = {k \in DOMAIN tree : tree[k].files /\ Walked(tree, path, k)}
  <2>1. ASSUME NEW k \in DOMAIN tree
        PROVE  (\E n \in 0 .. Len(path) : k \in Level(tree, path, n)) <=> Walked(tree, path, k)
    BY <1>2, <1>3
  <2>. QED  BY <2>1
<1>. HIDE DEF whole, rest, folders
<1>8. \A k \in DOMAIN tree : k \in whole \cup rest <=> Reached(tree, path, k)
  BY <1>5, <1>6 DEF Reached
<1>9. whole \cup rest \subseteq DOMAIN tree
  BY <1>5, <1>6
<1>10. ASSUME NEW k \in Matches(tree, path) PROVE k \in DOMAIN tree /\ Hit(tree, path, k)
  <2>1. CASE k \in folders
    BY <1>7, <2>1 DEF Hit
  <2>2. CASE k \notin folders
    <3>1. PICK at \in whole \cup rest : k \in Ends(tree, at)
      BY <1>4, <2>2
    <3>2. at \in DOMAIN tree /\ Reached(tree, path, at)
      BY <1>8, <1>9
    <3>3. CASE k = at
      <4>1. ~ tree[at].files => tree[at].handler # NoHandler
        BY <3>1, <3>3 DEF Ends
      <4>. QED  BY <3>2, <3>3, <4>1 DEF Hit
    <3>4. CASE k # at
      <4>1. /\ ~ tree[at].files /\ k \in DOMAIN tree /\ Child(tree, k, at) /\ tree[k].optional
            /\ tree[k].handler # NoHandler
        BY <3>1, <3>4 DEF Ends
      <4>2. k # <<>> /\ Front(k) = at
        BY <4>1 DEF Child
      <4>. QED  BY <3>2, <4>1, <4>2 DEF Hit
    <3>. QED  BY <3>3, <3>4
  <2>. QED  BY <2>1, <2>2
<1>11. ASSUME NEW k \in DOMAIN tree, Hit(tree, path, k) PROVE k \in Matches(tree, path)
  <2>1. CASE tree[k].files /\ Walked(tree, path, k)
    BY <1>4, <1>7, <2>1
  <2>2. CASE Reached(tree, path, k) /\ (tree[k].files \/ tree[k].handler # NoHandler)
    <3>1. k \in Ends(tree, k)
      BY <2>2 DEF Ends
    <3>. QED  BY <1>4, <1>8, <2>2, <3>1
  <2>3. CASE tree[k].handler # NoHandler /\ k # <<>> /\ tree[k].optional
             /\ Reached(tree, path, Front(k))
    <3>1. Front(k) \in DOMAIN tree /\ ~ tree[Front(k)].files /\ Child(tree, k, Front(k))
      BY <1>3, <2>3 DEF Child
    <3>2. k \in Ends(tree, Front(k))
      BY <2>3, <3>1 DEF Ends
    <3>. QED  BY <1>4, <1>8, <2>3, <3>1, <3>2
  <2>. QED  BY <1>11, <2>1, <2>2, <2>3 DEF Hit
<1>. QED  BY <1>10, <1>11

(* On a path without the names a pattern binds, a node is entered by what  *)
(* fits the segment it was made of.                                        *)
LEMMA EntersIsFits ==
    ASSUME NEW m, Ready(m), NEW V, NEW path \in Seq(V), Plain(m, path),
           NEW i \in Ids(m), NEW j \in 1 .. Len(Pattern(i)), NEW l \in 1 .. Len(path)
    PROVE  Enters(trees[m], Way(Pattern(i), j), path[l]) <=> Fits(Pattern(i)[j], path[l])
<1>. DEFINE p == Pattern(i)
            k == Way(p, j)
            seg == p[j]
<1>1. p \in Seq(Segments) /\ j \in 0 .. Len(p) /\ Len(p) \in Nat /\ DOMAIN p = 1 .. Len(p)
  BY ReadyProperties, LenProperties
<1>2. Last(k) = seg.part
  BY <1>1, WayProperties
<1>3. Spelled(trees[m][k], seg)
  BY DEF Ready, Faithful, Spelling
<1>4. seg.kind \in Kinds
  <2>1. seg \in Segments
    BY <1>1, ElementOfSeq
  <2>. QED  BY <2>1 DEF Segments, AnySegment
<1>5. seg.kind # "STATIC" => path[l] # seg.part
  <2>1. seg \in ToSet(p)
    BY <1>1 DEF ToSet
  <2>2. seg.kind # "STATIC" => ~ Contains(path, seg.part)
    BY <2>1 DEF Plain
  <2>. QED  BY <2>2 DEF Contains
<1>. HIDE DEF k, seg
<1>6. CASE seg.kind = "STATIC"
  BY <1>2, <1>3, <1>6 DEF Spelled, Enters, Fits, k, seg
<1>7. CASE seg.kind = "PARAMETER"
  BY <1>3, <1>7 DEF Spelled, Enters, Fits, k, seg
<1>8. CASE seg.kind = "REGEX"
  BY <1>2, <1>3, <1>5, <1>8 DEF Spelled, Enters, Fits, k, seg
<1>9. CASE seg.kind = "WILDCARD"
  BY <1>2, <1>3, <1>5, <1>9 DEF Spelled, Enters, Fits, k, seg
<1>. QED  BY <1>4, <1>6, <1>7, <1>8, <1>9 DEF Kinds

LEMMA WalkedIsBegins ==
    ASSUME NEW m, Ready(m), NEW V, NEW path \in Seq(V), Plain(m, path),
           NEW i \in Ids(m), NEW j \in 0 .. Len(Pattern(i))
    PROVE  Walked(trees[m], path, Way(Pattern(i), j)) <=> Begins(SubSeq(Pattern(i), 1, j), path)
<1>. DEFINE p == Pattern(i)
            k == Way(p, j)
            s == SubSeq(p, 1, j)
<1>1. p \in Seq(Segments) /\ Len(p) \in Nat /\ j \in Nat /\ Len(path) \in Nat
  BY ReadyProperties, LenProperties
<1>2. Len(k) = j /\ \A l \in 0 .. j : SubSeq(k, 1, l) = Way(p, l)
  BY <1>1, WayProperties
<1>3. Len(s) = j /\ DOMAIN s = 1 .. j /\ \A l \in 1 .. j : s[l] = p[l]
  BY <1>1, PrefixProperties, LenProperties
<1>4. ASSUME j <= Len(path), NEW l \in 1 .. j
      PROVE  Enters(trees[m], SubSeq(k, 1, l), path[l]) <=> Fits(s[l], path[l])
  <2>1. l \in 1 .. Len(p) /\ l \in 1 .. Len(path) /\ l \in 0 .. j
    BY <1>1, <1>4
  <2>. QED  BY <1>2, <1>3, <2>1, EntersIsFits
<1>. HIDE DEF k, s
<1>5. Walked(trees[m], path, k) <=>
         j <= Len(path) /\ \A l \in 1 .. j : Enters(trees[m], SubSeq(k, 1, l), path[l])
  BY <1>2 DEF Walked
<1>6. Begins(s, path) <=> j <= Len(path) /\ \A l \in 1 .. j : Fits(s[l], path[l])
  BY <1>3 DEF Begins
<1>. QED  BY <1>4, <1>5, <1>6 DEF k, s

LEMMA ReachedIsCovers ==
    ASSUME NEW m, Ready(m), NEW V, NEW path \in Seq(V), Plain(m, path),
           NEW i \in Ids(m), NEW j \in 0 .. Len(Pattern(i))
    PROVE  Reached(trees[m], path, Way(Pattern(i), j)) <=> Covers(SubSeq(Pattern(i), 1, j), path)
<1>. DEFINE p == Pattern(i)
            k == Way(p, j)
            s == SubSeq(p, 1, j)
<1>1. p \in Seq(Segments) /\ Len(p) \in Nat
  BY ReadyProperties
<1>2. /\ Len(k) = j /\ j \in Nat
      /\ k # <<>> <=> j # 0
      /\ j # 0 => Front(k) = Way(p, j - 1) /\ j - 1 \in 0 .. Len(p)
  BY <1>1, WayProperties, LenProperties, EmptySeq
<1>3. s \in Seq(Segments) /\ Len(s) = j /\ (s # <<>> <=> j # 0)
  BY <1>1, PrefixProperties, EmptySeq
<1>4. j # 0 => Front(s) = SubSeq(p, 1, j - 1) /\ Last(s) = p[j]
  <2>. SUFFICES ASSUME j # 0 PROVE Front(s) = SubSeq(p, 1, j - 1) /\ Last(s) = p[j]
    OBVIOUS
  <2>1. j - 1 \in 0 .. j /\ j \in 1 .. j
    BY <1>2
  <2>2. SubSeq(s, 1, j - 1) = SubSeq(p, 1, j - 1) /\ s[j] = p[j]
    BY <1>1, <2>1, PrefixOfPrefix, PrefixProperties
  <2>. QED  BY <1>3, <2>2 DEF Front, Last
<1>5. j # 0 => trees[m][k].type = p[j].kind
  <2>1. j # 0 => j \in 1 .. Len(p)
    BY <1>1
  <2>. QED  BY <2>1 DEF Ready, Faithful, Spelling, Spelled
<1>6. Walked(trees[m], path, k) <=> Begins(s, path)
  BY WalkedIsBegins
<1>7. j # 0 => (Walked(trees[m], path, Front(k)) <=> Begins(Front(s), path))
  BY <1>2, <1>4, WalkedIsBegins
<1>. HIDE DEF k, s
<1>. QED  BY <1>2, <1>3, <1>4, <1>5, <1>6, <1>7 DEF Reached, Covers, k, s

LEMMA HitIsMeant ==
    ASSUME NEW m, Ready(m), NEW V, NEW path \in Seq(V), Plain(m, path), NEW i \in Live(m)
    PROVE  Hit(trees[m], path, Keys(Pattern(i))) <=> Means(i, path)
<1>. DEFINE p == Pattern(i)
            k == Keys(p)
            tree == trees[m]
<1>1. /\ i \in Ids(m) /\ i \in 1 .. Len(table) /\ p \in Seq(Segments) /\ Len(p) \in Nat
      /\ Len(p) \in 0 .. Len(p)
  BY ReadyProperties DEF Live, Ids
<1>2. Way(p, Len(p)) = k /\ SubSeq(p, 1, Len(p)) = p /\ Len(k) = Len(p)
  BY <1>1, WayProperties, SubSeqFull
<1>3. Serving(m, i, tree[k])
  BY DEF Ready, Faithful, Ending
<1>4. Walked(tree, path, k) <=> Begins(p, path)
  BY <1>1, <1>2, WalkedIsBegins
<1>5. Reached(tree, path, k) <=> Covers(p, path)
  BY <1>1, <1>2, ReachedIsCovers
<1>6. p = <<>> <=> k = <<>>
  BY <1>1, <1>2, KeysProperties, EmptySeq
<1>7. ASSUME p # <<>>
      PROVE  /\ Reached(tree, path, Front(k)) <=> Covers(Front(p), path)
             /\ tree[k].optional = Last(p).optional
             /\ tree[k].type = Last(p).kind
             /\ Last(p) \in Segments /\ Last(p) = p[Len(p)] /\ Len(p) \in 1 .. Len(p)
  <2>1. Len(p) # 0 /\ Len(p) \in 1 .. Len(p) /\ Len(p) - 1 \in 0 .. Len(p)
    BY <1>1, <1>7, EmptySeq
  <2>2. Front(k) = Way(p, Len(p) - 1) /\ Front(p) = SubSeq(p, 1, Len(p) - 1)
    BY <1>1, <1>2, <2>1, WayProperties DEF Front
  <2>3. Reached(tree, path, Front(k)) <=> Covers(Front(p), path)
    BY <1>1, <2>1, <2>2, ReachedIsCovers
  <2>4. Spelled(tree[k], p[Len(p)])
    BY <1>1, <1>2, <2>1 DEF Ready, Faithful, Spelling
  <2>5. p[Len(p)] \in Segments
    BY <1>1, <2>1, ElementOfSeq
  <2>. QED  BY <2>1, <2>3, <2>4, <2>5 DEF Spelled, Last
<1>. HIDE DEF k, p, tree
<1>8. CASE table[i].files
  <2>1. ASSUME p # <<>> PROVE ~ tree[k].optional /\ tree[k].type # "WILDCARD"
    <3>1. p[Len(p)].kind = "STATIC"
      BY <1>1, <1>7, <1>8, <2>1 DEF Ready, FoldersHold, p
    <3>2. ~ Last(p).optional
      BY <1>7, <2>1, <3>1 DEF Segments, AnySegment
    <3>. QED  BY <1>7, <2>1, <3>1, <3>2
  <2>2. Reached(tree, path, k) => Walked(tree, path, k)
    BY <1>6, <2>1 DEF Reached
  <2>3. Hit(tree, path, k) <=> Walked(tree, path, k)
    <3>1. tree[k].files
      BY <1>3, <1>8 DEF Serving, k, p, tree
    <3>. QED  BY <1>6, <2>1, <2>2, <3>1 DEF Hit
  <2>4. Means(i, path) <=> Begins(p, path)
    BY <1>8 DEF Means, p
  <2>. QED  BY <1>4, <2>3, <2>4 DEF k, p, tree
<1>9. CASE ~ table[i].files
  <2>1. ~ tree[k].files /\ tree[k].handler # NoHandler
    <3>1. tree[k].files = table[i].files /\ tree[k].handler = i
      BY <1>3, <1>9 DEF Serving, k, p, tree
    <3>2. i # 0
      BY <1>1, TableProperties DEF Ready
    <3>. QED  BY <1>9, <3>1, <3>2 DEF NoHandler
  <2>2. Hit(tree, path, k) <=>
           \/ Covers(p, path)
           \/ p # <<>> /\ Last(p).optional /\ Covers(Front(p), path)
    BY <1>5, <1>6, <1>7, <2>1 DEF Hit
  <2>3. Means(i, path) <=> Covers(p, path) \/ Missing(p, path)
    BY <1>9 DEF Means, p
  <2>4. Missing(p, path) <=>
           p # <<>> /\ Last(p).optional /\ ~ Covers(p, path) /\ Covers(Front(p), path)
    BY DEF Missing
  <2>. QED  BY <2>2, <2>3, <2>4 DEF k, p, tree
<1>. QED  BY <1>8, <1>9

LEMMA MatchesMean ==
    ASSUME NEW m, Ready(m), NEW V, NEW path \in Seq(V), Plain(m, path)
    PROVE  /\ \A i \in Live(m) : Keys(Pattern(i)) \in Matches(trees[m], path) <=> Means(i, path)
           /\ \A k \in Matches(trees[m], path) : \E i \in Live(m) :
                 k = Keys(Pattern(i)) /\ Means(i, path)
<1>. DEFINE tree == trees[m]
<1>1. Closed(tree)
  BY ReadyProperties, NothingBelow DEF Closed
<1>2. Matches(tree, path) = {k \in DOMAIN tree : Hit(tree, path, k)}
  BY <1>1, MatchesAre
<1>3. \A i \in Live(m) : Keys(Pattern(i)) \in DOMAIN tree
  BY ReadyProperties DEF Live
<1>4. \A i \in Live(m) : Hit(tree, path, Keys(Pattern(i))) <=> Means(i, path)
  BY HitIsMeant
<1>5. ASSUME NEW k \in Matches(tree, path)
      PROVE  \E i \in Live(m) : k = Keys(Pattern(i)) /\ Means(i, path)
  <2>1. k \in DOMAIN tree /\ Hit(tree, path, k)
    BY <1>2
  <2>2. tree[k].files \/ tree[k].handler # NoHandler
    BY <2>1 DEF Hit
  <2>3. ~ Bare(tree[k])
    BY <2>2 DEF Bare
  <2>4. PICK i \in Live(m) : k = Keys(Pattern(i))
    BY <2>1, <2>3, UsedNodes
  <2>. QED  BY <1>4, <2>1, <2>4
<1>. HIDE DEF tree
<1>6. \A i \in Live(m) : Keys(Pattern(i)) \in Matches(tree, path) <=> Means(i, path)
  BY <1>2, <1>3, <1>4
<1>. QED  BY <1>5, <1>6 DEF tree

LEMMA BestIsMeant ==
    ASSUME NEW m, Ready(m), NEW V, NEW path \in Seq(V), Plain(m, path)
    PROVE  Best(trees[m], path) = {Keys(Pattern(i)) : i \in Winners(m, path)}
<1>. DEFINE tree == trees[m]
            meant == {i \in Live(m) : Means(i, path)}
<1>1. /\ \A i \in Live(m) : Keys(Pattern(i)) \in Matches(tree, path) <=> i \in meant
      /\ \A k \in Matches(tree, path) : \E i \in meant : k = Keys(Pattern(i))
  BY MatchesMean
<1>2. ASSUME NEW i \in Live(m)
      PROVE  /\ i \in Ids(m) /\ Keys(Pattern(i)) \in DOMAIN tree
             /\ tree[Keys(Pattern(i))].priority = Rank(m, i) /\ Rank(m, i) \in Nat
             /\ tree[Keys(Pattern(i))].catchAll = (Pattern(i) = <<>> /\ ~ table[i].files)
             /\ Pattern(i) = <<>> <=> Keys(Pattern(i)) = <<>>
  <2>1. i \in Ids(m)
    BY DEF Live
  <2>2. Keys(Pattern(i)) \in DOMAIN tree /\ tree[Keys(Pattern(i))] \in Nodes
    BY <2>1, ReadyProperties
  <2>3. Serving(m, i, tree[Keys(Pattern(i))])
    BY DEF Ready, Faithful, Ending
  <2>4. tree[Keys(Pattern(i))].priority \in Nat
    BY <2>2 DEF Nodes
  <2>5. Pattern(i) = <<>> <=> Keys(Pattern(i)) = <<>>
    BY <2>1, ReadyProperties, KeysProperties, EmptySeq
  <2>. QED  BY <2>1, <2>2, <2>3, <2>4, <2>5 DEF Serving
<1>. HIDE DEF tree
<1>3. CASE meant # {}
  <2>1. Matches(tree, path) # {}
    BY <1>1, <1>3
  <2>2. Best(tree, path) = {k \in Matches(tree, path) :
                              \A j \in Matches(tree, path) : ~ Better(tree[j], tree[k])}
    BY <2>1 DEF Best
  <2>3. Winners(m, path) = {i \in meant : \A j \in meant : Rank(m, j) <= Rank(m, i)}
    BY <1>3 DEF Winners
  <2>4. \A i \in meant : i \in Live(m)
    OBVIOUS
  <2>. HIDE DEF meant
  <2>5. ASSUME NEW i \in meant, NEW j \in meant
        PROVE  ~ Better(tree[Keys(Pattern(j))], tree[Keys(Pattern(i))]) <=> Rank(m, j) <= Rank(m, i)
    BY <1>2, <2>4 DEF Better
  <2>6. ASSUME NEW i \in Winners(m, path) PROVE Keys(Pattern(i)) \in Best(tree, path)
    <3>1. i \in meant /\ \A j \in meant : Rank(m, j) <= Rank(m, i)
      BY <2>3
    <3>2. Keys(Pattern(i)) \in Matches(tree, path)
      BY <1>1, <2>4, <3>1
    <3>3. ASSUME NEW k \in Matches(tree, path) PROVE ~ Better(tree[k], tree[Keys(Pattern(i))])
      BY <1>1, <2>5, <3>1
    <3>. QED  BY <2>2, <3>2, <3>3
  <2>7. ASSUME NEW k \in Best(tree, path)
        PROVE  k \in {Keys(Pattern(i)) : i \in Winners(m, path)}
    <3>1. k \in Matches(tree, path) /\ \A l \in Matches(tree, path) : ~ Better(tree[l], tree[k])
      BY <2>2
    <3>2. PICK i \in meant : k = Keys(Pattern(i))
      BY <1>1, <3>1
    <3>3. ASSUME NEW j \in meant PROVE Rank(m, j) <= Rank(m, i)
      <4>1. Keys(Pattern(j)) \in Matches(tree, path)
        BY <1>1, <2>4
      <4>. QED  BY <2>5, <3>1, <3>2, <4>1
    <3>. QED  BY <2>3, <3>2, <3>3
  <2>. QED  BY <2>6, <2>7 DEF tree
<1>4. CASE meant = {}
  <2>1. Matches(tree, path) = {}
    BY <1>1, <1>4
  <2>2. Best(tree, path) = {k \in {<<>>} : tree[<<>>].catchAll}
    BY <2>1 DEF Best
  <2>3. Winners(m, path) = {i \in Live(m) : Pattern(i) = <<>>}
    BY <1>4 DEF Winners
  <2>4. ASSUME NEW i \in Live(m), Pattern(i) = <<>> PROVE Keys(Pattern(i)) \in Best(tree, path)
    <3>1. ~ Means(i, path)
      BY <1>4
    <3>2. ~ table[i].files
      <4>1. Begins(Pattern(i), path)
        BY <2>4, LenProperties, EmptySeq DEF Begins
      <4>. QED  BY <3>1, <4>1 DEF Means
    <3>3. tree[<<>>].catchAll /\ Keys(Pattern(i)) = <<>>
      BY <1>2, <2>4, <3>2
    <3>. QED  BY <2>2, <3>3
  <2>5. ASSUME NEW k \in Best(tree, path)
        PROVE  \E i \in Live(m) : Pattern(i) = <<>> /\ k = Keys(Pattern(i))
    <3>1. k = <<>> /\ tree[k].catchAll
      BY <2>2
    <3>2. k \in DOMAIN tree /\ ~ Bare(tree[k])
      BY <3>1, ReadyProperties DEF Bare, tree
    <3>3. PICK i \in Live(m) : k = Keys(Pattern(i))
      BY <3>2, UsedNodes DEF tree
    <3>. QED  BY <1>2, <3>1, <3>3
  <2>6. \A k : k \in Best(tree, path) <=> k \in {Keys(Pattern(i)) : i \in Winners(m, path)}
    BY <2>3, <2>4, <2>5
  <2>. QED  BY <2>6 DEF tree, Best
<1>. QED  BY <1>3, <1>4

LEMMA ReadyWhen ==
    ASSUME IInv, Agreement, NEW m, HasTree(m), Orderly(m)
    PROVE  Ready(m)
BY DEF Agreement, HasTree, Ready

(* RouteMatcher::match() finds just the routes that match the path with the*)
(* highest priority, or "/" when none does, and at their nodes the handler *)
(* or the directory registered last, in whatever order and however often   *)
(* routes were added: for every set of patterns that are not in each       *)
(* other's way, and every path without a name that one of them binds.      *)
THEOREM LookupIsRight == Spec => []LookupAgrees
<1>1. IInv /\ Agreement => LookupAgrees
  <2>. SUFFICES ASSUME IInv, Agreement, NEW m \in Methods, HasTree(m), Orderly(m),
                       NEW path \in Paths, Plain(m, path)
                PROVE  /\ Best(trees[m], path) = {Keys(Pattern(i)) : i \in Winners(m, path)}
                       /\ \A i \in Winners(m, path) :
                             LET node == trees[m][Keys(Pattern(i))]
                             IN IF table[i].files THEN node.dir = table[i].dir ELSE node.handler = i
    BY DEF LookupAgrees
  <2>1. Ready(m) /\ path \in Seq(STRING)
    BY ReadyWhen, RouterAssumption
  <2>2. Best(trees[m], path) = {Keys(Pattern(i)) : i \in Winners(m, path)}
    BY <2>1, BestIsMeant
  <2>3. ASSUME NEW i \in Winners(m, path) PROVE Serving(m, i, trees[m][Keys(Pattern(i))])
    <3>1. i \in Live(m)
      BY DEF Winners
    <3>. QED  BY <2>1, <3>1 DEF Ready, Faithful, Ending
  <2>. QED  BY <2>2, <2>3 DEF Serving
<1>. QED  BY <1>1, Agrees, PTL

-----------------------------------------------------------------------------
(* The parameters.                                                         *)

\* The places of a pattern, of the first n, that bind; and the first for a name.
Binders(pat, n) == {l \in 1 .. n : pat[l].kind # "STATIC"}
Bound(pat, n) == {pat[l].part : l \in Binders(pat, n)}
IsFirst(pat, n, name, l) ==
    /\ l \in Binders(pat, n) /\ pat[l].part = name
    /\ \A j \in Binders(pat, n) : pat[j].part = name => l <= j
First(pat, n, name) == CHOOSE l : IsFirst(pat, n, name, l)

LEMMA FirstProperties ==
    ASSUME NEW pat, NEW n \in Nat, NEW name
    PROVE  /\ name \in Bound(pat, n) => IsFirst(pat, n, name, First(pat, n, name))
           /\ \A l : IsFirst(pat, n, name, l) => l = First(pat, n, name)
<1>1. ASSUME name \in Bound(pat, n) PROVE \E l : IsFirst(pat, n, name, l)
  <2>. DEFINE S == {l \in Binders(pat, n) : pat[l].part = name}
  <2>1. S \in SUBSET Nat /\ S # {}
    BY <1>1 DEF Binders, Bound
  <2>2. PICK l \in S : \A k \in S : l <= k
    BY <2>1, LeastNumber
  <2>. QED  BY <2>2 DEF IsFirst
<1>2. ASSUME NEW l, NEW j, IsFirst(pat, n, name, l), IsFirst(pat, n, name, j) PROVE l = j
  <2>1. l \in Nat /\ j \in Nat /\ l <= j /\ j <= l
    BY <1>2 DEF IsFirst, Binders
  <2>. QED  BY <2>1
<1>. QED  BY <1>1, <1>2 DEF First

(* The second walk binds as the pattern does where they bind alike.        *)
LEMMA BindIs ==
    ASSUME NEW pat \in Seq(Segments), NEW n \in 0 .. Len(pat), NEW path,
           \A l \in 1 .. n : pat[l].kind # "STATIC" <=> pat[l].part # path[l]
    PROVE  Bind(path, Way(pat, n)) = [name \in Bound(pat, n) |-> <<path[First(pat, n, name)]>>]
<1>. DEFINE k == Way(pat, n)
            binds == {i \in 1 .. Len(k) : k[i] # path[i]}
            first(name) == CHOOSE i \in binds : k[i] = name /\ \A j \in binds : k[j] = name => i <= j
<1>1. Len(k) = n /\ n \in Nat /\ \A l \in 1 .. n : k[l] = pat[l].part
  BY WayProperties, LenProperties
<1>. HIDE DEF k
<1>2. binds = Binders(pat, n)
  BY <1>1 DEF Binders
<1>3. Bind(path, k) = [name \in {k[i] : i \in binds} |-> <<path[first(name)]>>]
  BY DEF Bind
<1>. HIDE DEF binds
<1>4. \A i \in binds : k[i] = pat[i].part
  BY <1>1, <1>2 DEF Binders
<1>5. {k[i] : i \in binds} = Bound(pat, n)
  BY <1>2, <1>4 DEF Bound
<1>6. ASSUME NEW name \in Bound(pat, n)
      PROVE  first(name) = First(pat, n, name)
  <2>. DEFINE l == First(pat, n, name)
  <2>0. IsFirst(pat, n, name, l)
    BY <1>1, FirstProperties
  <2>. HIDE DEF l
  <2>1. l \in binds /\ k[l] = name /\ \A j \in binds : k[j] = name => l <= j
    BY <1>2, <1>4, <2>0 DEF IsFirst
  <2>2. /\ first(name) \in binds /\ k[first(name)] = name
        /\ \A j \in binds : k[j] = name => first(name) <= j
    BY <2>1
  <2>. HIDE DEF first
  <2>3. IsFirst(pat, n, name, first(name))
    BY <1>2, <1>4, <2>2 DEF IsFirst
  <2>. QED  BY <1>1, <2>3, FirstProperties DEF l
<1>. HIDE DEF first
<1>. QED  BY <1>3, <1>5, <1>6 DEF k

\* What a pattern binds, but for what it defaults to.
Bindings(pat, path) ==
    LET here == {i \in DOMAIN pat : i <= Len(path) /\ pat[i].kind # "STATIC"}
        of(name) == CHOOSE i \in here : pat[i].part = name /\ \A j \in here : pat[j].part = name => i <= j
    IN [name \in {pat[i].part : i \in here} |->
           IF pat[of(name)].kind = "WILDCARD" THEN SubSeq(path, of(name), Len(path))
           ELSE <<path[of(name)]>>]

LEMMA BindingIs ==
    ASSUME NEW pat, NEW path
    PROVE  Binding(pat, path) =
                 IF Missing(pat, path) /\ Last(pat).default # ""
                 THEN Over(Bindings(pat, path), Single(Last(pat).part, <<Last(pat).default>>))
                 ELSE Bindings(pat, path)
BY Zenon DEF Binding, Bindings

LEMMA BindingsAre ==
    ASSUME NEW pat \in Seq(Segments), NEW path, Len(path) \in Nat,
           NEW n \in 0 .. Len(pat), \A i \in 1 .. Len(pat) : i <= Len(path) <=> i <= n
    PROVE  Bindings(pat, path) = [name \in Bound(pat, n) |->
                 IF pat[First(pat, n, name)].kind = "WILDCARD"
                 THEN SubSeq(path, First(pat, n, name), Len(path))
                 ELSE <<path[First(pat, n, name)]>>]
<1>. DEFINE here == {i \in DOMAIN pat : i <= Len(path) /\ pat[i].kind # "STATIC"}
            of(name) == CHOOSE i \in here :
                           pat[i].part = name /\ \A j \in here : pat[j].part = name => i <= j
<1>1. Len(pat) \in Nat /\ DOMAIN pat = 1 .. Len(pat) /\ n \in Nat
  BY LenProperties
<1>2. here = Binders(pat, n)
  BY <1>1 DEF Binders
<1>3. Bindings(pat, path) = [name \in {pat[i].part : i \in here} |->
                                IF pat[of(name)].kind = "WILDCARD" THEN SubSeq(path, of(name), Len(path))
                                ELSE <<path[of(name)]>>]
  BY DEF Bindings
<1>. HIDE DEF here
<1>4. {pat[i].part : i \in here} = Bound(pat, n)
  BY <1>2 DEF Bound
<1>5. ASSUME NEW name \in Bound(pat, n)
      PROVE  of(name) = First(pat, n, name)
  <2>. DEFINE l == First(pat, n, name)
  <2>0. IsFirst(pat, n, name, l)
    BY <1>1, FirstProperties
  <2>. HIDE DEF l
  <2>1. l \in here /\ pat[l].part = name /\ \A j \in here : pat[j].part = name => l <= j
    BY <1>2, <2>0 DEF IsFirst
  <2>2. /\ of(name) \in here /\ pat[of(name)].part = name
        /\ \A j \in here : pat[j].part = name => of(name) <= j
    BY <2>1
  <2>. HIDE DEF of
  <2>3. IsFirst(pat, n, name, of(name))
    BY <1>2, <2>2 DEF IsFirst
  <2>. QED  BY <1>1, <2>3, FirstProperties DEF l
<1>. HIDE DEF of
<1>. QED  BY <1>3, <1>4, <1>5

LEMMA BoundTo ==
    ASSUME NEW pat \in Seq(Segments), NEW path, Len(path) \in Nat,
           NEW n \in 0 .. Len(pat), \A i \in 1 .. Len(pat) : i <= Len(path) <=> i <= n,
           NEW name \in Bound(pat, n), pat[First(pat, n, name)].kind # "WILDCARD"
    PROVE  Bindings(pat, path)[name] = <<path[First(pat, n, name)]>>
<1>. DEFINE value(nm) == IF pat[First(pat, n, nm)].kind = "WILDCARD"
                         THEN SubSeq(path, First(pat, n, nm), Len(path))
                         ELSE <<path[First(pat, n, nm)]>>
<1>1. Bindings(pat, path) = [nm \in Bound(pat, n) |-> value(nm)]
  BY BindingsAre, Zenon
<1>2. value(name) = <<path[First(pat, n, name)]>>
  OBVIOUS
<1>. HIDE DEF value
<1>. QED  BY <1>1, <1>2

LEMMA ParamsAre ==
    ASSUME NEW m, Ready(m), NEW V, NEW path \in Seq(V), Plain(m, path),
           NEW i \in Live(m), ~ table[i].files, Pattern(i) # <<>>, Means(i, path),
           ~ (Missing(Pattern(i), path) /\ \E seg \in ToSet(Front(Pattern(i))) : seg.kind # "STATIC")
    PROVE  Params(trees[m], path, Keys(Pattern(i))) = Binding(Pattern(i), path)
<1>. DEFINE p == Pattern(i)
            k == Keys(p)
            tree == trees[m]
            n == Len(p)
            x == Len(path)
<1>1. /\ i \in Ids(m) /\ p \in Seq(Segments) /\ n \in Nat /\ DOMAIN p = 1 .. n /\ x \in Nat
      /\ n # 0 /\ n \in 1 .. n /\ n \in 0 .. n /\ n - 1 \in 0 .. n
  BY ReadyProperties, LenProperties, EmptySeq DEF Live
<1>2. /\ k = Way(p, n) /\ Len(k) = n /\ k # <<>> /\ Last(k) = Last(p).part
      /\ Front(k) = Way(p, n - 1) /\ Last(p) = p[n]
      /\ SubSeq(p, 1, n) = p /\ Front(p) = SubSeq(p, 1, n - 1)
  <2>1. Last(p) = p[n] /\ Front(p) = SubSeq(p, 1, n - 1) /\ SubSeq(p, 1, n) = p
    BY <1>1, SubSeqFull DEF Last, Front
  <2>2. Way(p, n) = k
    BY <1>1, WayProperties
  <2>3. /\ Len(Way(p, n)) = n /\ Way(p, n) # <<>>
        /\ Last(Way(p, n)) = p[n].part /\ Front(Way(p, n)) = Way(p, n - 1)
    <3>. HIDE DEF p, n
    <3>. QED  BY <1>1, WayProperties
  <2>. QED  BY <2>1, <2>2, <2>3
<1>3. Spelled(tree[k], p[n]) /\ p[n] \in Segments
  <2>1. Spelled(tree[Way(p, n)], p[n])
    BY <1>1 DEF Ready, Faithful, Spelling
  <2>. QED  BY <1>1, <1>2, <2>1, ElementOfSeq
<1>4. /\ Walked(tree, path, k) <=> Begins(p, path)
      /\ Walked(tree, path, Front(k)) <=> Begins(Front(p), path)
  BY <1>1, <1>2, WalkedIsBegins
<1>5. ASSUME NEW l \in 1 .. n, l <= x
      PROVE  p[l].kind # "STATIC" => p[l].part # path[l]
  <2>1. l \in 1 .. Len(path) /\ p[l] \in ToSet(p)
    BY <1>1, <1>5 DEF ToSet
  <2>2. p[l].kind # "STATIC" => ~ Contains(path, p[l].part)
    BY <1>1, <2>1 DEF Plain
  <2>. QED  BY <2>1, <2>2 DEF Contains
<1>6. ASSUME NEW l, Fits(p[l], path[l])
      PROVE  (p[l].kind = "STATIC" => p[l].part = path[l]) /\ p[l].kind # "WILDCARD"
  BY <1>6 DEF Fits
<1>7. Begins(p, path) <=> n <= x /\ \A l \in 1 .. n : Fits(p[l], path[l])
  BY <1>1 DEF Begins
<1>8. Begins(Front(p), path) <=> n - 1 <= x /\ \A l \in 1 .. n - 1 : Fits(p[l], path[l])
  <2>1. /\ Len(Front(p)) = n - 1 /\ DOMAIN Front(p) = 1 .. n - 1
        /\ \A l \in 1 .. n - 1 : Front(p)[l] = p[l]
    BY <1>1, <1>2, PrefixProperties, LenProperties
  <2>. QED  BY <2>1 DEF Begins
<1>9. Covers(p, path) \/ Missing(p, path)
  BY DEF Means
<1>. DEFINE found == Recalculated(tree, path, k)
<1>10. /\ tree[k].optional = p[n].optional /\ tree[k].type = p[n].kind
       /\ p[n].optional => p[n].kind = "PARAMETER" /\ tree[k].default = p[n].default
       /\ p[n].optional \in BOOLEAN
  BY <1>3 DEF Spelled, Segments, AnySegment
<1>11. Params(tree, path, k) =
          IF p[n].optional /\ p[n].default # "" /\ p[n].part \notin DOMAIN found
          THEN Over(found, Single(p[n].part, <<p[n].default>>)) ELSE found
  <2>1. Params(tree, path, k) =
          IF tree[k].optional /\ tree[k].default # "" /\ Last(k) \notin DOMAIN found
          THEN Over(found, Single(Last(k), <<tree[k].default>>)) ELSE found
    BY DEF Params
  <2>. HIDE DEF found, tree, k, p, n
  <2>. QED  BY <1>2, <1>10, <2>1
<1>12. Recalculated(tree, path, k) =
          IF Len(k) = x /\ Walked(tree, path, k) THEN Bind(path, k)
          ELSE IF k # <<>> /\ tree[k].type = "WILDCARD" /\ Len(k) <= x /\ Walked(tree, path, Front(k))
          THEN Over(Bind(path, Front(k)), Single(Last(k), Remaining(path, k)))
          ELSE <<>>
  BY DEF Recalculated
<1>13. ASSUME NEW j \in 0 .. n, \A l \in 1 .. n : l <= x <=> l <= j
       PROVE  /\ Binding(p, path) = IF Missing(p, path) /\ p[n].default # ""
                                    THEN Over(Bindings(p, path), Single(p[n].part, <<p[n].default>>))
                                    ELSE Bindings(p, path)
              /\ Bindings(p, path) = [name \in Bound(p, j) |->
                    IF p[First(p, j, name)].kind = "WILDCARD"
                    THEN SubSeq(path, First(p, j, name), Len(path))
                    ELSE <<path[First(p, j, name)]>>]
  BY <1>1, <1>2, <1>13, BindingIs, BindingsAre
<1>14. ASSUME NEW j \in 0 .. n, j <= x, \A l \in 1 .. j : Fits(p[l], path[l])
       PROVE  Bind(path, Way(p, j)) = [name \in Bound(p, j) |-> <<path[First(p, j, name)]>>]
  <2>1. \A l \in 1 .. j : l \in 1 .. n /\ l <= x
    BY <1>1, <1>14
  <2>2. \A l \in 1 .. j : p[l].kind # "STATIC" <=> p[l].part # path[l]
    BY <1>5, <1>6, <1>14, <2>1
  <2>. QED  BY <1>1, <2>2, BindIs
<1>. HIDE DEF p, k, tree, n, x, found
<1>15. CASE n = x /\ Begins(p, path)
  <2>1. ~ Missing(p, path)
    BY <1>15 DEF Missing, Covers, n, x
  <2>2. \A l \in 1 .. n : Fits(p[l], path[l])
    BY <1>7, <1>15
  <2>3. n <= x /\ \A l \in 1 .. n : l <= x <=> l <= n
    BY <1>1, <1>15
  <2>4. found = [name \in Bound(p, n) |-> <<path[First(p, n, name)]>>]
    BY <1>1, <1>2, <1>4, <1>12, <1>14, <1>15, <2>2, <2>3 DEF found
  <2>5. ASSUME NEW name \in Bound(p, n) PROVE p[First(p, n, name)].kind # "WILDCARD"
    <3>1. First(p, n, name) \in 1 .. n
      BY <1>1, FirstProperties DEF IsFirst, Binders
    <3>. QED  BY <1>6, <2>2, <3>1
  <2>6. Bindings(p, path) = [name \in Bound(p, n) |->
                    IF p[First(p, n, name)].kind = "WILDCARD"
                    THEN SubSeq(path, First(p, n, name), Len(path))
                    ELSE <<path[First(p, n, name)]>>]
    BY <1>1, <1>13, <2>3
  <2>7. Bindings(p, path) = found
    BY <2>4, <2>5, <2>6
  <2>8. Binding(p, path) = found
    BY <1>1, <1>13, <2>1, <2>3, <2>7
  <2>9. p[n].optional => p[n].part \in DOMAIN found
    BY <1>1, <1>10, <2>4 DEF Bound, Binders
  <2>. QED  BY <1>11, <2>8, <2>9 DEF k, p, tree
<1>16. CASE p[n].kind = "WILDCARD" /\ n <= x /\ Begins(Front(p), path)
  <2>1. ~ p[n].optional /\ ~ Missing(p, path)
    BY <1>2, <1>10, <1>16 DEF Missing
  <2>2. \A l \in 1 .. n - 1 : Fits(p[l], path[l])
    BY <1>8, <1>16
  <2>3. ~ Walked(tree, path, k)
    <3>1. ~ Fits(p[n], path[n])
      BY <1>16 DEF Fits
    <3>. QED  BY <1>1, <1>4, <1>7, <3>1
  <2>. DEFINE f == Bind(path, Front(k))
              g == Single(p[n].part, Remaining(path, k))
  <2>4. f = [name \in Bound(p, n - 1) |-> <<path[First(p, n - 1, name)]>>]
    <3>1. n - 1 <= x
      BY <1>1, <1>16
    <3>. QED  BY <1>1, <1>2, <1>14, <2>2, <3>1
  <2>5. found = Over(f, g)
    BY <1>2, <1>4, <1>10, <1>12, <1>16, <2>3 DEF found
  <2>6. g = [name \in {p[n].part} |-> SubSeq(path, n, Len(path))]
    BY <1>2 DEF Single, Remaining
  <2>. HIDE DEF f, g
  <2>7. found = [name \in Bound(p, n - 1) \cup {p[n].part} |->
                    IF name \in Bound(p, n - 1) THEN <<path[First(p, n - 1, name)]>>
                    ELSE SubSeq(path, n, Len(path))]
    BY <2>4, <2>5, <2>6 DEF Over
  <2>8. /\ n \in Binders(p, n) /\ n \notin Binders(p, n - 1)
        /\ Binders(p, n) = Binders(p, n - 1) \cup {n}
        /\ \A l \in Binders(p, n - 1) : l < n
    BY <1>1, <1>16 DEF Binders
  <2>9. Bound(p, n) = Bound(p, n - 1) \cup {p[n].part}
    BY <2>8 DEF Bound
  <2>10. ASSUME NEW name \in Bound(p, n - 1)
         PROVE  First(p, n, name) = First(p, n - 1, name) /\ p[First(p, n, name)].kind # "WILDCARD"
    <3>. DEFINE l == First(p, n - 1, name)
    <3>1. n - 1 \in Nat
      BY <1>1
    <3>2. IsFirst(p, n - 1, name, l)
      BY <3>1, FirstProperties
    <3>. HIDE DEF l
    <3>3. l \in 1 .. n - 1 /\ l <= n
      BY <1>1, <3>2 DEF IsFirst, Binders
    <3>4. IsFirst(p, n, name, l)
      BY <2>8, <3>2, <3>3 DEF IsFirst
    <3>5. First(p, n, name) = l
      BY <1>1, <3>4, FirstProperties
    <3>. QED  BY <1>6, <2>2, <3>3, <3>5 DEF l
  <2>11. ASSUME NEW name \in Bound(p, n), name \notin Bound(p, n - 1)
         PROVE  First(p, n, name) = n
    <3>1. name = p[n].part /\ \A l \in Binders(p, n - 1) : p[l].part # name
      BY <2>9, <2>11 DEF Bound
    <3>2. IsFirst(p, n, name, n)
      BY <1>1, <2>8, <3>1 DEF IsFirst
    <3>. QED  BY <1>1, <3>2, FirstProperties
  <2>12. \A l \in 1 .. n : l <= x <=> l <= n
    BY <1>1, <1>16
  <2>13. Bindings(p, path) = [name \in Bound(p, n) |->
                    IF p[First(p, n, name)].kind = "WILDCARD"
                    THEN SubSeq(path, First(p, n, name), Len(path))
                    ELSE <<path[First(p, n, name)]>>]
    BY <1>1, <1>13, <2>12
  <2>14. ASSUME NEW name \in Bound(p, n)
         PROVE  (IF p[First(p, n, name)].kind = "WILDCARD"
                 THEN SubSeq(path, First(p, n, name), Len(path)) ELSE <<path[First(p, n, name)]>>)
                = IF name \in Bound(p, n - 1) THEN <<path[First(p, n - 1, name)]>>
                  ELSE SubSeq(path, n, Len(path))
    BY <1>16, <2>10, <2>11
  <2>15. Bindings(p, path) = found
    BY <2>7, <2>9, <2>13, <2>14
  <2>16. Binding(p, path) = found
    BY <1>1, <1>13, <2>1, <2>12, <2>15
  <2>. QED  BY <1>11, <2>1, <2>16 DEF k, p, tree
<1>17. CASE Missing(p, path)
  <2>1. /\ p[n].optional /\ ~ Covers(p, path) /\ Covers(Front(p), path)
        /\ \A seg \in ToSet(Front(p)) : seg.kind = "STATIC"
    BY <1>2, <1>17 DEF Missing, p
  <2>2. /\ Front(p) \in Seq(Segments) /\ Len(Front(p)) = n - 1
        /\ \A l \in 1 .. n - 1 : Front(p)[l] = p[l] /\ p[l].kind = "STATIC"
    <3>1. Front(p) \in Seq(Segments) /\ Len(Front(p)) = n - 1 /\ \A l \in 1 .. n - 1 : Front(p)[l] = p[l]
      BY <1>1, <1>2, PrefixProperties DEF n
    <3>2. \A l \in 1 .. n - 1 : Front(p)[l] \in ToSet(Front(p))
      BY <3>1, LenProperties DEF ToSet
    <3>. QED  BY <2>1, <3>1, <3>2
  <2>3. x = n - 1
    <3>1. Front(p) # <<>> => Last(Front(p)).kind = "STATIC"
      <4>1. Front(p) # <<>> => n - 1 \in 1 .. n - 1
        BY <1>1, <2>2, EmptySeq
      <4>. QED  BY <2>2, <4>1 DEF Last
    <3>. QED  BY <2>1, <2>2, <3>1 DEF Covers, x
  <2>4. found = <<>>
    BY <1>1, <1>2, <1>10, <1>12, <2>1, <2>3 DEF found
  <2>5. DOMAIN found = {}
    BY <2>4, EmptySeq
  <2>6. \A l \in 1 .. n : l <= x <=> l <= n - 1
    BY <1>1, <2>3
  <2>7. Bound(p, n - 1) = {}
    BY <2>2 DEF Bound, Binders
  <2>8. Bindings(p, path) = <<>>
    <3>1. Bindings(p, path) = [name \in Bound(p, n - 1) |->
                    IF p[First(p, n - 1, name)].kind = "WILDCARD"
                    THEN SubSeq(path, First(p, n - 1, name), Len(path))
                    ELSE <<path[First(p, n - 1, name)]>>]
      BY <1>1, <1>13, <2>6
    <3>2. Bindings(p, path) \in [{} -> {}]
      BY <2>7, <3>1
    <3>. QED  BY <3>2, EmptyMap
  <2>9. Bindings(p, path) = found
    BY <2>4, <2>8
  <2>10. Binding(p, path) = IF p[n].default # "" THEN Over(found, Single(p[n].part, <<p[n].default>>))
                            ELSE found
    BY <1>1, <1>13, <1>17, <2>6, <2>9
  <2>11. Params(tree, path, k) =
           IF p[n].default # "" THEN Over(found, Single(p[n].part, <<p[n].default>>)) ELSE found
    BY <1>11, <2>1, <2>5
  <2>. QED  BY <2>10, <2>11 DEF k, p, tree
<1>18. Covers(p, path) =>
          \/ n = x /\ Begins(p, path)
          \/ p[n].kind = "WILDCARD" /\ n <= x /\ Begins(Front(p), path)
  BY <1>2 DEF Covers, n, x
<1>. QED  BY <1>9, <1>15, <1>16, <1>17, <1>18

(* RouteMatcher::match() gives a handler just the parameters its pattern   *)
(* binds, with what was left out at its default, from what it finds by the *)
(* second walk of recalculate_params(): for every set of patterns that are *)
(* not in each other's way, and every path without a name that one of them *)
(* binds; but not when the missing last parameter has others before it.    *)
THEOREM ParamsAreRight == Spec => []ParamsAgree
<1>1. IInv /\ Agreement => ParamsAgree
  <2>. SUFFICES ASSUME IInv, Agreement, NEW m \in Methods, HasTree(m), Orderly(m),
                       NEW path \in Paths, Plain(m, path), NEW i \in Winners(m, path),
                       ~ table[i].files, Pattern(i) # <<>>,
                       ~ (Missing(Pattern(i), path)
                          /\ \E seg \in ToSet(Front(Pattern(i))) : seg.kind # "STATIC")
                PROVE  Params(trees[m], path, Keys(Pattern(i))) = Binding(Pattern(i), path)
    BY Zenon DEF ParamsAgree
  <2>1. Ready(m) /\ path \in Seq(STRING)
    BY ReadyWhen, RouterAssumption
  <2>2. i \in Live(m) /\ Means(i, path)
    BY DEF Winners
  <2>. QED  BY <2>1, <2>2, ParamsAre
<1>. QED  BY <1>1, Agrees, PTL

-----------------------------------------------------------------------------
(* The URLs.                                                               *)

(* The URL of a pattern that can be substituted in: at each place its text,*)
(* or the value of what it is the first to bind.                           *)
LEMMA UrlProperties ==
    ASSUME NEW p \in Seq(Segments), Substitutable(p), NEW params, NEW url, url = UrlFor(p, params)
    PROVE  /\ \E V : url \in Seq(V)
           /\ Len(url) = Len(p) /\ Begins(p, url)
           /\ \A name \in Bound(p, Len(p)) : url[First(p, Len(p), name)] = params[name]
<1>. DEFINE n == Len(p)
            marks == {i \in DOMAIN p : p[i].optional /\ p[i].default = ""}
            end == IF marks = {} THEN n ELSE CHOOSE i \in marks : \A j \in marks : i <= j
            V == {Filled(p, params, i) : i \in 1 .. n}
<1>1. n \in Nat /\ DOMAIN p = 1 .. n
  BY LenProperties
<1>2. \A i \in 1 .. n : /\ p[i].kind = "STATIC" \/ p[i].kind = "PARAMETER"
                        /\ p[i].default = "" /\ (p[i].optional => i = n)
  BY <1>1 DEF Substitutable
<1>3. end = n
  <2>1. marks = {} \/ marks = {n}
    BY <1>1, <1>2
  <2>. HIDE DEF marks
  <2>2. CASE marks = {n}
    <3>1. n \in marks /\ \A j \in marks : n <= j
      BY <1>1, <2>2
    <3>. QED  BY <2>2, <3>1
  <2>. QED  BY <2>1, <2>2
<1>4. url = [i \in 1 .. end |-> Filled(p, params, i)]
  BY DEF UrlFor
<1>. HIDE DEF n, end
<1>5. url = [i \in 1 .. n |-> Filled(p, params, i)]
  BY <1>3, <1>4
<1>6. url \in Seq(V) /\ Len(url) = n
  <2>1. url \in [1 .. n -> V]
    BY <1>5
  <2>. HIDE DEF V
  <2>2. url \in Seq(V)
    BY <1>1, <2>1, IsASeq
  <2>. QED  BY <1>1, <2>1, <2>2, LenProperties
<1>. HIDE DEF V
<1>. DEFINE again(i) == \E j \in 1 .. (i - 1) : p[j].kind = "PARAMETER" /\ p[j].part = p[i].part
<1>7. ASSUME NEW i \in 1 .. n
      PROVE  /\ p[i].kind = "STATIC" => url[i] = p[i].part
             /\ p[i].kind = "PARAMETER" /\ ~ again(i) => url[i] = params[p[i].part]
  <2>1. url[i] = Filled(p, params, i) /\ p[i].default = ""
    BY <1>2, <1>5
  <2>2. p[i].kind = "STATIC" => Filled(p, params, i) = p[i].part
    BY DEF Filled
  <2>3. p[i].kind = "PARAMETER" /\ ~ again(i) => Filled(p, params, i) = params[p[i].part]
    BY <2>1 DEF Filled
  <2>. QED  BY <2>1, <2>2, <2>3
<1>8. Begins(p, url)
  <2>1. \A i \in 1 .. n : Fits(p[i], url[i])
    BY <1>2, <1>7 DEF Fits
  <2>. QED  BY <1>1, <1>6, <2>1 DEF Begins, n
<1>9. ASSUME NEW name \in Bound(p, n) PROVE url[First(p, n, name)] = params[name]
  <2>. DEFINE f == First(p, n, name)
  <2>1. IsFirst(p, n, name, f)
    BY <1>1, FirstProperties
  <2>. HIDE DEF f
  <2>2. /\ f \in 1 .. n /\ p[f].kind # "STATIC" /\ p[f].part = name
        /\ \A j \in Binders(p, n) : p[j].part = name => f <= j
    BY <2>1 DEF IsFirst, Binders
  <2>3. ~ again(f)
    <3>1. ASSUME NEW j \in 1 .. (f - 1), p[j].kind = "PARAMETER", p[j].part = name PROVE FALSE
      <4>1. j \in 1 .. n /\ j < f
        BY <1>1, <2>2
      <4>2. j \in Binders(p, n)
        BY <3>1, <4>1 DEF Binders
      <4>. QED  BY <1>1, <2>2, <3>1, <4>1, <4>2
    <3>. QED  BY <2>2, <3>1
  <2>. HIDE DEF again
  <2>. QED  BY <1>2, <1>7, <2>2, <2>3 DEF f
<1>. QED  BY <1>6, <1>8, <1>9 DEF n

(* The URL url_for() gives for a named route leads back to it: its node is *)
(* among those RouteMatcher::match() finds for it, and its handler would   *)
(* get the values the URL was made from.  For every set of patterns that   *)
(* are not in each other's way, and all values.                            *)
THEOREM UrlsAreRight == Spec => []UrlRoundTrip
<1>1. IInv /\ Agreement => UrlRoundTrip
  <2>. SUFFICES ASSUME IInv, Agreement, NEW i \in 1 .. Len(table), NEW m, m = table[i].method,
                       table[i].name # NoName, Orderly(m), Substitutable(Pattern(i)),
                       NEW params \in [Parameters(Pattern(i)) -> Values],
                       NEW url, url = UrlFor(named[table[i].name], params),
                       Pattern(i) # <<>>, Plain(m, url)
                PROVE  /\ Keys(Pattern(i)) \in Matches(trees[m], url)
                       /\ \A name \in DOMAIN params :
                             Params(trees[m], url, Keys(Pattern(i)))[name] = <<params[name]>>
    BY Zenon DEF UrlRoundTrip
  <2>. DEFINE p == Pattern(i)
  <2>1. i \in Ids(m) /\ m \in Methods /\ p \in Seq(Segments) /\ table[i].pattern = p
    BY TableProperties DEF Ids
  <2>2. named[table[i].name] = p /\ ~ table[i].files
    BY DEF Agreement, NamesHold
  <2>3. Ready(m)
    <3>1. Faithful(m)
      BY <2>1 DEF Agreement
    <3>2. Keys(p) \in DOMAIN trees[m]
      BY <2>1, <3>1, LineProperties DEF Faithful, Domain
    <3>3. trees[m] # <<>>
      BY <3>2, EmptySeq
    <3>. QED  BY <2>1, <3>1, <3>3 DEF Agreement, Ready
  <2>4. PICK l \in Live(m) : Pattern(l) = p
    BY <2>1, LiveProperties
  <2>5. ~ table[l].files
    <3>1. l \in Ids(m) /\ table[l].pattern = p
      BY <2>4, TableProperties DEF Live, Pattern
    <3>2. Compatible(table[l], table[i])
      BY <2>1, <3>1 DEF Orderly
    <3>3. Keys(p) \in Line(p)
      BY <2>1, LineProperties
    <3>. QED  BY <2>1, <2>2, <3>1, <3>2, <3>3, CompatibleProperties
  <2>6. /\ \E V : url \in Seq(V)
        /\ Len(url) = Len(p) /\ Begins(p, url)
        /\ \A name \in Bound(p, Len(p)) : url[First(p, Len(p), name)] = params[name]
    BY <2>1, <2>2, UrlProperties
  <2>7. PICK V : url \in Seq(V)
    BY <2>6
  <2>8. Covers(p, url) /\ ~ Missing(p, url)
    BY <2>6 DEF Covers, Missing
  <2>9. Means(l, url)
    BY <2>4, <2>5, <2>8 DEF Means
  <2>10. Keys(p) \in Matches(trees[m], url)
    BY <2>3, <2>4, <2>7, <2>9, MatchesMean
  <2>11. Params(trees[m], url, Keys(p)) = Binding(p, url)
    BY <2>3, <2>4, <2>5, <2>7, <2>8, <2>9, ParamsAre
  <2>12. ASSUME NEW name \in DOMAIN params PROVE Binding(p, url)[name] = <<params[name]>>
    <3>. DEFINE n == Len(p)
                f == First(p, n, name)
    <3>1. n \in Nat /\ DOMAIN p = 1 .. n /\ n \in 0 .. n /\ Len(url) = n
      BY <2>1, <2>6, LenProperties
    <3>2. name \in Bound(p, n)
      <4>1. PICK j \in DOMAIN p : p[j].kind = "PARAMETER" /\ name = p[j].part
        BY DEF Parameters
      <4>. QED  BY <3>1, <4>1 DEF Bound, Binders
    <3>3. url[f] = params[name]
      BY <2>6, <3>2
    <3>4. p[f].kind # "WILDCARD"
      <4>1. f \in DOMAIN p
        BY <3>1, <3>2, FirstProperties DEF IsFirst, Binders
      <4>. QED  BY <4>1 DEF Substitutable
    <3>5. \A j \in 1 .. Len(p) : j <= Len(url) <=> j <= n
      BY <3>1
    <3>6. n \in 0 .. Len(p) /\ Len(url) \in Nat /\ p \in Seq(Segments)
      BY <2>1, <3>1
    <3>7. Binding(p, url) = Bindings(p, url)
      BY <2>8, BindingIs, Zenon
    <3>. HIDE DEF p, n
    <3>8. Bindings(p, url)[name] = <<url[First(p, n, name)]>>
      BY <3>2, <3>4, <3>5, <3>6, BoundTo
    <3>. QED  BY <3>3, <3>7, <3>8
  <2>. QED  BY <2>10, <2>11, <2>12
<1>. QED  BY <1>1, Agrees, PTL

-----------------------------------------------------------------------------
(* The query.                                                              *)

Signs(query) == {i \in DOMAIN query : query[i] = "="}
Named(query, S, name) == {s \in S : query[s - 1] = name}

\* The pairs of the signs in S; of one name the last counts.
Pairs(query, S) ==
    [name \in {query[s - 1] : s \in S} |-> query[Latest(Named(query, S, name)) + 1]]

LEMMA LatestIs ==
    ASSUME NEW n \in Nat, NEW S \in SUBSET (1 .. n), NEW k \in S, \A l \in S : l <= k
    PROVE  Latest(S) = k
<1>1. Latest(S) \in S /\ \A l \in S : l <= Latest(S)
  BY LatestProperties
<1>. DEFINE l == Latest(S)
<1>2. l \in 1 .. n /\ k \in 1 .. n /\ l <= k /\ k <= l
  BY <1>1
<1>. HIDE DEF l
<1>3. l = k
  BY <1>2
<1>. QED  BY <1>3 DEF l

LEMMA MeantIsPairs ==
    ASSUME NEW query \in Seq(STRING)
    PROVE  Meant(query) = Pairs(query, Signs(query))
<1>. DEFINE S == Signs(query)
            n == Len(query)
            of(name) == CHOOSE i \in S : query[i - 1] = name /\ \A j \in S : query[j - 1] = name => j <= i
<1>1. n \in Nat /\ S \in SUBSET (1 .. n)
  BY LenProperties DEF Signs
<1>2. Meant(query) = [name \in {query[i - 1] : i \in S} |-> query[of(name) + 1]]
  BY DEF Meant, Signs
<1>. HIDE DEF S, n
<1>3. ASSUME NEW name \in {query[i - 1] : i \in S} PROVE of(name) = Latest(Named(query, S, name))
  <2>. DEFINE N == Named(query, S, name)
  <2>1. N \in SUBSET (1 .. n) /\ N # {} /\ \A j : j \in N <=> j \in S /\ query[j - 1] = name
    BY <1>1 DEF Named
  <2>. HIDE DEF N
  <2>2. Latest(N) \in N /\ \A l \in N : l <= Latest(N)
    BY <1>1, <2>1, LatestProperties
  <2>3. /\ of(name) \in S /\ query[of(name) - 1] = name
        /\ \A j \in S : query[j - 1] = name => j <= of(name)
    BY <2>1, <2>2
  <2>. HIDE DEF of
  <2>4. of(name) \in N /\ \A j \in N : j <= of(name)
    BY <2>1, <2>3
  <2>. QED  BY <1>1, <2>1, <2>4, LatestIs DEF N
<1>. HIDE DEF of
<1>. QED  BY <1>2, <1>3 DEF Pairs, S

(* One pair more, behind the others.                                       *)
LEMMA PairsStep ==
    ASSUME NEW query, NEW n \in Nat, NEW S \in SUBSET (1 .. n), NEW t \in 1 .. n, \A s \in S : s < t
    PROVE  Pairs(query, S \cup {t}) = Over(Single(query[t - 1], query[t + 1]), Pairs(query, S))
<1>. DEFINE T == S \cup {t}
            key == query[t - 1]
<1>1. Named(query, T, key) \in SUBSET (1 .. n) /\ t \in Named(query, T, key)
      /\ \A l \in Named(query, T, key) : l <= t
  <2>1. T \in SUBSET (1 .. n) /\ t \in T /\ t \in Nat /\ \A l \in T : l = t \/ l < t
    OBVIOUS
  <2>2. \A l \in T : l <= t
    BY <2>1
  <2>. HIDE DEF T
  <2>. QED  BY <2>1, <2>2 DEF Named
<1>2. Latest(Named(query, T, key)) = t
  BY <1>1, LatestIs
<1>3. ASSUME NEW name, name # key PROVE Named(query, T, name) = Named(query, S, name)
  BY <1>3 DEF Named
<1>4. {query[s - 1] : s \in T} = {key} \cup {query[s - 1] : s \in S}
  OBVIOUS
<1>. HIDE DEF T, key
<1>5. Pairs(query, T) = [name \in {key} \cup {query[s - 1] : s \in S} |->
                            IF name = key THEN query[t + 1] ELSE query[Latest(Named(query, S, name)) + 1]]
  BY <1>2, <1>3, <1>4 DEF Pairs
<1>6. Over(Single(key, query[t + 1]), Pairs(query, S)) =
         [name \in {key} \cup {query[s - 1] : s \in S} |->
            IF name = key THEN query[t + 1] ELSE query[Latest(Named(query, S, name)) + 1]]
  BY DEF Over, Single, Pairs
<1>. QED  BY <1>5, <1>6 DEF T, key

(* What the scan holds: a name, a word and the pairs before.               *)
State(key, word, params) == [key |-> key, word |-> word, params |-> params]

LEMMA ScanName ==
    ASSUME NEW key, NEW word, NEW params, NEW token, token = "="
    PROVE  Scan(State(key, word, params), token) = State(word, "", params)
BY DEF Scan, State

LEMMA ScanPair ==
    ASSUME NEW key, NEW word, NEW params, NEW token, token = "&"
    PROVE  Scan(State(key, word, params), token) = State(key, "", Over(Single(key, word), params))
BY DEF Scan, State

LEMMA ScanWord ==
    ASSUME NEW key, NEW word, NEW params, NEW token, token # "=", token # "&"
    PROVE  Scan(State(key, word, params), token) = State(key, token, params)
BY DEF Scan, State

(* After i tokens of a query of pairs.                                     *)
NameAt(query, i) == IF i < 3 THEN "" ELSE query[i - 1 - ((i - 3) % 4)]
WordAt(query, i) == IF i % 4 = 1 \/ i % 4 = 3 THEN "" ELSE query[i]
Done(query, i) == {s \in Signs(query) : s + 2 <= i}

Scanned(query, i) ==
    IF i <= 1 THEN State("", "", <<>>)
    ELSE State(NameAt(query, i), WordAt(query, i), Pairs(query, Done(query, i)))

\* The signs of a query of pairs.
LEMMA SignsAre ==
    ASSUME NEW query \in Seq(STRING), WellFormed(query), query # <<>>, Head(query) = "?"
    PROVE  /\ Len(query) \in Nat /\ Len(query) >= 4 /\ Len(query) % 4 = 0
           /\ Signs(query) = {i \in 2 .. Len(query) : i % 4 = 3}
           /\ \A i \in 2 .. Len(query) : query[i] = "&" <=> i % 4 = 1
<1>. DEFINE n == Len(query)
<1>1. n \in Nat /\ n # 0 /\ DOMAIN query = 1 .. n /\ query[1] = "?"
  BY LenProperties, EmptySeq
<1>2. n % 4 = 0 /\ \A i \in 2 .. n : query[i] = "=" <=> i % 4 = 3
  BY DEF WellFormed
<1>3. \A i \in 2 .. n : query[i] = "&" <=> i % 4 = 1
  BY DEF WellFormed
<1>4. Signs(query) = {i \in 1 .. n : query[i] = "="}
  BY <1>1 DEF Signs
<1>. HIDE DEF n
<1>5. n >= 4
  BY <1>1, <1>2
<1>6. ASSUME NEW i PROVE i \in Signs(query) <=> i \in {j \in 2 .. n : j % 4 = 3}
  <2>1. CASE i = 1
    <3>1. query[i] # "="
      BY <1>1, <2>1
    <3>. QED  BY <1>4, <2>1, <3>1
  <2>2. CASE i # 1
    BY <1>1, <1>2, <1>4, <2>2
  <2>. QED  BY <2>1, <2>2
<1>. QED  BY <1>1, <1>2, <1>3, <1>5, <1>6 DEF n

LEMMA ScannedStep ==
    ASSUME NEW query \in Seq(STRING), WellFormed(query), query # <<>>, Head(query) = "?",
           NEW i \in 2 .. Len(query)
    PROVE  Scan(Scanned(query, i - 1), query[i]) = Scanned(query, i)
<1>. DEFINE n == Len(query)
            S == Signs(query)
            done(j) == Done(query, j)
            token == query[i]
<1>1. /\ n \in Nat /\ n >= 4 /\ n % 4 = 0
      /\ S = {j \in 2 .. n : j % 4 = 3}
      /\ \A j \in 2 .. n : query[j] = "&" <=> j % 4 = 1
      /\ i \in 2 .. n
  BY SignsAre
<1>2. DOMAIN query = 1 .. n
  BY LenProperties
<1>3. token = "=" <=> i % 4 = 3
  BY <1>1, <1>2 DEF Signs
<1>4. token = "&" <=> i % 4 = 1
  BY <1>1
<1>5. \A j : done(j) = {s \in S : s + 2 <= j}
  BY DEF Done
<1>. HIDE DEF n, S, done, token
<1>6. i \in Nat /\ i >= 2 /\ i % 4 \in 0 .. 3 /\ ~ i <= 1 /\ (i # 2 => ~ i - 1 <= 1)
  BY <1>1
<1>7. Scanned(query, i) = State(NameAt(query, i), WordAt(query, i), Pairs(query, done(i)))
  BY <1>6 DEF Scanned, done
<1>8. i # 2 => Scanned(query, i - 1) =
                  State(NameAt(query, i - 1), WordAt(query, i - 1), Pairs(query, done(i - 1)))
  BY <1>6 DEF Scanned, done
<1>9. i % 4 # 1 => done(i) = done(i - 1)
  <2>. SUFFICES ASSUME i % 4 # 1 PROVE done(i) = done(i - 1)
    OBVIOUS
  <2>1. \A s \in S : s \in Nat /\ (s + 2 <= i <=> s + 2 <= i - 1)
    BY <1>1, <1>6
  <2>2. done(i) = {s \in S : s + 2 <= i} /\ done(i - 1) = {s \in S : s + 2 <= i - 1}
    BY <1>5
  <2>. QED  BY <2>1, <2>2
<1>10. CASE i = 2
  <2>1. Scanned(query, i - 1) = State("", "", <<>>)
    BY <1>10 DEF Scanned
  <2>2. token # "=" /\ token # "&"
    BY <1>3, <1>4, <1>10
  <2>3. Pairs(query, done(i)) = <<>>
    <3>1. \A s \in S : ~ s + 2 <= i
      BY <1>1, <1>10
    <3>2. done(i) = {}
      BY <1>5, <3>1
    <3>3. Pairs(query, done(i)) \in [{} -> {}]
      BY <3>2 DEF Pairs
    <3>. QED  BY <3>3, EmptyMap
  <2>4. NameAt(query, i) = "" /\ WordAt(query, i) = token
    BY <1>10 DEF NameAt, WordAt, token
  <2>5. Scan(State("", "", <<>>), token) = State("", token, <<>>)
    BY <2>2, ScanWord, Zenon
  <2>. QED  BY <1>7, <2>1, <2>3, <2>4, <2>5 DEF token
<1>11. CASE i # 2 /\ i % 4 = 2
  <2>1. NameAt(query, i) = query[i - 4] /\ NameAt(query, i - 1) = query[i - 4]
    <3>1. /\ ~ i < 3 /\ ~ i - 1 < 3 /\ (i - 3) % 4 = 3 /\ (i - 1 - 3) % 4 = 2
          /\ i - 1 - 3 = i - 4 /\ i - 1 - 1 - 2 = i - 4
      BY <1>6, <1>11
    <3>. QED  BY <3>1 DEF NameAt
  <2>2. WordAt(query, i) = token
    <3>1. ~ (i % 4 = 1 \/ i % 4 = 3)
      BY <1>6, <1>11
    <3>. QED  BY <3>1 DEF WordAt, token
  <2>3. token # "=" /\ token # "&"
    BY <1>3, <1>4, <1>11
  <2>4. Scan(State(NameAt(query, i - 1), WordAt(query, i - 1), Pairs(query, done(i - 1))), token)
           = State(NameAt(query, i - 1), token, Pairs(query, done(i - 1)))
    BY <2>3, ScanWord, Zenon
  <2>. QED  BY <1>7, <1>8, <1>9, <1>11, <2>1, <2>2, <2>4 DEF token
<1>12. CASE i % 4 = 3
  <2>1. NameAt(query, i) = query[i - 1] /\ WordAt(query, i - 1) = query[i - 1] /\ i # 2
    <3>1. ~ i < 3 /\ (i - 3) % 4 = 0 /\ i - 1 - 0 = i - 1 /\ (i - 1) % 4 = 2 /\ i # 2
      BY <1>6, <1>12
    <3>2. ~ ((i - 1) % 4 = 1 \/ (i - 1) % 4 = 3)
      BY <3>1
    <3>3. NameAt(query, i) = query[i - 1] /\ i # 2
      BY <3>1 DEF NameAt
    <3>. QED  BY <3>2, <3>3 DEF WordAt
  <2>2. WordAt(query, i) = ""
    BY <1>12 DEF WordAt
  <2>3. token = "="
    BY <1>3, <1>12
  <2>4. Scan(State(NameAt(query, i - 1), WordAt(query, i - 1), Pairs(query, done(i - 1))), token)
           = State(WordAt(query, i - 1), "", Pairs(query, done(i - 1)))
    BY <2>3, ScanName, Zenon
  <2>5. done(i) = done(i - 1)
    BY <1>6, <1>9, <1>12
  <2>. QED  BY <1>7, <1>8, <2>1, <2>2, <2>4, <2>5 DEF token
<1>13. CASE i % 4 = 0
  <2>1. NameAt(query, i) = query[i - 2] /\ NameAt(query, i - 1) = query[i - 2] /\ i # 2
    <3>1. /\ ~ i < 3 /\ ~ i - 1 < 3 /\ (i - 3) % 4 = 1 /\ (i - 1 - 3) % 4 = 0 /\ i # 2
          /\ i - 1 - 1 = i - 2 /\ i - 1 - 1 - 0 = i - 2
      BY <1>6, <1>13
    <3>. QED  BY <3>1 DEF NameAt
  <2>2. WordAt(query, i) = token
    <3>1. ~ (i % 4 = 1 \/ i % 4 = 3)
      BY <1>6, <1>13
    <3>. QED  BY <3>1 DEF WordAt, token
  <2>3. token # "=" /\ token # "&"
    BY <1>3, <1>4, <1>13
  <2>4. Scan(State(NameAt(query, i - 1), WordAt(query, i - 1), Pairs(query, done(i - 1))), token)
           = State(NameAt(query, i - 1), token, Pairs(query, done(i - 1)))
    BY <2>3, ScanWord, Zenon
  <2>. QED  BY <1>7, <1>8, <1>9, <1>13, <2>1, <2>2, <2>4 DEF token
<1>14. CASE i % 4 = 1
  <2>1. /\ ~ i < 3 /\ ~ i - 1 < 3 /\ (i - 3) % 4 = 2 /\ (i - 1 - 3) % 4 = 1 /\ i # 2 /\ (i - 1) % 4 = 0
        /\ i - 1 - 2 = i - 3 /\ i - 1 - 1 - 1 = i - 3
        /\ i - 2 \in 2 .. n /\ (i - 2) % 4 = 3 /\ i - 2 - 1 = i - 3 /\ i - 2 + 1 = i - 1
    BY <1>1, <1>6, <1>14
  <2>2. NameAt(query, i) = query[i - 3] /\ NameAt(query, i - 1) = query[i - 3]
    BY <2>1 DEF NameAt
  <2>3. WordAt(query, i) = "" /\ WordAt(query, i - 1) = query[i - 1]
    <3>1. i % 4 = 1 /\ ~ ((i - 1) % 4 = 1 \/ (i - 1) % 4 = 3)
      BY <1>14, <2>1
    <3>. QED  BY <3>1 DEF WordAt
  <2>4. token = "&"
    BY <1>4, <1>14
  <2>5. Pairs(query, done(i)) = Over(Single(query[i - 3], query[i - 1]), Pairs(query, done(i - 1)))
    <3>1. \A s : s \in done(i) <=> s \in S /\ s + 2 <= i
      BY <1>5
    <3>2. \A s : s \in done(i - 1) <=> s \in S /\ s + 2 <= i - 1
      BY <1>5
    <3>3. i - 2 \in S /\ \A s \in S : s \in 1 .. n /\ (s + 2 <= i <=> s + 2 <= i - 1 \/ s = i - 2)
      BY <1>1, <1>6, <2>1
    <3>4. \A s \in done(i - 1) : s < i - 2
      BY <1>6, <3>2, <3>3
    <3>5. done(i) = done(i - 1) \cup {i - 2} /\ done(i - 1) \in SUBSET (1 .. n)
      BY <3>1, <3>2, <3>3, <1>6
    <3>6. i - 2 \in 1 .. n
      BY <2>1, <1>1
    <3>7. Pairs(query, done(i - 1) \cup {i - 2})
             = Over(Single(query[i - 2 - 1], query[i - 2 + 1]), Pairs(query, done(i - 1)))
      BY <1>1, <3>4, <3>5, <3>6, PairsStep
    <3>. QED  BY <2>1, <3>5, <3>7
  <2>6. Scan(State(NameAt(query, i - 1), WordAt(query, i - 1), Pairs(query, done(i - 1))), token)
           = State(NameAt(query, i - 1), "", Over(Single(NameAt(query, i - 1), WordAt(query, i - 1)),
                                                  Pairs(query, done(i - 1))))
    BY <2>4, ScanPair, Zenon
  <2>. QED  BY <1>7, <1>8, <2>1, <2>2, <2>3, <2>5, <2>6 DEF token
<1>. QED  BY <1>6, <1>10, <1>11, <1>12, <1>13, <1>14

\* The query of a request, read as it is meant.
LEMMA QueryIsMeant ==
    ASSUME NEW q \in Requests, WellFormed(q.query)
    PROVE  get_query_params(q) = Meant(q.query)
<1>. DEFINE query == q.query
            n == Len(query)
<1>1. query \in Seq(STRING) /\ (query = <<>> \/ Head(query) = "?")
  BY DispatchAssumption
<1>2. CASE query = <<>>
  <2>1. get_query_params(q) = <<>>
    BY <1>2 DEF get_query_params
  <2>2. Signs(query) = {}
    BY <1>2, LenProperties, <1>1 DEF Signs
  <2>. HIDE DEF query
  <2>3. Meant(query) \in [{} -> {}]
    BY <1>1, <2>2, MeantIsPairs DEF Pairs
  <2>4. Meant(query) = <<>>
    BY <2>3, EmptyMap
  <2>. QED  BY <2>1, <2>4 DEF query
<1>3. CASE query # <<>>
  <2>. DEFINE step(l, i) == IF i <= 1 THEN [key |-> "", word |-> "", params |-> <<>>]
                            ELSE Scan(l[i - 1], query[i])
              f == [i \in 0 .. n |-> Scanned(query, i)]
              scanned == CHOOSE l : l = [i \in 0 .. n |-> step(l, i)]
              end == scanned[n]
  <2>1. get_query_params(q) = Over(Single(end.key, end.word), end.params)
    BY <1>3 DEF get_query_params
  <2>2. /\ n \in Nat /\ n >= 4 /\ n % 4 = 0
        /\ Signs(query) = {i \in 2 .. n : i % 4 = 3}
    BY <1>1, <1>3, SignsAre
  <2>3. ASSUME NEW i \in 2 .. n
        PROVE  Scan(Scanned(query, i - 1), query[i]) = Scanned(query, i)
    BY <1>1, <1>3, ScannedStep
  <2>. HIDE DEF query, n
  <2>4. ASSUME NEW l, NEW i \in 0 .. n, i > 1 => l[i - 1] = Scanned(query, i - 1)
        PROVE  step(l, i) = Scanned(query, i)
    <3>1. CASE i <= 1
      BY <3>1 DEF Scanned, State
    <3>2. CASE ~ i <= 1
      <4>1. i \in 2 .. n /\ i > 1
        BY <2>2, <3>2
      <4>. QED  BY <2>3, <2>4, <3>2, <4>1
    <3>. QED  BY <3>1, <3>2
  <2>5. f = [i \in 0 .. n |-> step(f, i)]
    <3>1. ASSUME NEW i \in 0 .. n PROVE step(f, i) = Scanned(query, i)
      <4>1. i > 1 => f[i - 1] = Scanned(query, i - 1)
        BY <2>2
      <4>. HIDE DEF f, step
      <4>. QED  BY <2>4, <4>1
    <3>. HIDE DEF step
    <3>. QED  BY <3>1 DEF f
  <2>6. scanned = [i \in 0 .. n |-> step(scanned, i)]
    <3>. HIDE DEF f, step
    <3>. QED  BY <2>5
  <2>7. \A i \in 0 .. n : scanned[i] = Scanned(query, i)
    <3>. DEFINE S == {i \in 0 .. n : scanned[i] = Scanned(query, i)}
    <3>1. ASSUME NEW i \in 0 .. n PROVE scanned[i] = step(scanned, i)
      <4>. HIDE DEF scanned, step
      <4>. QED  BY <2>6
    <3>. HIDE DEF scanned, step
    <3>2. 0 \in S
      <4>1. 0 \in 0 .. n /\ ~ 0 > 1
        BY <2>2
      <4>2. step(scanned, 0) = Scanned(query, 0)
        BY <2>4, <4>1
      <4>. QED  BY <3>1, <4>1, <4>2
    <3>3. ASSUME NEW i \in 1 .. n, i - 1 \in S PROVE i \in S
      <4>1. i \in 0 .. n
        OBVIOUS
      <4>2. scanned[i - 1] = Scanned(query, i - 1)
        BY <3>3
      <4>3. step(scanned, i) = Scanned(query, i)
        BY <2>4, <4>1, <4>2
      <4>. QED  BY <3>1, <4>1, <4>3
    <3>. HIDE DEF S
    <3>4. \A i \in 0 .. n : i \in S
      BY <2>2, <3>2, <3>3, Induction
    <3>. QED  BY <3>4 DEF S
  <2>8. end = Scanned(query, n)
    <3>. HIDE DEF scanned
    <3>. QED  BY <2>2, <2>7
  <2>. HIDE DEF end
  <2>9. /\ end.key = query[n - 1 - 1] /\ end.word = query[n - 1 + 1]
        /\ end.params = Pairs(query, Done(query, n))
    <3>1. /\ ~ n <= 1 /\ ~ n < 3 /\ (n - 3) % 4 = 1 /\ ~ (n % 4 = 1 \/ n % 4 = 3) /\ n - 1 + 1 = n
      BY <2>2
    <3>2. Scanned(query, n) = State(query[n - 1 - 1], query[n], Pairs(query, Done(query, n)))
      BY <3>1 DEF Scanned, NameAt, WordAt
    <3>. QED  BY <2>8, <3>1, <3>2 DEF State
  <2>10. /\ Done(query, n) \in SUBSET (1 .. n) /\ n - 1 \in 1 .. n
         /\ \A s \in Done(query, n) : s < n - 1
         /\ Signs(query) = Done(query, n) \cup {n - 1}
    <3>. DEFINE S == Signs(query)
                D == Done(query, n)
    <3>1. \A s : s \in D <=> s \in S /\ s + 2 <= n
      BY DEF Done
    <3>2. S = {i \in 2 .. n : i % 4 = 3}
      BY <2>2
    <3>. HIDE DEF S, D
    <3>3. n - 1 \in S /\ \A s \in S : s \in 1 .. n /\ (s + 2 <= n \/ s = n - 1)
      BY <2>2, <3>2
    <3>4. \A s \in D : s < n - 1 /\ s \in S
      BY <2>2, <3>1, <3>3
    <3>5. S = D \cup {n - 1}
      BY <3>1, <3>3, <3>4
    <3>6. D \in SUBSET (1 .. n) /\ n - 1 \in 1 .. n
      BY <3>3, <3>4
    <3>. QED  BY <3>4, <3>5, <3>6 DEF S, D
  <2>11. Pairs(query, Done(query, n) \cup {n - 1})
            = Over(Single(query[n - 1 - 1], query[n - 1 + 1]), Pairs(query, Done(query, n)))
    BY <2>2, <2>10, PairsStep
  <2>12. Meant(query) = Pairs(query, Signs(query))
    BY <1>1, MeantIsPairs
  <2>. QED  BY <2>1, <2>9, <2>10, <2>11, <2>12 DEF query
<1>. QED  BY <1>2, <1>3 DEF query

\* The method a request is routed by, the one it means.
LEMMA MethodIsMeant ==
    ASSUME NEW q \in Requests, WellFormed(q.query)
    PROVE  EffectiveMethod(q) = MeantMethod(q)
<1>. DEFINE params == get_query_params(q)
            given == {i \in DOMAIN q.overrides : i = 1 /\ q.overrides[i] # ""}
<1>1. q.overrides \in Seq(STRING)
  BY DispatchAssumption
<1>2. params = Meant(q.query)
  BY QueryIsMeant
<1>3. (given # {} <=> OverrideHeader(q) # "") /\ (given # {} => OverrideHeader(q) = q.overrides[1])
  <2>. DEFINE o == q.overrides
  <2>1. CASE o = <<>>
    <3>1. DOMAIN o = {}
      BY <2>1
    <3>2. given = {} /\ OverrideHeader(q) = ""
      BY <2>1, <3>1 DEF OverrideHeader
    <3>. QED  BY <3>2
  <2>2. CASE o # <<>>
    <3>1. 1 \in DOMAIN o
      BY <1>1, <2>2, EmptySeq, LenProperties
    <3>2. OverrideHeader(q) = o[1]
      BY <1>1, <2>2 DEF OverrideHeader
    <3>3. given # {} <=> o[1] # ""
      BY <3>1
    <3>. QED  BY <3>2, <3>3
  <2>. QED  BY <2>1, <2>2
<1>5. EffectiveMethod(q) = IF OverrideHeader(q) # "" THEN OverrideHeader(q)
                           ELSE IF "_method" \in DOMAIN params THEN params["_method"] ELSE q.method
  <2>. HIDE DEF params
  <2>. QED  BY DEF EffectiveMethod, params
<1>6. MeantMethod(q) = IF given # {} THEN q.overrides[1]
                       ELSE IF "_method" \in DOMAIN params THEN params["_method"] ELSE q.method
  <2>1. DOMAIN params \cap {"_method"} # {} <=> "_method" \in DOMAIN params
    OBVIOUS
  <2>. HIDE DEF given, params
  <2>. QED  BY <1>2, <2>1 DEF MeantMethod, given
<1>. HIDE DEF given, params
<1>7. CASE given # {}
  BY <1>3, <1>5, <1>6, <1>7, Zenon
<1>8. CASE given = {}
  <2>. DEFINE other == IF "_method" \in DOMAIN params THEN params["_method"] ELSE q.method
  <2>1. EffectiveMethod(q) = IF OverrideHeader(q) # "" THEN OverrideHeader(q) ELSE other
    BY <1>5
  <2>2. MeantMethod(q) = IF given # {} THEN q.overrides[1] ELSE other
    BY <1>6
  <2>. HIDE DEF other
  <2>. QED  BY <1>3, <1>8, <2>1, <2>2
<1>. QED  BY <1>7, <1>8

-----------------------------------------------------------------------------
(* The answer.                                                             *)

\* A directory that the path begins with, and what is behind it, are the path.
LEMMA FileIsPath ==
    ASSUME NEW dir \in Seq(STRING), NEW path \in Seq(STRING), IsPrefix(dir, path)
    PROVE  FilePath(dir, path) = path
<1>1. Len(dir) \in Nat /\ Len(path) \in Nat /\ Len(dir) <= Len(path)
  BY LenProperties DEF IsPrefix
<1>2. SubSeq(path, 1, Len(dir)) = dir
  BY SubSeqFull DEF IsPrefix
<1>3. 1 \in 1 .. Len(path) + 1 /\ Len(dir) \in 1 - 1 .. Len(path) /\ Len(path) \in Len(dir) .. Len(path)
  BY <1>1
<1>4. SubSeq(path, 1, Len(dir)) \o SubSeq(path, Len(dir) + 1, Len(path)) = SubSeq(path, 1, Len(path))
  BY <1>3, ConcatAdjacentSubSeq
<1>5. SubSeq(path, 1, Len(path)) = path
  BY SubSeqFull
<1>. QED  BY <1>2, <1>4, <1>5 DEF FilePath

\* A folder whose texts a path begins with.
LEMMA FolderBegins ==
    ASSUME IInv, FoldersHold, NEW i \in 1 .. Len(table), table[i].files,
           NEW path \in Seq(STRING), Begins(Pattern(i), path)
    PROVE  IsPrefix(Keys(Pattern(i)), path)
<1>. DEFINE p == Pattern(i)
<1>1. p \in Seq(Segments) /\ Len(p) \in Nat /\ DOMAIN p = 1 .. Len(p)
  BY TableProperties
<1>2. \A j \in 1 .. Len(p) : p[j].kind = "STATIC"
  BY DEF FoldersHold
<1>3. Keys(p) \in Seq(STRING) /\ Len(Keys(p)) = Len(p)
  BY <1>1, KeysProperties
<1>4. Len(p) <= Len(path) /\ \A j \in 1 .. Len(p) : Fits(p[j], path[j])
  BY <1>1 DEF Begins
<1>. HIDE DEF p
<1>5. ASSUME NEW j \in 1 .. Len(p) PROVE Keys(p)[j] = path[j]
  <2>1. Keys(p)[j] = p[j].part
    BY <1>1 DEF Keys
  <2>2. Fits(p[j], path[j]) /\ p[j].kind = "STATIC"
    BY <1>2, <1>4
  <2>3. p[j].part = path[j]
    BY <2>2 DEF Fits
  <2>. QED  BY <2>1, <2>3
<1>6. IsPrefix(Keys(p), path)
  BY <1>3, <1>4, <1>5, IsPrefixProperties
<1>. QED  BY <1>6 DEF p

\* A path is found in a trie when a route wins it.
LEMMA FoundIsMeant ==
    ASSUME IInv, Agreement, NEW m, m \in Methods => Orderly(m), NEW path \in Seq(STRING),
           m \in Methods => Plain(m, path)
    PROVE  Found(m, path) <=> Winners(m, path) # {}
<1>1. CASE HasTree(m)
  <2>1. Ready(m) /\ Plain(m, path)
    BY <1>1, ReadyWhen DEF HasTree
  <2>2. Best(trees[m], path) = {Keys(Pattern(i)) : i \in Winners(m, path)}
    BY <2>1, BestIsMeant
  <2>. QED  BY <1>1, <2>2 DEF Found
<1>2. CASE ~ HasTree(m)
  <2>1. Ids(m) = {}
    <3>. SUFFICES ASSUME NEW i \in Ids(m) PROVE FALSE
      OBVIOUS
    <3>1. /\ i \in 1 .. Len(table) /\ m \in Methods
          /\ Pattern(i) \in Seq(Segments)
      BY TableProperties DEF Ids
    <3>2. <<>> \in Line(Pattern(i))
      BY <3>1, LineProperties
    <3>3. <<>> \in DOMAIN trees[m]
      BY <3>1, <3>2 DEF Agreement, Faithful, Domain
    <3>4. trees[m] = <<>>
      BY <1>2, <3>1 DEF HasTree
    <3>. QED  BY <3>3, <3>4
  <2>2. Live(m) = {}
    BY <2>1 DEF Live
  <2>3. Winners(m, path) = {}
    BY <2>2 DEF Winners
  <2>. QED  BY <1>2, <2>3 DEF Found
<1>. QED  BY <1>1, <1>2

\* What is done for a route that wins.
LEMMA DoneIsMeant ==
    ASSUME IInv, Agreement, NEW m, HasTree(m), Orderly(m), NEW path \in Seq(STRING),
           NEW i \in Winners(m, path), table[i].files => InPlace(i),
           NEW node, node = trees[m][Keys(Pattern(i))]
    PROVE  /\ node.files = table[i].files
           /\ node.files => FilePath(node.dir, path) = path
           /\ ~ node.files => node.handler = i
<1>1. i \in Live(m) /\ i \in 1 .. Len(table) /\ (Means(i, path) \/ Pattern(i) = <<>>)
  BY DEF Winners, Live, Ids
<1>2. Serving(m, i, node)
  BY <1>1, ReadyWhen DEF Ready, Faithful, Ending
<1>3. ASSUME table[i].files PROVE FilePath(node.dir, path) = path
  <2>1. Begins(Pattern(i), path)
    <3>1. CASE Pattern(i) = <<>>
      BY <3>1, LenProperties DEF Begins
    <3>2. CASE Means(i, path)
      BY <1>3, <3>2 DEF Means
    <3>. QED  BY <1>1, <3>1, <3>2
  <2>2. IsPrefix(Keys(Pattern(i)), path)
    BY <1>1, <1>3, <2>1, FolderBegins DEF Agreement
  <2>3. node.dir = Keys(Pattern(i)) /\ Keys(Pattern(i)) \in Seq(STRING)
    BY <1>1, <1>2, <1>3, TableProperties, KeysProperties DEF Serving, InPlace
  <2>. QED  BY <2>2, <2>3, FileIsPath
<1>. QED  BY <1>2, <1>3 DEF Serving

(* A request gets what its method, or the method it asks for instead, and  *)
(* its path mean: the handler of a route that wins, the file the path      *)
(* names in a folder, or a refusal that names just the methods which have  *)
(* a route for the path.  For all requests whose query is a list of pairs, *)
(* of any length and with names that come more than once, and all routes   *)
(* that are not in each other's way.                                       *)
THEOREM AnswersAreRight == Spec => []AnswerIsMeant
<1>1. IInv /\ Agreement => AnswerIsMeant
  <2>. SUFFICES ASSUME IInv, Agreement, \A m \in Methods : Orderly(m), NEW q \in Requests,
                       WellFormed(q.query), \A m \in Methods : Plain(m, q.path),
                       NEW m, m = MeantMethod(q)
                PROVE  /\ get_query_params(q) = Meant(q.query)
                       /\ \/ match_route(q) = MeantAnswers(q)
                          \/ \E i \in Winners(m, q.path) : table[i].files /\ ~ InPlace(i)
    BY Zenon DEF AnswerIsMeant
  <2>. DEFINE path == q.path
              W == Winners(m, path)
  <2>1. get_query_params(q) = Meant(q.query)
    BY QueryIsMeant
  <2>2. EffectiveMethod(q) = m
    BY MethodIsMeant
  <2>3. path \in Seq(STRING)
    BY DispatchAssumption
  <2>4. ASSUME NEW n, n \in Methods \/ n = m PROVE Found(n, path) <=> Winners(n, path) # {}
    BY <2>3, FoundIsMeant
  <2>5. ASSUME \A i \in W : table[i].files => InPlace(i), W # {}
        PROVE  match_route(q) = MeantAnswers(q)
    <3>1. Found(m, path)
      BY <2>4, <2>5
    <3>2. HasTree(m) /\ Orderly(m) /\ Plain(m, path)
      BY <3>1 DEF Found, HasTree
    <3>3. Best(trees[m], path) = {Keys(Pattern(i)) : i \in W}
      BY <2>3, <3>2, ReadyWhen, BestIsMeant
    <3>. DEFINE does(k) == IF trees[m][k].files THEN Serves(Served(FilePath(trees[m][k].dir, path)))
                           ELSE Calls(trees[m][k].handler)
                meant(i) == IF table[i].files THEN Serves(Served(path)) ELSE Calls(i)
    <3>4. match_route(q) = {does(k) : k \in Best(trees[m], path)}
      BY <2>2, <3>1 DEF match_route
    <3>5. MeantAnswers(q) = {meant(i) : i \in W}
      BY <2>5 DEF MeantAnswers
    <3>6. ASSUME NEW i \in W PROVE does(Keys(Pattern(i))) = meant(i)
      BY <2>3, <2>5, <3>2, DoneIsMeant
    <3>. HIDE DEF does, meant, W
    <3>. QED  BY <3>3, <3>4, <3>5, <3>6
  <2>6. ASSUME W = {} PROVE match_route(q) = MeantAnswers(q)
    <3>1. ~ Found(m, path)
      BY <2>4, <2>6
    <3>2. match_route(q) = {Refuses(Allowed(m, path))}
      BY <2>2, <3>1 DEF match_route
    <3>3. MeantAnswers(q) = {Refuses({n \in Methods : Winners(n, path) # {}})}
      BY <2>6 DEF MeantAnswers
    <3>4. Allowed(m, path) = {n \in Methods : Winners(n, path) # {}}
      BY <2>4, <2>6 DEF Allowed
    <3>. QED  BY <3>2, <3>3, <3>4
  <2>. QED  BY <2>1, <2>5, <2>6
<1>. QED  BY <1>1, Agrees, PTL
=============================================================================
