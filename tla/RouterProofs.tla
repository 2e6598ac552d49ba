---------------------------- MODULE RouterProofs ----------------------------
(***************************************************************************)
(* A proof that the tries of Router are trees, and that each handler in    *)
(* them is one registered for its place, for every set of patterns and any *)
(* number of registrations.                                                *)
(***************************************************************************)
EXTENDS Router, SequenceTheorems, TLAPS

-----------------------------------------------------------------------------
(* The inductive invariant.                                                *)

\* "" is a string, which the provers are not aware of.
Texts == {""} \cup STRING
Nodes == [type : Kinds, handler : Nat, optional : BOOLEAN, default : Texts, takes : SUBSET STRING,
          priority : Nat, files : BOOLEAN, dir : Seq(STRING), catchAll : BOOLEAN]
Entries == [method : Methods, pattern : Seq(Segments), name : Names \cup {NoName}, priority : Nat,
            files : BOOLEAN, dir : Seq(STRING)]

Places == SUBSET Seq(STRING)
Tries == UNION {[S -> Nodes] : S \in Places}

Types == trees \in [Methods -> Tries] /\ table \in Seq(Entries)

(* A node is reached from the root.                                        *)
Rooted(tree) == \A k \in DOMAIN tree : k # <<>> => Front(k) \in DOMAIN tree

(* The handler of a node is a registration of its method and its pattern.  *)
Own(m, k, id) == id \in 1 .. Len(table) /\ table[id].method = m /\ Keys(table[id].pattern) = k
Handlers(m) ==
    \A k \in DOMAIN trees[m] : trees[m][k].handler # NoHandler => Own(m, k, trees[m][k].handler)

IInv == Types /\ \A m \in Methods : Rooted(trees[m]) /\ Handlers(m)

-----------------------------------------------------------------------------
(* The way from the root to the end of a pattern.                          *)

LEMMA KeysProperties ==
    ASSUME NEW pat \in Seq(Segments)
    PROVE  /\ Keys(pat) \in Seq(STRING) /\ Len(Keys(pat)) = Len(pat) /\ Len(pat) \in Nat
           /\ pat = <<>> => Keys(pat) = <<>>
<1>1. Len(pat) \in Nat /\ DOMAIN pat = 1 .. Len(pat) /\ \A i \in 1 .. Len(pat) : pat[i] \in Segments
  BY LenProperties, ElementOfSeq
<1>2. \A i \in 1 .. Len(pat) : pat[i].part \in STRING
  BY <1>1 DEF Segments, AnySegment
<1>3. Keys(pat) = [i \in 1 .. Len(pat) |-> pat[i].part]
  BY <1>1 DEF Keys
<1>4. Keys(pat) \in [1 .. Len(pat) -> STRING]
  BY <1>2, <1>3
<1>5. Keys(pat) \in Seq(STRING) /\ Len(Keys(pat)) = Len(pat)
  BY <1>1, <1>4, IsASeq, LenProperties
<1>6. pat = <<>> => Keys(pat) = <<>>
  BY <1>5, EmptySeq
<1>. QED  BY <1>1, <1>5, <1>6

(* The beginnings of a sequence, each one longer than the one before.      *)
LEMMA BeginningProperties ==
    ASSUME NEW s \in Seq(STRING), NEW i \in 0 .. Len(s)
    PROVE  /\ SubSeq(s, 1, i) \in Seq(STRING) /\ Len(SubSeq(s, 1, i)) = i
           /\ SubSeq(s, 1, 0) = <<>>
           /\ i > 0 => i - 1 \in 0 .. Len(s) /\ Front(SubSeq(s, 1, i)) = SubSeq(s, 1, i - 1)
<1>1. Len(s) \in Nat /\ \A j \in 1 .. Len(s) : s[j] \in STRING
  BY LenProperties, ElementOfSeq
<1>2. ASSUME NEW k \in 0 .. Len(s)
      PROVE  /\ SubSeq(s, 1, k) \in Seq(STRING) /\ Len(SubSeq(s, 1, k)) = k
             /\ \A j \in 1 .. k : SubSeq(s, 1, k)[j] = s[j]
  <2>1. k \in Int /\ \A j \in 1 .. k : s[j] \in STRING
    BY <1>1
  <2>2. /\ SubSeq(s, 1, k) \in Seq(STRING)
        /\ Len(SubSeq(s, 1, k)) = IF 1 <= k THEN k - 1 + 1 ELSE 0
        /\ \A j \in 1 .. k - 1 + 1 : SubSeq(s, 1, k)[j] = s[1 + j - 1]
    BY <2>1, SubSeqProperties
  <2>. DEFINE b == SubSeq(s, 1, k)
  <2>. HIDE DEF b
  <2>3. Len(b) = k /\ \A j \in 1 .. k : b[j] = s[j]
    <3>1. Len(b) = IF 1 <= k THEN k - 1 + 1 ELSE 0
      BY <2>2 DEF b
    <3>2. \A j \in 1 .. k - 1 + 1 : b[j] = s[1 + j - 1]
      BY <2>2 DEF b
    <3>3. ASSUME NEW j \in 1 .. k PROVE b[j] = s[j]
      <4>1. j \in 1 .. k - 1 + 1 /\ 1 + j - 1 = j
        BY <1>1
      <4>. QED  BY <4>1, <3>2
    <3>4. Len(b) = k
      BY <3>1, <1>1
    <3>. QED  BY <3>3, <3>4
  <2>. QED  BY <2>2, <2>3 DEF b
<1>3. SubSeq(s, 1, 0) = <<>>
  <2>1. 0 \in 0 .. Len(s)
    BY <1>1
  <2>. QED  BY <1>2, <2>1, EmptySeq
<1>4. ASSUME i > 0
      PROVE  i - 1 \in 0 .. Len(s) /\ Front(SubSeq(s, 1, i)) = SubSeq(s, 1, i - 1)
  <2>1. i \in 1 .. Len(s) /\ i - 1 \in 0 .. Len(s)
    BY <1>1, <1>4
  <2>. DEFINE b == SubSeq(s, 1, i)
              c == SubSeq(s, 1, i - 1)
              f == SubSeq(b, 1, i - 1)
  <2>2. b \in Seq(STRING) /\ Len(b) = i /\ \A j \in 1 .. i : b[j] = s[j]
    BY <1>2
  <2>3. c \in Seq(STRING) /\ Len(c) = i - 1 /\ \A j \in 1 .. i - 1 : c[j] = s[j]
    BY <1>2, <2>1
  <2>4. Front(b) = f
    BY <2>2 DEF Front
  <2>. HIDE DEF b, c
  <2>5. /\ f \in Seq(STRING)
        /\ Len(f) = IF 1 <= i - 1 THEN i - 1 - 1 + 1 ELSE 0
        /\ \A j \in 1 .. i - 1 - 1 + 1 : f[j] = b[1 + j - 1]
    <3>1. i - 1 \in Int /\ \A j \in 1 .. i - 1 : b[j] \in STRING
      BY <2>1, <2>2, <1>1
    <3>. QED  BY <3>1, SubSeqProperties
  <2>. HIDE DEF f
  <2>6. Len(f) = i - 1
    BY <2>1, <2>5
  <2>7. ASSUME NEW j \in 1 .. i - 1 PROVE f[j] = c[j]
    <3>1. j \in 1 .. i - 1 - 1 + 1 /\ 1 + j - 1 = j /\ j \in 1 .. i
      BY <2>1
    <3>. QED  BY <3>1, <2>2, <2>3, <2>5
  <2>8. f = c
    BY <2>3, <2>5, <2>6, <2>7, SeqEqual
  <2>. QED  BY <2>1, <2>4, <2>8 DEF b, c
<1>. QED  BY <1>2, <1>3, <1>4

LEMMA LineProperties ==
    ASSUME NEW pat \in Seq(Segments)
    PROVE  /\ Line(pat) \subseteq Seq(STRING)
           /\ <<>> \in Line(pat) /\ Keys(pat) \in Line(pat)
           /\ \A k \in Line(pat) : k # <<>> => Front(k) \in Line(pat) /\ Len(k) \in 1 .. Len(pat)
<1>. DEFINE s == Keys(pat)
<1>1. s \in Seq(STRING) /\ Len(s) = Len(pat) /\ Len(s) \in Nat
  BY KeysProperties
<1>. HIDE DEF s
<1>2. Line(pat) = {SubSeq(s, 1, i) : i \in 0 .. Len(s)}
  BY <1>1 DEF Line, s
<1>3. Line(pat) \subseteq Seq(STRING)
  BY <1>1, <1>2, BeginningProperties
<1>4. <<>> \in Line(pat)
  <2>1. 0 \in 0 .. Len(s)
    BY <1>1
  <2>. QED  BY <2>1, <1>1, <1>2, BeginningProperties
<1>5. s \in Line(pat)
  <2>1. Len(s) \in 0 .. Len(s) /\ SubSeq(s, 1, Len(s)) = s
    BY <1>1, SubSeqFull
  <2>. QED  BY <2>1, <1>2
<1>6. ASSUME NEW k \in Line(pat), k # <<>>
      PROVE  Front(k) \in Line(pat) /\ Len(k) \in 1 .. Len(pat)
  <2>1. PICK i \in 0 .. Len(s) : k = SubSeq(s, 1, i)
    BY <1>2
  <2>2. i > 0
    BY <2>1, <1>1, <1>6, BeginningProperties
  <2>3. /\ i - 1 \in 0 .. Len(s) /\ Front(k) = SubSeq(s, 1, i - 1) /\ Len(k) = i
    BY <2>1, <2>2, <1>1, BeginningProperties
  <2>. QED  BY <2>2, <2>3, <1>1, <1>2
<1>. QED  BY <1>3, <1>4, <1>5, <1>6 DEF s

-----------------------------------------------------------------------------
(* What add_route() and add_static_route() make of one trie.               *)

LEMMA NodeProperties ==
    ASSUME NEW type \in Kinds
    PROVE  Node(type) \in Nodes /\ Node(type).handler = NoHandler
<1>1. <<>> \in Seq(STRING) /\ {} \in SUBSET STRING
  OBVIOUS
<1>2. ASSUME NEW id \in Nat, NEW given \in Nat, NEW a \in BOOLEAN, NEW b \in BOOLEAN, NEW c \in BOOLEAN,
             NEW dir \in Seq(STRING), NEW default \in Texts, NEW takes \in SUBSET STRING
      PROVE  [type |-> type, handler |-> id, optional |-> a, default |-> default, takes |-> takes,
              priority |-> given, files |-> b, dir |-> dir, catchAll |-> c] \in Nodes
  BY DEF Nodes
<1>3. Node(type) \in Nodes
  <2>1. 0 \in Nat /\ FALSE \in BOOLEAN /\ "" \in Texts
    BY DEF Texts
  <2>2. Node(type) = [type |-> type, handler |-> 0, optional |-> FALSE, default |-> "", takes |-> {},
                      priority |-> 0, files |-> FALSE, dir |-> <<>>, catchAll |-> FALSE]
    BY DEF Node, NoHandler
  <2>. QED  BY <1>1, <1>2, <2>1, <2>2, Zenon
<1>4. Node(type).handler = NoHandler
  BY DEF Node
<1>. QED  BY <1>3, <1>4

LEMMA TouchedProperties ==
    ASSUME NEW node \in Nodes, NEW seg \in Segments
    PROVE  Touched(node, seg) \in Nodes /\ Touched(node, seg).handler = node.handler
<1>1. seg.optional \in BOOLEAN /\ seg.default \in Texts /\ seg.takes \in SUBSET STRING
  BY DEF Segments, AnySegment, Texts
<1>2. CASE seg.kind = "PARAMETER"
  <2>1. Touched(node, seg) = [node EXCEPT !.optional = seg.optional, !.default = seg.default]
    BY <1>2 DEF Touched
  <2>. QED  BY <2>1, <1>1 DEF Nodes
<1>3. CASE seg.kind = "REGEX"
  <2>1. Touched(node, seg) = [node EXCEPT !.takes = seg.takes]
    BY <1>3 DEF Touched
  <2>. QED  BY <2>1, <1>1 DEF Nodes
<1>4. CASE seg.kind # "PARAMETER" /\ seg.kind # "REGEX"
  BY <1>4 DEF Touched
<1>. QED  BY <1>2, <1>3, <1>4

(* The handlers of a trie are those of the one it is made of.              *)
Inherits(new, old) ==
    \A k \in DOMAIN new : new[k].handler = IF k \in DOMAIN old THEN old[k].handler ELSE NoHandler

(* The nodes on the way are made where they are missing, and those that    *)
(* are there keep their handlers.                                          *)
LEMMA GrownProperties ==
    ASSUME NEW S \in Places, NEW tree \in [S -> Nodes], Rooted(tree), NEW pat \in Seq(Segments)
    PROVE  /\ S \cup Line(pat) \in Places
           /\ Grown(tree, pat) \in [S \cup Line(pat) -> Nodes]
           /\ Rooted(Grown(tree, pat))
           /\ Inherits(Grown(tree, pat), tree)
<1>. DEFINE T == S \cup Line(pat)
            g == Grown(tree, pat)
            at(k) == IF k \notin Line(pat) THEN tree[k]
                     ELSE IF k = <<>> THEN Old(tree, pat, k)
                     ELSE Touched(Old(tree, pat, k), pat[Len(k)])
<1>1. DOMAIN tree = S
  OBVIOUS
<1>2. /\ Line(pat) \subseteq Seq(STRING)
      /\ \A k \in Line(pat) : k # <<>> => Front(k) \in Line(pat) /\ Len(k) \in 1 .. Len(pat)
  BY LineProperties
<1>3. T \in Places
  BY <1>2 DEF Places
<1>4. g = [k \in T |-> at(k)]
  BY <1>1 DEF Grown
<1>5. ASSUME NEW k \in Line(pat)
      PROVE  /\ Old(tree, pat, k) \in Nodes
             /\ Old(tree, pat, k).handler = IF k \in S THEN tree[k].handler ELSE NoHandler
  <2>1. CASE k \in S
    BY <2>1, <1>1 DEF Old
  <2>2. CASE k \notin S /\ k = <<>>
    <3>1. Old(tree, pat, k) = Node("STATIC") /\ "STATIC" \in Kinds
      BY <2>2, <1>1 DEF Old, Kinds
    <3>. QED  BY <3>1, <2>2, NodeProperties
  <2>3. CASE k \notin S /\ k # <<>>
    <3>1. pat[Len(k)] \in Segments
      BY <2>3, <1>2, ElementOfSeq
    <3>2. Old(tree, pat, k) = Node(pat[Len(k)].kind) /\ pat[Len(k)].kind \in Kinds
      BY <3>1, <2>3, <1>1 DEF Old, Segments, AnySegment
    <3>. QED  BY <3>2, <2>3, NodeProperties
  <2>. QED  BY <2>1, <2>2, <2>3
<1>6. ASSUME NEW k \in T
      PROVE  at(k) \in Nodes /\ at(k).handler = IF k \in S THEN tree[k].handler ELSE NoHandler
  <2>1. CASE k \notin Line(pat)
    BY <2>1
  <2>2. CASE k \in Line(pat) /\ k = <<>>
    BY <2>2, <1>5
  <2>3. CASE k \in Line(pat) /\ k # <<>>
    <3>1. pat[Len(k)] \in Segments
      BY <2>3, <1>2, ElementOfSeq
    <3>2. at(k) = Touched(Old(tree, pat, k), pat[Len(k)])
      BY <2>3
    <3>. QED  BY <3>1, <3>2, <2>3, <1>5, TouchedProperties
  <2>. QED  BY <2>1, <2>2, <2>3
<1>. HIDE DEF at
<1>7. g \in [T -> Nodes] /\ \A k \in T : g[k] = at(k)
  BY <1>4, <1>6
<1>8. Rooted(g)
  <2>1. DOMAIN g = T
    BY <1>7
  <2>2. ASSUME NEW k \in T, k # <<>> PROVE Front(k) \in T
    BY <2>2, <1>1, <1>2 DEF Rooted
  <2>. QED  BY <2>1, <2>2 DEF Rooted
<1>9. Inherits(g, tree)
  BY <1>1, <1>6, <1>7 DEF Inherits
<1>. QED  BY <1>3, <1>7, <1>8, <1>9

(* The node of the pattern gets the handler, no other does.                *)
LEMMA HandledProperties ==
    ASSUME NEW S \in Places, NEW tree \in [S -> Nodes], NEW pat \in Seq(Segments),
           Keys(pat) \in S, NEW id \in Nat, NEW given \in Nat
    PROVE  /\ Handled(tree, pat, id, given) \in [S -> Nodes]
           /\ \A k \in S : Handled(tree, pat, id, given)[k].handler =
                              IF k = Keys(pat) THEN id ELSE tree[k].handler
<1>. DEFINE at == Keys(pat)
            priority == Priority(tree[at], given)
            node == IF pat = <<>> THEN [tree[at] EXCEPT !.catchAll = TRUE, !.handler = id]
                                  ELSE [tree[at] EXCEPT !.handler = id, !.priority = priority]
<1>1. tree[at] \in Nodes
  OBVIOUS
<1>2. priority \in Nat
  <2>1. tree[at].priority \in Nat
    BY <1>1 DEF Nodes
  <2>. QED  BY <2>1 DEF Priority
<1>. HIDE DEF priority
<1>3. node \in Nodes /\ node.handler = id
  BY <1>1, <1>2 DEF Nodes
<1>4. pat = <<>> => at = <<>>
  BY KeysProperties
<1>5. Handled(tree, pat, id, given) = [tree EXCEPT ![at] = node]
  <2>1. CASE pat = <<>>
    <3>1. Handled(tree, pat, id, given) = [tree EXCEPT ![at].catchAll = TRUE, ![at].handler = id]
      BY <2>1, <1>4 DEF Handled
    <3>. QED  BY <3>1, <2>1, <1>1 DEF Nodes
  <2>2. CASE pat # <<>>
    <3>1. Handled(tree, pat, id, given) = [tree EXCEPT ![at].handler = id, ![at].priority = priority]
      BY <2>2 DEF Handled, priority
    <3>. QED  BY <3>1, <2>2, <1>1 DEF Nodes
  <2>. QED  BY <2>1, <2>2
<1>. HIDE DEF at, node
<1>6. at \in S
  BY DEF at
<1>. QED  BY <1>3, <1>5, <1>6 DEF at

(* The node of a folder gets the directory, and no node another handler.   *)
LEMMA FolderProperties ==
    ASSUME NEW S \in Places, NEW tree \in [S -> Nodes], NEW at \in S, NEW dir \in Seq(STRING)
    PROVE  /\ [tree EXCEPT ![at].files = TRUE, ![at].dir = dir] \in [S -> Nodes]
           /\ Inherits([tree EXCEPT ![at].files = TRUE, ![at].dir = dir], tree)
<1>. DEFINE node == [tree[at] EXCEPT !.files = TRUE, !.dir = dir]
            t == [tree EXCEPT ![at].files = TRUE, ![at].dir = dir]
<1>1. tree[at] \in Nodes
  OBVIOUS
<1>2. node \in Nodes /\ node.handler = tree[at].handler
  BY <1>1 DEF Nodes
<1>3. t = [tree EXCEPT ![at] = node]
  BY <1>1 DEF Nodes
<1>. HIDE DEF node, t
<1>4. t \in [S -> Nodes] /\ \A k \in S : t[k].handler = tree[k].handler
  BY <1>2, <1>3
<1>5. Inherits(t, tree)
  BY <1>4 DEF Inherits
<1>. QED  BY <1>4, <1>5 DEF t

-----------------------------------------------------------------------------
(* The steps.                                                              *)

(* The handlers of tree are those there were, and at its place the new one.*)
Continues(m, tree, pat) ==
    \A k \in DOMAIN tree :
        \/ tree[k].handler = NoHandler
        \/ k \in DOMAIN trees[m] /\ tree[k].handler = trees[m][k].handler
        \/ k = Keys(pat) /\ tree[k].handler = Len(table) + 1

(* A registration: the trie of its method becomes another rooted one that  *)
(* continues it.                                                           *)
LEMMA RegistrationProperties ==
    ASSUME IInv, NEW m \in Methods, NEW T \in Places, NEW tree \in [T -> Nodes], Rooted(tree),
           NEW pat \in Seq(Segments), NEW e \in Entries, e.method = m, e.pattern = pat,
           Continues(m, tree, pat),
           trees' = [trees EXCEPT ![m] = tree], table' = Append(table, e)
    PROVE  IInv'
<1>1. trees \in [Methods -> Tries] /\ table \in Seq(Entries) /\ Len(table) \in Nat
  BY LenProperties DEF IInv, Types
<1>2. /\ table' \in Seq(Entries) /\ Len(table') = Len(table) + 1
      /\ \A i \in 1 .. Len(table) : table'[i] = table[i]
      /\ table'[Len(table) + 1] = e
  BY <1>1, AppendProperties
<1>3. tree \in Tries
  BY DEF Tries
<1>4. Types'
  BY <1>1, <1>2, <1>3 DEF Types
<1>5. ASSUME NEW n \in Methods PROVE Rooted(trees'[n])
  BY <1>1 DEF IInv
<1>6. ASSUME NEW n \in Methods, NEW k, NEW id, Own(n, k, id)
      PROVE  Own(n, k, id)'
  BY <1>1, <1>2, <1>6 DEF Own
<1>7. ASSUME NEW n \in Methods, NEW k \in DOMAIN trees'[n], NEW id, id = trees'[n][k].handler,
             id # NoHandler
      PROVE  Own(n, k, id)'
  <2>1. CASE n # m
    <3>1. trees'[n] = trees[n]
      BY <2>1, <1>1
    <3>2. Own(n, k, id)
      BY <3>1, <1>7 DEF IInv, Handlers
    <3>. QED  BY <3>2, <1>6
  <2>2. CASE n = m
    <3>1. trees'[n] = tree /\ k \in T
      BY <2>2, <1>1
    <3>2. \/ k \in DOMAIN trees[m] /\ tree[k].handler = trees[m][k].handler
          \/ k = Keys(pat) /\ tree[k].handler = Len(table) + 1
      BY <1>7, <3>1 DEF Continues
    <3>3. CASE k \in DOMAIN trees[m] /\ tree[k].handler = trees[m][k].handler
      <4>1. Own(m, k, id)
        BY <3>1, <3>3, <1>7 DEF IInv, Handlers
      <4>. QED  BY <1>6, <2>2, <4>1
    <3>4. CASE k = Keys(pat) /\ tree[k].handler = Len(table) + 1
      <4>1. id = Len(table) + 1 /\ id \in 1 .. Len(table')
        BY <1>1, <1>2, <1>7, <3>1, <3>4
      <4>. QED  BY <1>2, <2>2, <3>4, <4>1 DEF Own
    <3>. QED  BY <3>3, <3>4, <3>2
  <2>. QED  BY <2>1, <2>2
<1>8. \A n \in Methods : Handlers(n)'
  BY <1>7, Zenon DEF Handlers
<1>9. \A n \in Methods : Rooted(trees[n])'
  BY <1>5 DEF Rooted
<1>. QED  BY <1>4, <1>8, <1>9 DEF IInv

LEMMA InitHolds == Init => IInv
<1>. SUFFICES ASSUME Init PROVE IInv
  OBVIOUS
<1>1. \A m \in Methods : trees[m] = <<>>
  BY DEF Init
<1>2. <<>> \in [{} -> Nodes] /\ {} \in Places /\ DOMAIN <<>> = {}
  BY EmptySeq DEF Places
<1>3. <<>> \in Tries
  BY <1>2 DEF Tries
<1>4. Types
  BY <1>3 DEF Init, Types
<1>5. \A m \in Methods : Rooted(trees[m]) /\ Handlers(m)
  BY <1>1, <1>2 DEF Rooted, Handlers
<1>. QED  BY <1>4, <1>5 DEF IInv

LEMMA AddRouteKeeps ==
    ASSUME IInv, NEW m \in Methods, NEW pat \in Seq(Segments), NEW name \in Names \cup {NoName},
           NEW given \in Nat, AddRoute(m, pat, name, given)
    PROVE  IInv'
<1>1. Rooted(trees[m]) /\ trees[m] \in Tries /\ Len(table) \in Nat
  BY LenProperties DEF IInv, Types
<1>2. PICK S \in Places : trees[m] \in [S -> Nodes]
  BY <1>1 DEF Tries
<1>. DEFINE T == S \cup Line(pat)
            grown == Grown(trees[m], pat)
            tree == Handled(grown, pat, Len(table) + 1, given)
            e == [method |-> m, pattern |-> pat, name |-> name, priority |-> given,
                  files |-> FALSE, dir |-> <<>>]
<1>3. T \in Places /\ grown \in [T -> Nodes] /\ Rooted(grown)
  BY <1>1, <1>2, GrownProperties
<1>4. Inherits(grown, trees[m])
  BY <1>1, <1>2, GrownProperties
<1>5. Keys(pat) \in T /\ Len(table) + 1 \in Nat
  BY <1>1, LineProperties
<1>6. trees' = [trees EXCEPT ![m] = tree] /\ table' = Append(table, e)
  BY DEF AddRoute, Registered, IInv, Types
<1>7. e \in Entries /\ e.method = m /\ e.pattern = pat
  BY EmptySeq DEF Entries
<1>. HIDE DEF T, grown, e
<1>8. /\ tree \in [T -> Nodes]
      /\ \A k \in T : tree[k].handler = IF k = Keys(pat) THEN Len(table) + 1 ELSE grown[k].handler
  BY <1>3, <1>5, HandledProperties
<1>. HIDE DEF tree
<1>9. Rooted(tree)
  BY <1>3, <1>8 DEF Rooted
<1>10. Continues(m, tree, pat)
  <2>. SUFFICES ASSUME NEW k \in DOMAIN tree
                PROVE  \/ tree[k].handler = NoHandler
                       \/ k \in DOMAIN trees[m] /\ tree[k].handler = trees[m][k].handler
                       \/ k = Keys(pat) /\ tree[k].handler = Len(table) + 1
    BY DEF Continues
  <2>1. k \in T /\ k \in DOMAIN grown
    BY <1>3, <1>8
  <2>2. \/ grown[k].handler = NoHandler
        \/ k \in DOMAIN trees[m] /\ grown[k].handler = trees[m][k].handler
    BY <2>1, <1>4 DEF Inherits
  <2>. QED  BY <2>1, <2>2, <1>8
<1>. QED  BY <1>3, <1>6, <1>7, <1>8, <1>9, <1>10, RegistrationProperties

LEMMA AddStaticRouteKeeps ==
    ASSUME IInv, NEW pat \in Seq(Segments), NEW dir \in Seq(STRING), AddStaticRoute(pat, dir)
    PROVE  IInv'
<1>. DEFINE m == "GET"
<1>1. m \in Methods
  BY RouterAssumption
<1>2. Rooted(trees[m]) /\ trees[m] \in Tries
  BY <1>1 DEF IInv, Types
<1>3. PICK S \in Places : trees[m] \in [S -> Nodes]
  BY <1>2 DEF Tries
<1>. DEFINE T == S \cup Line(pat)
            grown == Grown(trees[m], pat)
            tree == [grown EXCEPT ![Keys(pat)].files = TRUE, ![Keys(pat)].dir = dir]
            e == [method |-> m, pattern |-> pat, name |-> NoName, priority |-> 0,
                  files |-> TRUE, dir |-> dir]
<1>4. T \in Places /\ grown \in [T -> Nodes] /\ Rooted(grown)
  BY <1>2, <1>3, GrownProperties
<1>5. Inherits(grown, trees[m])
  BY <1>2, <1>3, GrownProperties
<1>6. Keys(pat) \in T
  BY LineProperties
<1>7. trees' = [trees EXCEPT ![m] = tree] /\ table' = Append(table, e)
  BY <1>1 DEF AddStaticRoute, Registered, IInv, Types
<1>8. e \in Entries /\ e.method = m /\ e.pattern = pat
  BY <1>1 DEF Entries
<1>. HIDE DEF T, grown, e
<1>9. tree \in [T -> Nodes] /\ Inherits(tree, grown)
  BY <1>4, <1>6, FolderProperties
<1>. HIDE DEF tree, m
<1>10. Rooted(tree)
  BY <1>4, <1>9 DEF Rooted
<1>11. Continues(m, tree, pat)
  <2>. SUFFICES ASSUME NEW k \in DOMAIN tree
                PROVE  \/ tree[k].handler = NoHandler
                       \/ k \in DOMAIN trees[m] /\ tree[k].handler = trees[m][k].handler
                       \/ k = Keys(pat) /\ tree[k].handler = Len(table) + 1
    BY DEF Continues
  <2>1. k \in T /\ k \in DOMAIN grown
    BY <1>4, <1>9
  <2>2. \/ grown[k].handler = NoHandler
        \/ k \in DOMAIN trees[m] /\ grown[k].handler = trees[m][k].handler
    BY <2>1, <1>5 DEF Inherits
  <2>. QED  BY <2>1, <2>2, <1>9 DEF Inherits
<1>. QED  BY <1>1, <1>4, <1>7, <1>8, <1>9, <1>10, <1>11, RegistrationProperties

LEMMA NextKeeps == IInv /\ [Next]_vars => IInv'
<1>. SUFFICES ASSUME IInv, [Next]_vars PROVE IInv'
  OBVIOUS
<1>1. ASSUME NEW m \in Methods, NEW prefix \in GroupPrefixes, NEW pat \in Patterns,
             NEW name \in Names \cup {NoName}, NEW given \in Priorities,
             AddGroupRoute(m, prefix, pat, name, given)
      PROVE  IInv'
  <2>1. prefix \in Seq(Segments) /\ pat \in Seq(Segments) /\ given \in Nat
    BY RouterAssumption
  <2>2. prefix \o pat \in Seq(Segments)
    BY <2>1, ConcatProperties
  <2>. QED  BY <1>1, <2>1, <2>2, AddRouteKeeps DEF AddGroupRoute
<1>2. ASSUME NEW folder \in Folders, AddStaticRoute(folder.pattern, folder.dir)
      PROVE  IInv'
  <2>1. folder.pattern \in Seq({seg \in Segments : seg.kind = "STATIC"}) /\ folder.dir \in Seq(STRING)
    BY RouterAssumption
  <2>2. folder.pattern \in Seq(Segments)
    <3>. DEFINE p == folder.pattern
    <3>1. Len(p) \in Nat /\ p \in [1 .. Len(p) -> {seg \in Segments : seg.kind = "STATIC"}]
      BY <2>1, LenProperties, ElementOfSeq
    <3>. QED  BY <3>1, IsASeq
  <2>. QED  BY <1>2, <2>1, <2>2, AddStaticRouteKeeps
<1>3. CASE UNCHANGED vars
  BY <1>3 DEF vars, IInv, Types, Rooted, Handlers, Own
<1>4. QED
  BY <1>1, <1>2, <1>3 DEF Next, AddRouteThrows

LEMMA Invariance == Spec => []IInv
BY InitHolds, NextKeeps, PTL DEF Spec

(* Every node of a trie but its root has its parent in the trie, and a     *)
(* handler is one that add_route() registered for the method and for the   *)
(* path that leads to the node: what RouteMatcher::match() descends by, and*)
(* why what it finds is a route's.  For every set of patterns, and however *)
(* many routes are added.                                                  *)
THEOREM TypeCorrect == Spec => []TypeOK
<1>1. IInv => TypeOK
  <2>. SUFFICES ASSUME IInv, NEW m \in Methods, NEW k \in DOMAIN trees[m]
                PROVE  /\ trees[m][k].type \in Kinds
                       /\ k # <<>> => Front(k) \in DOMAIN trees[m]
                       /\ trees[m][k].handler # NoHandler =>
                             /\ trees[m][k].handler \in Ids(m)
                             /\ Keys(Pattern(trees[m][k].handler)) = k
    BY DEF TypeOK
  <2>1. PICK S \in Places : trees[m] \in [S -> Nodes]
    BY DEF IInv, Types, Tries
  <2>2. trees[m][k] \in Nodes
    BY <2>1
  <2>3. trees[m][k].type \in Kinds
    BY <2>2 DEF Nodes
  <2>4. k # <<>> => Front(k) \in DOMAIN trees[m]
    BY DEF IInv, Rooted
  <2>5. ASSUME trees[m][k].handler # NoHandler
        PROVE  trees[m][k].handler \in Ids(m) /\ Keys(Pattern(trees[m][k].handler)) = k
    <3>1. Own(m, k, trees[m][k].handler)
      BY <2>5 DEF IInv, Handlers
    <3>. QED  BY <3>1 DEF Own, Ids, Pattern
  <2>. QED  BY <2>3, <2>4, <2>5
<1>. QED  BY <1>1, Invariance, PTL
=============================================================================
