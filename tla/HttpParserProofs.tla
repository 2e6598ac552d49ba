-------------------------- MODULE HttpParserProofs --------------------------
(***************************************************************************)
(* A proof that the parser of HttpParser builds what its types say and     *)
(* never takes headers.back() of nothing, that it accepts every request    *)
(* that can be written, wherever the reads are cut, and nothing else but   *)
(* folded lines and leading zeros, and that each read ends as Connection   *)
(* takes it to.                                                            *)
(***************************************************************************)
EXTENDS HttpParser, SequenceTheorems, WellFoundedInduction, TLAPS

-----------------------------------------------------------------------------
(* Numbers.                                                                *)

LEMMA LeastNumber ==
    ASSUME NEW S \in SUBSET Nat, S # {}
    PROVE  \E n \in S : \A k \in S : n <= k
<1>. DEFINE R == OpToRel(<, Nat)
<1>1. IsWellFoundedOn(R, Nat)
  BY NatLessThanWellFounded
<1>2. \A x, y \in Nat : x < y => <<x, y>> \in R
  BY DEF OpToRel
<1>. HIDE DEF R
<1>3. PICK n \in S : \A y \in S : ~ (<<y, n>> \in R)
  BY <1>1, WFMin, Zenon
<1>4. ASSUME NEW k \in S PROVE n <= k
  <2>1. n \in Nat /\ k \in Nat
    OBVIOUS
  <2>2. <<k, n>> \notin R
    BY <1>3, Zenon
  <2>3. ~ (k < n)
    BY <1>2, <2>1, <2>2, Zenon
  <2>. QED  BY <2>1, <2>3
<1>. QED  BY <1>4

(* What holds of 0, and of each number if it holds of the one before.      *)
LEMMA Induction ==
    ASSUME NEW n \in Nat, NEW S, 0 \in S, \A i \in 1 .. n : i - 1 \in S => i \in S
    PROVE  \A i \in 0 .. n : i \in S
<1>. DEFINE B == {i \in 0 .. n : i \notin S}
<1>. SUFFICES ASSUME B # {} PROVE FALSE
  OBVIOUS
<1>1. B \in SUBSET Nat
  OBVIOUS
<1>. HIDE DEF B
<1>2. PICK i \in B : \A k \in B : i <= k
  BY <1>1, LeastNumber
<1>3. i \in 0 .. n /\ i \notin S /\ i # 0
  BY <1>2 DEF B
<1>4. i - 1 \in 0 .. n /\ i - 1 \notin B
  BY <1>2, <1>3
<1>5. i - 1 \in S
  BY <1>4 DEF B
<1>. QED  BY <1>3, <1>5

-----------------------------------------------------------------------------
(* Runs of the automaton: where it is after each character of a text.      *)

IsRun(base, text, n, f) ==
    f = [i \in 0 .. n |-> IF i = 0 THEN base ELSE Step(f[i - 1], text[i])]

LEMMA RunExists ==
    ASSUME NEW base, NEW text, NEW n \in Nat
    PROVE  \E f : IsRun(base, text, n, f)
<1>. DEFINE S == {k \in 0 .. n : \E f : IsRun(base, text, k, f)}
<1>1. 0 \in S
  <2>. DEFINE f == [i \in 0 .. 0 |-> base]
  <2>1. f = [i \in 0 .. 0 |-> IF i = 0 THEN base ELSE Step(f[i - 1], text[i])]
    OBVIOUS
  <2>. HIDE DEF f
  <2>2. IsRun(base, text, 0, f)
    BY <2>1 DEF IsRun
  <2>. QED  BY <2>2
<1>2. ASSUME NEW k \in 1 .. n, k - 1 \in S PROVE k \in S
  <2>1. PICK f : IsRun(base, text, k - 1, f)
    BY <1>2
  <2>2. /\ DOMAIN f = 0 .. (k - 1)
        /\ \A i \in 0 .. (k - 1) : f[i] = IF i = 0 THEN base ELSE Step(f[i - 1], text[i])
    BY <2>1 DEF IsRun
  <2>. DEFINE g == [i \in 0 .. k |-> IF i = k THEN Step(f[k - 1], text[k]) ELSE f[i]]
  <2>3. ASSUME NEW i \in 0 .. k
        PROVE  g[i] = IF i = 0 THEN base ELSE Step(g[i - 1], text[i])
    <3>1. CASE i = k
      <4>1. i # 0 /\ i - 1 \in 0 .. k /\ i - 1 # k
        BY <3>1
      <4>2. g[i - 1] = f[k - 1] /\ g[i] = Step(f[k - 1], text[k])
        BY <3>1, <4>1
      <4>. HIDE DEF g
      <4>. QED  BY <3>1, <4>1, <4>2
    <3>2. CASE i = 0
      <4>1. i \in 0 .. (k - 1) /\ i # k
        BY <3>2
      <4>2. g[i] = f[i]
        BY <4>1
      <4>. HIDE DEF g
      <4>. QED  BY <2>2, <3>2, <4>1, <4>2
    <3>3. CASE i # k /\ i # 0
      <4>1. i \in 0 .. (k - 1) /\ i - 1 \in 0 .. k /\ i - 1 # k
        BY <3>3
      <4>2. g[i] = f[i] /\ g[i - 1] = f[i - 1]
        BY <3>3, <4>1
      <4>. HIDE DEF g
      <4>. QED  BY <2>2, <3>3, <4>1, <4>2
    <3>. QED  BY <3>1, <3>2, <3>3
  <2>4. g = [i \in 0 .. k |-> IF i = 0 THEN base ELSE Step(g[i - 1], text[i])]
    <3>1. g = [i \in 0 .. k |-> g[i]]
      OBVIOUS
    <3>. HIDE DEF g
    <3>. QED  BY <2>3, <3>1
  <2>. HIDE DEF g
  <2>5. IsRun(base, text, k, g)
    BY <2>4 DEF IsRun
  <2>. QED  BY <2>5
<1>. HIDE DEF S
<1>3. \A k \in 0 .. n : k \in S
  BY <1>1, <1>2, Induction
<1>4. n \in S
  BY <1>3
<1>. QED  BY <1>4 DEF S

Run(base, text) == CHOOSE f : IsRun(base, text, Len(text), f)
After(base, text) == Run(base, text)[Len(text)]
Start(s, r) == [state |-> s, req |-> r, result |-> "INDETERMINATE", used |-> 0]

LEMMA RunProperties ==
    ASSUME NEW base, NEW text, Len(text) \in Nat
    PROVE  /\ Run(base, text)[0] = base
           /\ \A i \in 1 .. Len(text) : Run(base, text)[i] = Step(Run(base, text)[i - 1], text[i])
<1>. DEFINE f == Run(base, text)
            n == Len(text)
<1>1. IsRun(base, text, n, f)
  BY RunExists DEF Run
<1>. HIDE DEF f, n
<1>2. f = [i \in 0 .. n |-> IF i = 0 THEN base ELSE Step(f[i - 1], text[i])]
  BY <1>1 DEF IsRun
<1>3. n \in Nat
  BY DEF n
<1>4. \A i \in 0 .. n : f[i] = IF i = 0 THEN base ELSE Step(f[i - 1], text[i])
  BY <1>2
<1>5. f[0] = base
  BY <1>3, <1>4
<1>6. \A i \in 1 .. n : f[i] = Step(f[i - 1], text[i])
  BY <1>3, <1>4
<1>. QED  BY <1>5, <1>6 DEF f, n

LEMMA ParseIsRun ==
    ASSUME NEW s, NEW r, NEW chunk
    PROVE  Parse(s, r, chunk) = After(Start(s, r), chunk)
BY DEF Parse, After, Run, IsRun, Start

(* A run over a beginning of a text, and over what is behind it.           *)
LEMMA SameRun ==
    ASSUME NEW base, NEW text, NEW longer, Len(text) \in Nat, Len(longer) \in Nat,
           Len(text) <= Len(longer), \A i \in 1 .. Len(text) : text[i] = longer[i]
    PROVE  \A i \in 0 .. Len(text) : Run(base, text)[i] = Run(base, longer)[i]
<1>. DEFINE f == Run(base, text)
            g == Run(base, longer)
            n == Len(text)
            S == {i \in 0 .. n : f[i] = g[i]}
<1>1. f[0] = base /\ \A i \in 1 .. n : f[i] = Step(f[i - 1], text[i])
  BY RunProperties
<1>2. g[0] = base /\ \A i \in 1 .. Len(longer) : g[i] = Step(g[i - 1], longer[i])
  BY RunProperties
<1>3. \A i \in 1 .. n : i \in 1 .. Len(longer)
  OBVIOUS
<1>. HIDE DEF f, g
<1>4. 0 \in S
  BY <1>1, <1>2
<1>5. \A i \in 1 .. n : i - 1 \in S => i \in S
  BY <1>1, <1>2, <1>3
<1>. HIDE DEF S
<1>6. \A i \in 0 .. n : i \in S
  BY <1>4, <1>5, Induction
<1>. QED  BY <1>6 DEF S, f, g

LEMMA AfterConcat ==
    ASSUME NEW base, NEW t \in Seq(Chars), NEW u \in Seq(Chars)
    PROVE  After(base, t \o u) = After(After(base, t), u)
<1>. DEFINE tu == t \o u
            n == Len(t)
            m == Len(u)
            f == Run(base, tu)
            mid == After(base, t)
            g == Run(mid, u)
            S == {j \in 0 .. m : f[n + j] = g[j]}
<1>1. /\ n \in Nat /\ m \in Nat /\ Len(tu) = n + m
      /\ \A i \in 1 .. n : t[i] = tu[i]
      /\ \A j \in 1 .. m : tu[n + j] = u[j]
  <2>1. n \in Nat /\ m \in Nat /\ Len(tu) = n + m
    BY LenProperties, ConcatProperties
  <2>2. \A i \in 1 .. n + m : tu[i] = IF i <= n THEN t[i] ELSE u[i - n]
    BY ConcatProperties
  <2>. HIDE DEF n, m, tu
  <2>3. ASSUME NEW j \in 1 .. m, NEW i, i = n + j PROVE tu[i] = u[j]
    <3>1. i \in 1 .. n + m /\ ~ i <= n /\ i - n = j
      BY <2>1, <2>3
    <3>2. tu[i] = IF i <= n THEN t[i] ELSE u[i - n]
      BY <2>2, <3>1
    <3>. QED  BY <3>1, <3>2
  <2>4. \A j \in 1 .. m : tu[n + j] = u[j]
    BY <2>3
  <2>5. \A i \in 1 .. n : t[i] = tu[i]
    BY <2>1, <2>2
  <2>. QED  BY <2>1, <2>4, <2>5
<1>2. \A i \in 1 .. n + m : f[i] = Step(f[i - 1], tu[i])
  <2>1. Len(tu) \in Nat /\ 1 .. n + m = 1 .. Len(tu)
    BY <1>1
  <2>. HIDE DEF n, m, tu
  <2>2. \A i \in 1 .. Len(tu) : f[i] = Step(f[i - 1], tu[i])
    BY <2>1, RunProperties
  <2>. HIDE DEF f
  <2>. QED  BY <2>1, <2>2
<1>3. g[0] = mid /\ \A j \in 1 .. m : g[j] = Step(g[j - 1], u[j])
  BY <1>1, RunProperties
<1>4. f[n] = mid
  <2>1. Len(tu) \in Nat /\ n <= Len(tu)
    BY <1>1
  <2>2. n \in 0 .. n
    BY <1>1
  <2>. HIDE DEF tu
  <2>3. \A i \in 0 .. n : Run(base, t)[i] = f[i]
    BY <1>1, <2>1, SameRun
  <2>. HIDE DEF n, f
  <2>. QED  BY <2>2, <2>3 DEF After, n
<1>. HIDE DEF f, g, mid, n, m, tu
<1>5. 0 \in S
  BY <1>1, <1>3, <1>4
<1>6. ASSUME NEW j \in 1 .. m, j - 1 \in S PROVE j \in S
  <2>1. n + j \in 1 .. n + m /\ n + j - 1 = n + (j - 1)
    BY <1>1
  <2>2. f[n + (j - 1)] = g[j - 1]
    BY <1>6
  <2>. QED  BY <1>1, <1>2, <1>3, <2>1, <2>2
<1>. HIDE DEF S
<1>7. \A j \in 0 .. m : j \in S
  BY <1>1, <1>5, <1>6, Induction
<1>8. f[n + m] = g[m]
  <2>1. m \in S
    BY <1>1, <1>7
  <2>. QED  BY <2>1 DEF S
<1>. QED  BY <1>1, <1>8 DEF After, f, g, mid, n, m, tu

LEMMA AfterNothing ==
    ASSUME NEW base
    PROVE  After(base, <<>>) = base
<1>1. Len(<<>>) = 0
  BY EmptySeq
<1>. QED  BY <1>1, RunProperties DEF After

LEMMA AfterOne ==
    ASSUME NEW base, NEW c
    PROVE  After(base, <<c>>) = Step(base, c)
<1>. DEFINE t == <<c>>
<1>1. Len(t) = 1 /\ t[1] = c
  OBVIOUS
<1>. HIDE DEF t
<1>2. Run(base, t)[0] = base /\ \A i \in 1 .. Len(t) : Run(base, t)[i] = Step(Run(base, t)[i - 1], t[i])
  BY <1>1, RunProperties
<1>3. Run(base, t)[1] = Step(Run(base, t)[1 - 1], t[1])
  BY <1>1, <1>2
<1>. QED  BY <1>1, <1>2, <1>3 DEF After, t

LEMMA AfterAppend ==
    ASSUME NEW base, NEW t \in Seq(Chars), NEW c \in Chars
    PROVE  After(base, Append(t, c)) = Step(After(base, t), c)
<1>1. Append(t, c) = t \o <<c>> /\ <<c>> \in Seq(Chars)
  BY AppendIsConcat
<1>2. After(base, t \o <<c>>) = After(After(base, t), <<c>>)
  BY <1>1, AfterConcat
<1>. QED  BY <1>1, <1>2, AfterOne

-----------------------------------------------------------------------------
(* What the automaton builds: the types, and a header under way wherever   *)
(* the next character may extend one.                                      *)

UriChars == Chars \ (Control \cup {"SP"})
Built == [method : Seq(Alpha), uri : Seq(UriChars), major : Int, minor : Int,
          headers : Seq([name : Texts, value : Texts])]
Verdicts == {"GOOD", "BAD", "INDETERMINATE"}
Open(s, r) == s \in Lines => r.headers # <<>>
Sound(p) ==
    /\ p \in [state : States, req : Built, result : Verdicts, used : Nat]
    /\ Open(p.state, p.req)

(* What a rule that takes character c may ask for, in request r.           *)
Fits(rule, r, c) ==
    /\ rule.to \in States
    /\ \/ rule.does = "skip" /\ Open(rule.to, r)
       \/ rule.does = "method" /\ c \in Alpha /\ rule.to = "METHOD"
       \/ rule.does = "uri" /\ c \in UriChars /\ rule.to = "URI"
       \/ rule.does \in {"setMajor", "major"} /\ c \in Digits /\ rule.to = "HTTP_VERSION_MAJOR"
       \/ rule.does \in {"setMinor", "minor"} /\ c \in Digits /\ rule.to = "HTTP_VERSION_MINOR"
       \/ rule.does = "newHeader" /\ rule.to = "HEADER_NAME"
       \/ rule.does \in {"name", "value"} /\ r.headers # <<>>

LEMMA MethodRulesFit ==
    ASSUME NEW r, NEW c, NEW rule \in MethodRules, c \in rule.on
    PROVE  Fits(rule, r, c)
<1>1. \/ rule.to = "METHOD" /\ rule.does = "method" /\ rule.on = Alpha
      \/ rule.to = "URI" /\ rule.does = "skip"
  BY DEF MethodRules, Rule
<1>. QED  BY <1>1 DEF Fits, Open, States, Lines

LEMMA UriRulesFit ==
    ASSUME NEW r, NEW c, NEW rule \in UriRules, c \in rule.on
    PROVE  Fits(rule, r, c)
<1>1. \/ rule.to = "HTTP_VERSION_H" /\ rule.does = "skip"
      \/ rule.to = "URI" /\ rule.does = "uri" /\ rule.on = UriChars
  BY DEF UriRules, Rule, UriChars
<1>. QED  BY <1>1 DEF Fits, Open, States, Lines

LEMMA VersionRulesFit ==
    ASSUME NEW r, NEW c, NEW rule \in VersionRules, c \in rule.on
    PROVE  Fits(rule, r, c)
<1>1. rule.to \in States \ Lines
  BY DEF VersionRules, Rule, States, Lines
<1>2. \/ rule.does = "skip"
      \/ rule.does \in {"setMajor", "major"} /\ rule.to = "HTTP_VERSION_MAJOR" /\ rule.on = Digits
      \/ rule.does \in {"setMinor", "minor"} /\ rule.to = "HTTP_VERSION_MINOR" /\ rule.on = Digits
  BY DEF VersionRules, Rule
<1>. QED  BY <1>1, <1>2 DEF Fits, Open

LEMMA HeaderRulesFit ==
    ASSUME NEW r, NEW c, NEW rule \in HeaderRules, c \in rule.on, Open(rule.from, r)
    PROVE  Fits(rule, r, c)
<1>1. rule.from \in Lines /\ rule.to \in States
  BY DEF HeaderRules, Rule, States, Lines
<1>2. r.headers # <<>>
  BY <1>1 DEF Open
<1>3. rule.does \in {"skip", "name", "value"}
  BY DEF HeaderRules, Rule
<1>. QED  BY <1>1, <1>2, <1>3 DEF Fits, Open

LEMMA LineStartRulesFit ==
    ASSUME NEW r, NEW c, NEW rule \in LineStartRules(r), c \in rule.on
    PROVE  Fits(rule, r, c)
<1>1. \/ rule.to = "EXPECTING_NEWLINE_3" /\ rule.does = "skip"
      \/ rule.to = "HEADER_NAME" /\ rule.does = "newHeader"
      \/ rule.to = "HEADER_LWS" /\ rule.does = "skip" /\ r.headers # <<>>
  <2>1. CASE MayFold(r)
    BY <2>1 DEF LineStartRules, MayFold, Rule
  <2>2. CASE ~ MayFold(r)
    BY <2>2 DEF LineStartRules, Rule
  <2>. QED  BY <2>1, <2>2
<1>. QED  BY <1>1 DEF Fits, Open, States, Lines

LEMMA RulesFit ==
    ASSUME NEW s, NEW r, NEW c, Open(s, r), NEW rule \in RulesFor(s, r, c)
    PROVE  Fits(rule, r, c)
<1>1. /\ rule.from = s /\ c \in rule.on
      /\ rule \in IF s = "HEADER_LINE_START" THEN LineStartRules(r) ELSE FixedRules
  BY DEF RulesFor
<1>2. CASE s = "HEADER_LINE_START"
  BY <1>1, <1>2, LineStartRulesFit
<1>3. CASE s # "HEADER_LINE_START"
  <2>1. rule \in MethodRules \/ rule \in UriRules \/ rule \in VersionRules \/ rule \in HeaderRules
    BY <1>1, <1>3 DEF FixedRules
  <2>2. Open(rule.from, r)
    BY <1>1
  <2>. QED  BY <1>1, <2>1, <2>2, MethodRulesFit, UriRulesFit, VersionRulesFit, HeaderRulesFit
<1>. QED  BY <1>2, <1>3

LEMMA ValueIsDigit ==
    ASSUME NEW c \in Digits
    PROVE  Value(c) \in 0 .. 9
<1>1. c \in ToSet(Numerals)
  BY ParserAssumption
<1>2. DOMAIN Numerals = 1 .. 10
  BY DEF Numerals
<1>3. PICK i \in 1 .. 10 : Numerals[i] = c
  BY <1>1, <1>2 DEF ToSet
<1>4. i - 1 \in 0 .. 9 /\ (i - 1) + 1 = i
  OBVIOUS
<1>5. \E n \in 0 .. 9 : Numerals[n + 1] = c
  BY <1>3, <1>4
<1>. QED  BY <1>5 DEF Value

LEMMA Assumed ==
    MaxReads \in Nat /\ Chunks \subseteq Seq(Chars) /\ <<>> \notin Chunks
<1>1. MaxReads \in Nat /\ Chunks \subseteq Seq(Chars) \ {<<>>}
  BY ParserAssumption, Zenon
<1>. QED  BY <1>1

LEMMA SetBackIsBuilt ==
    ASSUME NEW r \in Built, r.headers # <<>>, NEW h \in [name : Texts, value : Texts]
    PROVE  SetBack(r, h) \in Built /\ SetBack(r, h).headers # <<>>
<1>. DEFINE H == [name : Texts, value : Texts]
            hs == r.headers
            gs == [hs EXCEPT ![Len(hs)] = h]
<1>1. hs \in Seq(H)
  BY DEF Built
<1>2. SetBack(r, h) = [r EXCEPT !.headers = gs]
  BY DEF SetBack, Built
<1>. HIDE DEF hs, H
<1>3. Len(hs) \in 1 .. Len(hs) /\ Len(hs) \in Nat
  <2>1. hs # <<>>
    BY DEF hs
  <2>. QED  BY <1>1, <2>1, EmptySeq, LenProperties
<1>4. gs \in Seq(H) /\ Len(gs) = Len(hs)
  BY <1>1, <1>3, ExceptSeq DEF H
<1>5. gs # <<>>
  BY <1>3, <1>4, EmptySeq
<1>. HIDE DEF gs
<1>. QED  BY <1>2, <1>4, <1>5 DEF Built, H

LEMMA BackIsField ==
    ASSUME NEW r \in Built, r.headers # <<>>
    PROVE  Back(r) \in [name : Texts, value : Texts]
<1>. DEFINE H == [name : Texts, value : Texts]
            hs == r.headers
<1>1. hs \in Seq(H) /\ hs # <<>>
  BY DEF Built
<1>. HIDE DEF hs, H
<1>2. hs[Len(hs)] \in H
  <2>1. Len(hs) \in 1 .. Len(hs)
    BY <1>1, EmptySeq, LenProperties
  <2>. QED  BY <1>1, <2>1, ElementOfSeq
<1>. QED  BY <1>2 DEF Back, hs, H

LEMMA EffectFits ==
    ASSUME NEW r \in Built, NEW c \in Chars, NEW rule, Fits(rule, r, c)
    PROVE  Effect(rule.does, r, c) \in Built /\ Open(rule.to, Effect(rule.does, r, c))
<1>. DEFINE e == Effect(rule.does, r, c)
<1>1. CASE rule.does = "skip" /\ Open(rule.to, r)
  <2>1. e = r
    BY <1>1 DEF Effect
  <2>. QED  BY <1>1, <2>1
<1>2. CASE rule.does = "method" /\ c \in Alpha /\ rule.to = "METHOD"
  <2>1. e = [r EXCEPT !.method = Append(r.method, c)]
    BY <1>2 DEF Effect
  <2>2. Append(r.method, c) \in Seq(Alpha)
    BY <1>2 DEF Built
  <2>. HIDE DEF e
  <2>. QED  BY <1>2, <2>1, <2>2 DEF Built, Open, Lines, e
<1>3. CASE rule.does = "uri" /\ c \in UriChars /\ rule.to = "URI"
  <2>1. e = [r EXCEPT !.uri = Append(r.uri, c)]
    BY <1>3 DEF Effect
  <2>2. Append(r.uri, c) \in Seq(UriChars)
    BY <1>3 DEF Built
  <2>. HIDE DEF e
  <2>. QED  BY <1>3, <2>1, <2>2 DEF Built, Open, Lines, e
<1>4. CASE rule.does \in {"setMajor", "major"} /\ c \in Digits /\ rule.to = "HTTP_VERSION_MAJOR"
  <2>1. \E n \in Int : e = [r EXCEPT !.major = n]
    <3>1. Value(c) \in Int /\ r.major * 10 + Value(c) \in Int
      BY <1>4, ValueIsDigit DEF Built
    <3>2. CASE rule.does = "setMajor"
      BY <3>1, <3>2 DEF Effect
    <3>3. CASE rule.does = "major"
      BY <3>1, <3>3 DEF Effect
    <3>. QED  BY <1>4, <3>2, <3>3
  <2>. HIDE DEF e
  <2>. QED  BY <1>4, <2>1 DEF Built, Open, Lines, e
<1>5. CASE rule.does \in {"setMinor", "minor"} /\ c \in Digits /\ rule.to = "HTTP_VERSION_MINOR"
  <2>1. \E n \in Int : e = [r EXCEPT !.minor = n]
    <3>1. Value(c) \in Int /\ r.minor * 10 + Value(c) \in Int
      BY <1>5, ValueIsDigit DEF Built
    <3>2. CASE rule.does = "setMinor"
      BY <3>1, <3>2 DEF Effect
    <3>3. CASE rule.does = "minor"
      BY <3>1, <3>3 DEF Effect
    <3>. QED  BY <1>5, <3>2, <3>3
  <2>. HIDE DEF e
  <2>. QED  BY <1>5, <2>1 DEF Built, Open, Lines, e
<1>6. CASE rule.does = "newHeader" /\ rule.to = "HEADER_NAME"
  <2>. DEFINE h == [name |-> <<c>>, value |-> <<>>]
              H == [name : Texts, value : Texts]
  <2>1. h \in H
    BY DEF Texts
  <2>2. r.headers \in Seq(H)
    BY DEF Built
  <2>3. e = [r EXCEPT !.headers = Append(r.headers, h)]
    BY <1>6 DEF Effect
  <2>. HIDE DEF e, h, H
  <2>4. Append(r.headers, h) \in Seq(H) /\ Append(r.headers, h) # <<>>
    BY <2>1, <2>2, AppendProperties
  <2>. QED  BY <2>3, <2>4 DEF Built, Open, H, e
<1>7. CASE rule.does \in {"name", "value"} /\ r.headers # <<>>
  <2>. DEFINE H == [name : Texts, value : Texts]
  <2>1. Back(r) \in H
    BY <1>7, BackIsField
  <2>2. /\ [Back(r) EXCEPT !.name = Append(Back(r).name, c)] \in H
        /\ [Back(r) EXCEPT !.value = Append(Back(r).value, c)] \in H
    <3>1. Append(Back(r).name, c) \in Texts /\ Append(Back(r).value, c) \in Texts
      BY <2>1 DEF Texts
    <3>. QED  BY <2>1, <3>1
  <2>3. \E h \in H : e = SetBack(r, h)
    <3>. HIDE DEF H
    <3>1. CASE rule.does = "name"
      BY <2>2, <3>1 DEF Effect
    <3>2. CASE rule.does = "value"
      BY <2>2, <3>2 DEF Effect
    <3>. QED  BY <1>7, <3>1, <3>2
  <2>. HIDE DEF e
  <2>4. e \in Built /\ e.headers # <<>>
    BY <1>7, <2>3, SetBackIsBuilt
  <2>. QED  BY <2>4 DEF Open, e
<1>. QED  BY <1>1, <1>2, <1>3, <1>4, <1>5, <1>6, <1>7 DEF Fits

Progress == [state : States, req : Built, result : Verdicts, used : Nat]

LEMMA VerdictIs ==
    ASSUME NEW p, NEW c
    PROVE  /\ Verdict(p, c) \in Verdicts
           /\ Verdict(p, c) = "INDETERMINATE" =>
                 p.state # "EXPECTING_NEWLINE_3" /\ RulesFor(p.state, p.req, c) # {}
BY DEF Verdict, Verdicts

(* A step that takes the character goes where one of the rules says.       *)
LEMMA FollowIs ==
    ASSUME NEW p \in Progress, NEW c, Verdict(p, c) = "INDETERMINATE"
    PROVE  \E rule \in RulesFor(p.state, p.req, c) :
              Follow(p, c) = [state |-> rule.to, req |-> Effect(rule.does, p.req, c),
                              result |-> p.result, used |-> p.used + 1]
<1>. DEFINE rule == CHOOSE r \in RulesFor(p.state, p.req, c) : TRUE
<1>1. rule \in RulesFor(p.state, p.req, c)
  BY VerdictIs
<1>2. Follow(p, c) = [p EXCEPT !.state = rule.to, !.req = Effect(rule.does, p.req, c), !.used = p.used + 1]
  BY DEF Follow
<1>. HIDE DEF rule
<1>. QED  BY <1>1, <1>2 DEF Progress

LEMMA StepSound ==
    ASSUME NEW p, Sound(p), NEW c \in Chars
    PROVE  Sound(Step(p, c)) /\ Step(p, c).used \in {p.used, p.used + 1}
<1>0. p \in Progress /\ Open(p.state, p.req)
  BY DEF Sound, Progress
<1>1. CASE p.result # "INDETERMINATE"
  BY <1>0, <1>1 DEF Step
<1>2. CASE p.result = "INDETERMINATE" /\ Verdict(p, c) = "INDETERMINATE"
  <2>1. PICK rule \in RulesFor(p.state, p.req, c) :
           Follow(p, c) = [state |-> rule.to, req |-> Effect(rule.does, p.req, c),
                           result |-> p.result, used |-> p.used + 1]
    BY <1>0, <1>2, FollowIs
  <2>2. Fits(rule, p.req, c)
    BY <1>0, RulesFit
  <2>3. /\ Effect(rule.does, p.req, c) \in Built
        /\ Open(rule.to, Effect(rule.does, p.req, c))
    BY <1>0, <2>2, EffectFits DEF Progress
  <2>4. rule.to \in States
    BY <2>2 DEF Fits
  <2>5. Step(p, c) = Follow(p, c)
    BY <1>2 DEF Step
  <2>. QED  BY <1>0, <2>1, <2>3, <2>4, <2>5 DEF Sound, Progress
<1>3. CASE p.result = "INDETERMINATE" /\ Verdict(p, c) # "INDETERMINATE"
  <2>1. Step(p, c) = [p EXCEPT !.result = Verdict(p, c), !.used = p.used + 1]
    BY <1>3 DEF Step
  <2>2. Verdict(p, c) \in Verdicts
    BY VerdictIs
  <2>3. Step(p, c) = [state |-> p.state, req |-> p.req, result |-> Verdict(p, c), used |-> p.used + 1]
    BY <1>0, <2>1 DEF Progress
  <2>. QED  BY <1>0, <2>2, <2>3 DEF Sound, Progress
<1>. QED  BY <1>1, <1>2, <1>3

LEMMA RunSound ==
    ASSUME NEW base, Sound(base), base.used = 0, NEW text \in Seq(Chars)
    PROVE  \A i \in 0 .. Len(text) : Sound(Run(base, text)[i]) /\ Run(base, text)[i].used \in 0 .. i
<1>. DEFINE f == Run(base, text)
            n == Len(text)
            S == {i \in 0 .. n : Sound(f[i]) /\ f[i].used \in 0 .. i}
<1>1. n \in Nat /\ \A i \in 1 .. n : text[i] \in Chars
  BY ElementOfSeq, LenProperties
<1>2. f[0] = base /\ \A i \in 1 .. n : f[i] = Step(f[i - 1], text[i])
  BY <1>1, RunProperties
<1>. HIDE DEF f, n
<1>3. 0 \in S
  BY <1>1, <1>2
<1>4. ASSUME NEW i \in 1 .. n, i - 1 \in S PROVE i \in S
  <2>1. Sound(f[i - 1]) /\ f[i - 1].used \in 0 .. i - 1
    BY <1>4
  <2>2. Sound(f[i]) /\ f[i].used \in {f[i - 1].used, f[i - 1].used + 1}
    BY <1>1, <1>2, <2>1, StepSound
  <2>3. f[i].used \in 0 .. i
    BY <2>1, <2>2
  <2>. QED  BY <2>2, <2>3
<1>. HIDE DEF S
<1>5. \A i \in 0 .. n : i \in S
  BY <1>1, <1>3, <1>4, Induction
<1>. QED  BY <1>5 DEF S, f, n

LEMMA ParseSound ==
    ASSUME NEW s \in States, NEW r \in Built, Open(s, r), NEW chunk \in Seq(Chars)
    PROVE  Sound(Parse(s, r, chunk)) /\ Parse(s, r, chunk).used \in 0 .. Len(chunk)
<1>1. Sound(Start(s, r)) /\ Start(s, r).used = 0
  BY DEF Sound, Start, Verdicts
<1>2. Len(chunk) \in Nat
  BY LenProperties
<1>3. /\ Sound(Run(Start(s, r), chunk)[Len(chunk)])
      /\ Run(Start(s, r), chunk)[Len(chunk)].used \in 0 .. Len(chunk)
  BY <1>1, <1>2, RunSound
<1>. QED  BY <1>3, ParseIsRun DEF After

-----------------------------------------------------------------------------
(* The invariant: the state and the request are what the automaton builds. *)

Typed ==
    /\ state \in States /\ req \in Built /\ Open(state, req)
    /\ keepAlive \in BOOLEAN /\ complete \in BOOLEAN
    /\ reads \in 0 .. MaxReads
    /\ input \in Texts
    /\ verdict \in Verdicts

LEMMA InitTyped == Init => Typed
<1>. SUFFICES ASSUME Init PROVE Typed
  OBVIOUS
<1>1. state \in States /\ Open(state, req)
  BY DEF Init, States, Lines, Open
<1>2. EmptyRequest \in Built
  BY DEF Built, EmptyRequest, Unset, Texts
<1>3. 0 \in 0 .. MaxReads
  BY Assumed
<1>4. <<>> \in Texts
  BY DEF Texts
<1>. QED  BY <1>1, <1>2, <1>3, <1>4 DEF Init, Typed, Verdicts

LEMMA KeepAlivesAreBoolean == ASSUME NEW r PROVE KeepAlives(r) \subseteq BOOLEAN
<1>1. CASE Fields(r, "Connection") # {}
  <2>1. KeepAlives(r) = {AsksToKeep(r)}
    BY <1>1 DEF KeepAlives
  <2>2. AsksToKeep(r) \in BOOLEAN
    BY Zenon DEF AsksToKeep, Contains
  <2>. QED  BY <2>1, <2>2, Zenon
<1>2. CASE Fields(r, "Connection") = {}
  <2>1. KeepAlives(r) = {major = 1 /\ minor = 1 : major \in Held(r.major), minor \in Held(r.minor)}
    BY <1>2 DEF KeepAlives
  <2>2. \A k \in KeepAlives(r) : \E major, minor : k = (major = 1 /\ minor = 1)
    BY <2>1
  <2>. QED  BY <2>2, Zenon
<1>. QED  BY <1>1, <1>2

LEMMA NextTyped == Typed /\ [Next]_vars => Typed'
<1>. SUFFICES ASSUME Typed, [Next]_vars PROVE Typed'
  OBVIOUS
<1>1. ASSUME NEW chunk \in Chunks, Read(chunk) PROVE Typed'
  <2>. DEFINE p == Parse(state, req, chunk)
  <2>1. chunk \in Seq(Chars) /\ MaxReads \in Nat
    BY Assumed
  <2>2. Sound(p) /\ p.used \in 0 .. Len(chunk)
    BY <2>1, ParseSound DEF Typed
  <2>3. SubSeq(chunk, 1, p.used) \in Texts
    <3>1. 1 \in Int /\ p.used \in Int /\ \A i \in 1 .. p.used : i \in 1 .. Len(chunk)
      BY <2>1, <2>2, LenProperties
    <3>2. \A i \in 1 .. p.used : chunk[i] \in Chars
      BY <2>1, <3>1, ElementOfSeq
    <3>. HIDE DEF p
    <3>. QED  BY <3>1, <3>2, SubSeqProperties DEF Texts
  <2>4. /\ reads < MaxReads
        /\ state' = p.state /\ req' = p.req
        /\ complete' = (complete \/ p.result = "GOOD")
        /\ verdict' = IF verdict = "INDETERMINATE" THEN p.result ELSE verdict
        /\ input' = IF verdict = "INDETERMINATE" THEN input \o SubSeq(chunk, 1, p.used) ELSE input
        /\ keepAlive' \in KeepAlives(p.req)
        /\ reads' = reads + 1
    BY <1>1 DEF Read
  <2>. HIDE DEF p
  <2>5. keepAlive' \in BOOLEAN
    BY <2>4, KeepAlivesAreBoolean
  <2>6. input' \in Texts
    <3>1. input \o SubSeq(chunk, 1, p.used) \in Texts
      BY <2>3, ConcatProperties DEF Typed, Texts
    <3>. QED  BY <2>4, <3>1 DEF Typed
  <2>7. complete' \in BOOLEAN
    BY <2>4 DEF Typed
  <2>8. reads' \in 0 .. MaxReads
    BY <2>1, <2>4 DEF Typed
  <2>9. state' \in States /\ req' \in Built /\ Open(state', req') /\ verdict' \in Verdicts
    BY <2>2, <2>4 DEF Typed, Sound
  <2>. QED  BY <2>5, <2>6, <2>7, <2>8, <2>9 DEF Typed, Open
<1>2. CASE UNCHANGED vars
  BY <1>2 DEF vars, Typed, Open
<1>. QED  BY <1>1, <1>2 DEF Next

LEMMA Typing == Spec => []Typed
<1>. QED  BY InitTyped, NextTyped, PTL DEF Spec

(* The state and the request that the parser builds have their types,      *)
(* whatever the reads bring: its method is of letters, its URI without     *)
(* spaces and control characters, and the characters counted as read are   *)
(* characters that a read brought.                                         *)
THEOREM TypeCorrect == Spec => []TypeOK
<1>1. Typed => TypeOK
  BY DEF Typed, TypeOK, Built, UriChars, Verdicts
<1>. QED  BY <1>1, Typing, PTL

(* parse() takes headers.back() in the states of a header line only        *)
(* after a header has begun, also when the read that follows a BAD request *)
(* resumes in the middle of one.                                           *)
THEOREM BackHolds == Spec => []BackIsSafe
<1>1. Typed => BackIsSafe
  BY DEF Typed, BackIsSafe, Open
<1>. QED  BY <1>1, Typing, PTL

-----------------------------------------------------------------------------
(* The cuts between the reads do not matter: the parser is where one read  *)
(* of everything that was read would have left it, up to the first verdict.*)

Begin == Start("METHOD_START", EmptyRequest)

(* Equal but for the characters counted.                                   *)
Alike(p, q) == p.state = q.state /\ p.req = q.req /\ p.result = q.result

LEMMA BeginSound == Sound(Begin)
<1>1. EmptyRequest \in Built
  BY DEF Built, EmptyRequest, Unset, Texts
<1>. QED  BY <1>1 DEF Sound, Begin, Start, States, Lines, Open, Verdicts

LEMMA StartSound ==
    ASSUME NEW s \in States, NEW r \in Built, Open(s, r)
    PROVE  Sound(Start(s, r))
BY DEF Sound, Start, Verdicts

LEMMA StepAlike ==
    ASSUME NEW p, NEW q, Sound(p), Sound(q), Alike(p, q), NEW c
    PROVE  Alike(Step(p, c), Step(q, c))
<1>0. p \in Progress /\ q \in Progress
  BY DEF Sound, Progress
<1>1. Verdict(p, c) = Verdict(q, c) /\ p.result = q.result
  BY DEF Verdict, Alike
<1>2. CASE p.result # "INDETERMINATE"
  BY <1>1, <1>2 DEF Step
<1>3. CASE p.result = "INDETERMINATE" /\ Verdict(p, c) = "INDETERMINATE"
  <2>1. Step(p, c) = Follow(p, c) /\ Step(q, c) = Follow(q, c)
    BY <1>1, <1>3 DEF Step
  <2>. DEFINE a == CHOOSE rule \in RulesFor(p.state, p.req, c) : TRUE
              b == CHOOSE rule \in RulesFor(q.state, q.req, c) : TRUE
  <2>2. a = b
    BY DEF Alike
  <2>3. /\ Follow(p, c) = [p EXCEPT !.state = a.to, !.req = Effect(a.does, p.req, c), !.used = p.used + 1]
        /\ Follow(q, c) = [q EXCEPT !.state = b.to, !.req = Effect(b.does, q.req, c), !.used = q.used + 1]
    BY DEF Follow
  <2>4. Effect(a.does, p.req, c) = Effect(b.does, q.req, c)
    BY <2>2 DEF Alike
  <2>. HIDE DEF a, b
  <2>. QED  BY <1>0, <2>1, <2>2, <2>3, <2>4 DEF Alike, Progress
<1>4. CASE p.result = "INDETERMINATE" /\ Verdict(p, c) # "INDETERMINATE"
  <2>1. /\ Step(p, c) = [p EXCEPT !.result = Verdict(p, c), !.used = p.used + 1]
        /\ Step(q, c) = [q EXCEPT !.result = Verdict(p, c), !.used = q.used + 1]
    BY <1>1, <1>4 DEF Step
  <2>. QED  BY <1>0, <2>1 DEF Alike, Progress
<1>. QED  BY <1>2, <1>3, <1>4

LEMMA AfterSound ==
    ASSUME NEW base, Sound(base), NEW text \in Seq(Chars)
    PROVE  \A i \in 0 .. Len(text) : Sound(Run(base, text)[i])
<1>. DEFINE f == Run(base, text)
            n == Len(text)
            S == {i \in 0 .. n : Sound(f[i])}
<1>1. n \in Nat /\ \A i \in 1 .. n : text[i] \in Chars
  BY ElementOfSeq, LenProperties
<1>2. f[0] = base /\ \A i \in 1 .. n : f[i] = Step(f[i - 1], text[i])
  BY <1>1, RunProperties
<1>. HIDE DEF f, n
<1>3. 0 \in S
  BY <1>1, <1>2
<1>4. ASSUME NEW i \in 1 .. n, i - 1 \in S PROVE i \in S
  <2>1. Sound(f[i - 1])
    BY <1>4
  <2>2. Sound(f[i])
    BY <1>1, <1>2, <2>1, StepSound
  <2>. QED  BY <2>2
<1>. HIDE DEF S
<1>5. \A i \in 0 .. n : i \in S
  BY <1>1, <1>3, <1>4, Induction
<1>. QED  BY <1>5 DEF S, f, n

LEMMA AfterAlike ==
    ASSUME NEW p, NEW q, Sound(p), Sound(q), Alike(p, q), NEW text \in Seq(Chars)
    PROVE  Alike(After(p, text), After(q, text))
<1>. DEFINE f == Run(p, text)
            g == Run(q, text)
            n == Len(text)
            S == {i \in 0 .. n : Alike(f[i], g[i])}
<1>1. n \in Nat
  BY LenProperties
<1>2. /\ f[0] = p /\ \A i \in 1 .. n : f[i] = Step(f[i - 1], text[i])
      /\ g[0] = q /\ \A i \in 1 .. n : g[i] = Step(g[i - 1], text[i])
  BY <1>1, RunProperties
<1>3. \A i \in 0 .. n : Sound(f[i]) /\ Sound(g[i])
  BY AfterSound
<1>. HIDE DEF f, g, n
<1>4. 0 \in S
  BY <1>1, <1>2
<1>5. ASSUME NEW i \in 1 .. n, i - 1 \in S PROVE i \in S
  <2>1. Alike(f[i - 1], g[i - 1]) /\ i - 1 \in 0 .. n
    BY <1>5
  <2>2. Alike(f[i], g[i])
    BY <1>2, <1>3, <2>1, StepAlike
  <2>. QED  BY <2>2
<1>. HIDE DEF S
<1>6. \A i \in 0 .. n : i \in S
  BY <1>1, <1>4, <1>5, Induction
<1>7. Alike(f[n], g[n])
  BY <1>1, <1>6 DEF S
<1>. QED  BY <1>7 DEF After, f, g, n

(* After a verdict the automaton stands still.                             *)
LEMMA Decided ==
    ASSUME NEW base, base.result # "INDETERMINATE", NEW text \in Seq(Chars)
    PROVE  After(base, text) = base
<1>. DEFINE f == Run(base, text)
            n == Len(text)
            S == {i \in 0 .. n : f[i] = base}
<1>1. n \in Nat
  BY LenProperties
<1>2. f[0] = base /\ \A i \in 1 .. n : f[i] = Step(f[i - 1], text[i])
  BY <1>1, RunProperties
<1>. HIDE DEF f, n
<1>3. 0 \in S
  BY <1>1, <1>2
<1>4. ASSUME NEW i \in 1 .. n, i - 1 \in S PROVE i \in S
  <2>1. f[i] = Step(base, text[i])
    BY <1>2, <1>4
  <2>2. f[i] = base
    BY <2>1 DEF Step
  <2>. QED  BY <2>2
<1>. HIDE DEF S
<1>5. \A i \in 0 .. n : i \in S
  BY <1>1, <1>3, <1>4, Induction
<1>6. f[n] = base
  BY <1>1, <1>5 DEF S
<1>. QED  BY <1>6 DEF After, f, n

(* The characters a read is counted to have used are those that decided.   *)
LEMMA Consumed ==
    ASSUME NEW base, Sound(base), base.used = 0, base.result = "INDETERMINATE",
           NEW text \in Seq(Chars)
    PROVE  Run(base, text)[After(base, text).used] = After(base, text)
<1>. DEFINE f == Run(base, text)
            n == Len(text)
            S == {i \in 0 .. n : /\ f[i].result = "INDETERMINATE" => f[i].used = i
                                 /\ f[f[i].used] = f[i]}
<1>1. n \in Nat
  BY LenProperties
<1>2. f[0] = base /\ \A i \in 1 .. n : f[i] = Step(f[i - 1], text[i])
  BY <1>1, RunProperties
<1>3. \A i \in 0 .. n : f[i] \in Progress
  BY AfterSound DEF Sound, Progress
<1>. HIDE DEF f, n
<1>4. 0 \in S
  BY <1>1, <1>2
<1>5. ASSUME NEW i \in 1 .. n, i - 1 \in S PROVE i \in S
  <2>1. /\ f[i - 1].result = "INDETERMINATE" => f[i - 1].used = i - 1
        /\ f[f[i - 1].used] = f[i - 1]
        /\ f[i - 1] \in Progress /\ f[i] = Step(f[i - 1], text[i])
    BY <1>1, <1>2, <1>3, <1>5
  <2>2. CASE f[i - 1].result # "INDETERMINATE"
    <3>1. f[i] = f[i - 1]
      BY <2>1, <2>2 DEF Step
    <3>. QED  BY <2>1, <2>2, <3>1
  <2>3. CASE f[i - 1].result = "INDETERMINATE"
    <3>1. Step(f[i - 1], text[i]).used = f[i - 1].used + 1
      <4>1. CASE Verdict(f[i - 1], text[i]) = "INDETERMINATE"
        BY <2>1, <2>3, <4>1, FollowIs DEF Step
      <4>2. CASE Verdict(f[i - 1], text[i]) # "INDETERMINATE"
        BY <2>1, <2>3, <4>2 DEF Step, Progress
      <4>. QED  BY <4>1, <4>2
    <3>2. f[i].used = i
      BY <1>1, <2>1, <2>3, <3>1
    <3>. QED  BY <3>2
  <2>. QED  BY <2>2, <2>3
<1>. HIDE DEF S
<1>6. \A i \in 0 .. n : i \in S
  BY <1>1, <1>4, <1>5, Induction
<1>7. f[f[n].used] = f[n]
  BY <1>1, <1>6 DEF S
<1>. QED  BY <1>7 DEF After, f, n

(* ... so that those characters alone lead as far as the whole read.       *)
LEMMA ConsumedIsEnough ==
    ASSUME NEW base, Sound(base), base.used = 0, base.result = "INDETERMINATE",
           NEW text \in Seq(Chars)
    PROVE  /\ After(base, text).used \in 0 .. Len(text)
           /\ SubSeq(text, 1, After(base, text).used) \in Seq(Chars)
           /\ After(base, SubSeq(text, 1, After(base, text).used)) = After(base, text)
<1>. DEFINE n == Len(text)
            u == After(base, text).used
            t == SubSeq(text, 1, u)
<1>1. n \in Nat /\ u \in 0 .. n
  <2>1. Len(text) \in Nat
    BY LenProperties
  <2>. QED  BY <2>1, RunSound DEF After
<1>2. t \in Seq(Chars) /\ Len(t) = u /\ \A i \in 1 .. u : t[i] = text[i]
  <2>1. \A i \in 1 .. u : text[i] \in Chars
    <3>. HIDE DEF u
    <3>. QED  BY <1>1, ElementOfSeq
  <2>. HIDE DEF u
  <2>2. /\ t \in Seq(Chars)
        /\ Len(t) = IF 1 <= u THEN u - 1 + 1 ELSE 0
        /\ \A i \in 1 .. u - 1 + 1 : t[i] = text[1 + i - 1]
    BY <1>1, <2>1, SubSeqProperties
  <2>3. Len(t) = u
    BY <1>1, <2>2
  <2>4. ASSUME NEW i \in 1 .. u PROVE t[i] = text[i]
    <3>1. i \in 1 .. u - 1 + 1 /\ 1 + i - 1 = i
      BY <1>1
    <3>. HIDE DEF t
    <3>. QED  BY <2>2, <3>1
  <2>. QED  BY <2>2, <2>3, <2>4
<1>3. Run(base, text)[u] = After(base, text)
  BY Consumed
<1>. HIDE DEF u, t, n
<1>4. \A i \in 0 .. Len(t) : Run(base, t)[i] = Run(base, text)[i]
  <2>1. Len(t) \in Nat /\ Len(text) \in Nat /\ Len(t) <= Len(text)
    BY <1>1, <1>2 DEF n
  <2>. QED  BY <1>2, <2>1, SameRun
<1>5. Run(base, t)[u] = After(base, text)
  BY <1>1, <1>2, <1>3, <1>4
<1>. QED  BY <1>1, <1>2, <1>5 DEF After, u, t, n

(* What follows the first line break of two is the verdict, and nothing    *)
(* changes the request any more.                                           *)
LEMMA LastStays ==
    ASSUME NEW base, Sound(base), base.state = "EXPECTING_NEWLINE_3", NEW text \in Seq(Chars)
    PROVE  After(base, text).state = base.state /\ After(base, text).req = base.req
<1>. DEFINE f == Run(base, text)
            n == Len(text)
            S == {i \in 0 .. n : f[i].state = base.state /\ f[i].req = base.req}
<1>1. n \in Nat
  BY LenProperties
<1>2. f[0] = base /\ \A i \in 1 .. n : f[i] = Step(f[i - 1], text[i])
  BY <1>1, RunProperties
<1>3. \A i \in 0 .. n : f[i] \in Progress
  BY AfterSound DEF Sound, Progress
<1>. HIDE DEF f, n
<1>4. 0 \in S
  BY <1>1, <1>2
<1>5. ASSUME NEW i \in 1 .. n, i - 1 \in S PROVE i \in S
  <2>1. /\ f[i - 1].state = "EXPECTING_NEWLINE_3" /\ f[i - 1].req = base.req
        /\ f[i - 1] \in Progress /\ f[i] = Step(f[i - 1], text[i])
    BY <1>1, <1>2, <1>3, <1>5
  <2>2. Verdict(f[i - 1], text[i]) # "INDETERMINATE"
    BY <2>1, VerdictIs
  <2>3. f[i].state = f[i - 1].state /\ f[i].req = f[i - 1].req
    <3>. DEFINE p == f[i - 1]
                v == Verdict(p, text[i])
    <3>1. p \in Progress /\ v # "INDETERMINATE" /\ f[i] = Step(p, text[i])
      BY <2>1, <2>2
    <3>. HIDE DEF p
    <3>2. Step(p, text[i]) = p \/ Step(p, text[i]) = [p EXCEPT !.result = v, !.used = p.used + 1]
      BY <3>1 DEF Step
    <3>. HIDE DEF v
    <3>. QED  BY <3>1, <3>2 DEF Progress, p
  <2>. QED  BY <2>1, <2>3, <1>5
<1>. HIDE DEF S
<1>6. \A i \in 0 .. n : i \in S
  BY <1>1, <1>4, <1>5, Induction
<1>7. f[n].state = base.state /\ f[n].req = base.req
  BY <1>1, <1>6 DEF S
<1>. QED  BY <1>7 DEF After, f, n

LEMMA GoodIsLast ==
    ASSUME NEW base, Sound(base), base.result = "INDETERMINATE", NEW text \in Seq(Chars),
           After(base, text).result = "GOOD"
    PROVE  After(base, text).state = "EXPECTING_NEWLINE_3"
<1>. DEFINE f == Run(base, text)
            n == Len(text)
            S == {i \in 0 .. n : f[i].result = "GOOD" => f[i].state = "EXPECTING_NEWLINE_3"}
<1>1. n \in Nat
  BY LenProperties
<1>2. f[0] = base /\ \A i \in 1 .. n : f[i] = Step(f[i - 1], text[i])
  BY <1>1, RunProperties
<1>3. \A i \in 0 .. n : f[i] \in Progress
  BY AfterSound DEF Sound, Progress
<1>. HIDE DEF f, n
<1>4. 0 \in S
  BY <1>1, <1>2
<1>5. ASSUME NEW i \in 1 .. n, i - 1 \in S PROVE i \in S
  <2>. DEFINE p == f[i - 1]
              v == Verdict(p, text[i])
  <2>1. /\ p.result = "GOOD" => p.state = "EXPECTING_NEWLINE_3"
        /\ p \in Progress /\ f[i] = Step(p, text[i])
    BY <1>1, <1>2, <1>3, <1>5
  <2>. HIDE DEF p
  <2>2. CASE p.result # "INDETERMINATE"
    BY <2>1, <2>2 DEF Step
  <2>3. CASE p.result = "INDETERMINATE" /\ v = "INDETERMINATE"
    <3>1. Follow(p, text[i]).result = p.result
      BY <2>1, <2>3, FollowIs
    <3>2. f[i] = Follow(p, text[i])
      BY <2>1, <2>3 DEF Step
    <3>3. f[i].result # "GOOD"
      BY <2>3, <3>1, <3>2
    <3>. QED  BY <3>3
  <2>4. CASE p.result = "INDETERMINATE" /\ v # "INDETERMINATE"
    <3>1. Step(p, text[i]) = [p EXCEPT !.result = v, !.used = p.used + 1]
      BY <2>4 DEF Step
    <3>2. v = "GOOD" => p.state = "EXPECTING_NEWLINE_3"
      BY DEF Verdict
    <3>. HIDE DEF v
    <3>3. f[i].result = v /\ f[i].state = p.state
      BY <2>1, <3>1 DEF Progress
    <3>. QED  BY <3>2, <3>3
  <2>. QED  BY <2>2, <2>3, <2>4
<1>. HIDE DEF S
<1>6. \A i \in 0 .. n : i \in S
  BY <1>1, <1>4, <1>5, Induction
<1>7. f[n].result = "GOOD" => f[n].state = "EXPECTING_NEWLINE_3"
  BY <1>1, <1>6 DEF S
<1>. QED  BY <1>7 DEF After, f, n

(* The invariant: what one read of input would have brought is the verdict,*)
(* and until then the state and the request; a request that was GOOD stays.*)
Tracks(q) ==
    /\ q.result = verdict
    /\ verdict = "INDETERMINATE" => q.state = state /\ q.req = req
    /\ verdict = "GOOD" => state = "EXPECTING_NEWLINE_3" /\ q.req = req

Tracking == Tracks(After(Begin, input))

LEMMA InitTracking == Init => Tracking
<1>. SUFFICES ASSUME Init PROVE Tracking
  OBVIOUS
<1>1. After(Begin, input) = Begin
  BY AfterNothing DEF Init
<1>. QED  BY <1>1 DEF Tracking, Tracks, Init, Begin, Start

LEMMA ReadTracking ==
    ASSUME Typed, Tracking, NEW chunk \in Chunks, Read(chunk)
    PROVE  Tracking'
<1>. DEFINE base == Start(state, req)
            p == After(base, chunk)
            q == After(Begin, input)
<1>1. chunk \in Seq(Chars) /\ input \in Seq(Chars) /\ Sound(base) /\ Sound(Begin)
      /\ base.used = 0 /\ base.result = "INDETERMINATE" /\ base.state = state /\ base.req = req
  <2>1. chunk \in Seq(Chars) /\ input \in Seq(Chars) /\ Sound(base) /\ Sound(Begin)
    BY Assumed, StartSound, BeginSound DEF Typed, Texts
  <2>. QED  BY <2>1 DEF Start
<1>2. /\ state' = p.state /\ req' = p.req
      /\ verdict' = IF verdict = "INDETERMINATE" THEN p.result ELSE verdict
      /\ input' = IF verdict = "INDETERMINATE" THEN input \o SubSeq(chunk, 1, p.used) ELSE input
  BY ParseIsRun DEF Read
<1>3. /\ q.result = verdict
      /\ verdict = "INDETERMINATE" => q.state = state /\ q.req = req
      /\ verdict = "GOOD" => state = "EXPECTING_NEWLINE_3" /\ q.req = req
  BY DEF Tracking, Tracks
<1>4. Sound(q) /\ Sound(p)
  <2>1. \A i \in 0 .. Len(input) : Sound(Run(Begin, input)[i])
    BY <1>1, AfterSound
  <2>2. \A i \in 0 .. Len(chunk) : Sound(Run(base, chunk)[i])
    BY <1>1, AfterSound
  <2>3. Len(input) \in 0 .. Len(input) /\ Len(chunk) \in 0 .. Len(chunk)
    BY <1>1, LenProperties
  <2>. QED  BY <2>1, <2>2, <2>3 DEF After
<1>5. CASE verdict = "INDETERMINATE"
  <2>. DEFINE t == SubSeq(chunk, 1, p.used)
  <2>1. t \in Seq(Chars) /\ After(base, t) = p
    BY <1>1, ConsumedIsEnough
  <2>. HIDE DEF t
  <2>2. After(Begin, input \o t) = After(q, t)
    BY <1>1, <2>1, AfterConcat
  <2>3. Alike(base, q)
    <3>. HIDE DEF base, q
    <3>. QED  BY <1>1, <1>3, <1>5 DEF Alike
  <2>4. Alike(p, After(q, t))
    <3>1. Alike(After(base, t), After(q, t))
      <4>. HIDE DEF base, q
      <4>. QED  BY <1>1, <1>4, <2>1, <2>3, AfterAlike
    <3>. QED  BY <2>1, <3>1
  <2>5. p.result = "GOOD" => p.state = "EXPECTING_NEWLINE_3"
    BY <1>1, GoodIsLast
  <2>6. input' = input \o t /\ verdict' = p.result
    BY <1>2, <1>5 DEF t
  <2>7. After(Begin, input') = After(q, t)
    BY <2>2, <2>6
  <2>. HIDE DEF p, q, base
  <2>8. Tracks(After(Begin, input))'
    BY <1>2, <2>4, <2>5, <2>6, <2>7 DEF Tracks, Alike
  <2>. QED  BY <2>8 DEF Tracking
<1>6. CASE verdict # "INDETERMINATE"
  <2>1. input' = input /\ verdict' = verdict
    BY <1>2, <1>6
  <2>2. state = "EXPECTING_NEWLINE_3" => p.state = state /\ p.req = req
    BY <1>1, LastStays
  <2>3. After(Begin, input') = q
    BY <2>1
  <2>. HIDE DEF p, q, base
  <2>4. Tracks(After(Begin, input))'
    BY <1>2, <1>3, <1>6, <2>1, <2>2, <2>3 DEF Tracks
  <2>. QED  BY <2>4 DEF Tracking
<1>. QED  BY <1>5, <1>6

LEMMA NextTracking == Typed /\ Tracking /\ [Next]_vars => Tracking'
<1>. SUFFICES ASSUME Typed, Tracking, [Next]_vars PROVE Tracking'
  OBVIOUS
<1>1. CASE Next
  BY <1>1, ReadTracking DEF Next
<1>2. CASE UNCHANGED vars
  <2>1. state' = state /\ req' = req /\ input' = input /\ verdict' = verdict
    BY <1>2 DEF vars
  <2>. QED  BY <2>1 DEF Tracking, Tracks
<1>. QED  BY <1>1, <1>2

LEMMA Cuts == Spec => []Tracking
<1>. QED  BY InitTyped, NextTyped, InitTracking, NextTracking, PTL DEF Spec

-----------------------------------------------------------------------------
(* Where each character leads: in the states of one group of rules, those  *)
(* of that group decide.                                                   *)

Leads(s, r, c, to, does) ==
    /\ RulesFor(s, r, c) # {}
    /\ \A rule \in RulesFor(s, r, c) : rule.to = to /\ rule.does = does

NameChars == Chars \ (Control \cup {"COLON", "SP"})

LEMMA Classes ==
    /\ \A c \in Alpha : c # "SP"
    /\ \A c \in Digits : c # "DOT" /\ c # "CR"
    /\ {"H", "T", "P"} \subseteq Alpha
    /\ Named \subseteq Chars /\ Alpha \subseteq Chars /\ Digits \subseteq Chars
<1>1. (Alpha \cup Digits \cup Other) \cap Named = {}
  BY ParserAssumption, Zenon
<1>2. {"H", "T", "P", "Host", "Connection", "keep-alive"} \subseteq Alpha
  BY ParserAssumption, Zenon
<1>3. {"H", "T", "P"} \subseteq Alpha
  BY <1>2, Zenon
<1>. QED  BY <1>1, <1>3 DEF Named, Chars

LEMMA Groups ==
    /\ \A rule \in MethodRules : rule.from \in {"METHOD_START", "METHOD"}
    /\ \A rule \in UriRules : rule.from = "URI"
    /\ \A rule \in VersionRules :
          rule.from \in {"HTTP_VERSION_H", "HTTP_VERSION_T_1", "HTTP_VERSION_T_2", "HTTP_VERSION_P",
                         "HTTP_VERSION_SLASH", "HTTP_VERSION_MAJOR_START", "HTTP_VERSION_MAJOR",
                         "HTTP_VERSION_MINOR_START", "HTTP_VERSION_MINOR", "EXPECTING_NEWLINE_1"}
    /\ \A rule \in HeaderRules : rule.from \in Lines
<1>1. \A rule \in MethodRules : rule.from \in {"METHOD_START", "METHOD"}
  BY DEF MethodRules, Rule
<1>2. \A rule \in UriRules : rule.from = "URI"
  BY DEF UriRules, Rule
<1>3. \A rule \in VersionRules :
        rule.from \in {"HTTP_VERSION_H", "HTTP_VERSION_T_1", "HTTP_VERSION_T_2", "HTTP_VERSION_P",
                       "HTTP_VERSION_SLASH", "HTTP_VERSION_MAJOR_START", "HTTP_VERSION_MAJOR",
                       "HTTP_VERSION_MINOR_START", "HTTP_VERSION_MINOR", "EXPECTING_NEWLINE_1"}
  BY DEF VersionRules, Rule
<1>4. \A rule \in HeaderRules : rule.from \in Lines
  BY DEF HeaderRules, Rule, Lines
<1>. QED  BY <1>1, <1>2, <1>3, <1>4

(* A group that alone has rules for a state decides there.                 *)
LEMMA GroupDecides ==
    ASSUME NEW s, s # "HEADER_LINE_START", NEW r, NEW c, NEW to, NEW does,
           NEW group \in SUBSET FixedRules,
           \A rule \in FixedRules : rule.from = s => rule \in group,
           \E rule \in group : rule.from = s /\ c \in rule.on,
           \A rule \in group : rule.from = s /\ c \in rule.on => rule.to = to /\ rule.does = does
    PROVE  Leads(s, r, c, to, does)
BY DEF Leads, RulesFor

LEMMA MethodLeads ==
    ASSUME NEW r, NEW c
    PROVE  /\ c \in Alpha => Leads("METHOD_START", r, c, "METHOD", "method")
           /\ c \in Alpha => Leads("METHOD", r, c, "METHOD", "method")
           /\ Leads("METHOD", r, "SP", "URI", "skip")
<1>. DEFINE group == MethodRules
<1>1. group \in SUBSET FixedRules /\ \A rule \in FixedRules :
        rule.from \in {"METHOD_START", "METHOD"} => rule \in group
  BY Groups DEF FixedRules, Lines
<1>2. \A rule \in group :
        \/ /\ rule.from = "METHOD_START" /\ rule.on = Alpha
           /\ rule.to = "METHOD" /\ rule.does = "method"
        \/ /\ rule.from = "METHOD" /\ rule.on = Alpha
           /\ rule.to = "METHOD" /\ rule.does = "method"
        \/ rule.from = "METHOD" /\ rule.on = {"SP"} /\ rule.to = "URI" /\ rule.does = "skip"
  BY DEF MethodRules, Rule
<1>3. /\ \E rule \in group : rule.from = "METHOD_START" /\ rule.on = Alpha
      /\ \E rule \in group : rule.from = "METHOD" /\ rule.on = Alpha
      /\ \E rule \in group : rule.from = "METHOD" /\ rule.on = {"SP"}
  BY DEF MethodRules, Rule
<1>. HIDE DEF group
<1>4. ASSUME c \in Alpha PROVE Leads("METHOD_START", r, c, "METHOD", "method")
  BY <1>1, <1>2, <1>3, <1>4, GroupDecides
<1>5. ASSUME c \in Alpha PROVE Leads("METHOD", r, c, "METHOD", "method")
  BY <1>1, <1>2, <1>3, <1>5, Classes, GroupDecides
<1>6. Leads("METHOD", r, "SP", "URI", "skip")
  BY <1>1, <1>2, <1>3, Classes, GroupDecides
<1>. QED  BY <1>4, <1>5, <1>6

LEMMA UriLeads ==
    ASSUME NEW r, NEW c
    PROVE  /\ c \in UriChars => Leads("URI", r, c, "URI", "uri")
           /\ Leads("URI", r, "SP", "HTTP_VERSION_H", "skip")
<1>. DEFINE group == UriRules
<1>1. group \in SUBSET FixedRules /\ \A rule \in FixedRules : rule.from = "URI" => rule \in group
  BY Groups DEF FixedRules, Lines
<1>2. \A rule \in group :
        \/ rule.on = {"SP"} /\ rule.to = "HTTP_VERSION_H" /\ rule.does = "skip"
        \/ rule.on = UriChars /\ rule.to = "URI" /\ rule.does = "uri"
  BY DEF UriRules, Rule, UriChars
<1>3. /\ \E rule \in group : rule.from = "URI" /\ rule.on = {"SP"}
      /\ \E rule \in group : rule.from = "URI" /\ rule.on = UriChars
  BY DEF UriRules, Rule, UriChars
<1>4. "SP" \notin UriChars
  BY DEF UriChars
<1>. HIDE DEF group
<1>5. ASSUME c \in UriChars PROVE Leads("URI", r, c, "URI", "uri")
  BY <1>1, <1>2, <1>3, <1>4, <1>5, GroupDecides
<1>6. Leads("URI", r, "SP", "HTTP_VERSION_H", "skip")
  BY <1>1, <1>2, <1>3, <1>4, GroupDecides
<1>. QED  BY <1>5, <1>6

VersionWord(s, c, to) ==
    <<s, c, to>> \in {<<"HTTP_VERSION_H", "H", "HTTP_VERSION_T_1">>,
                      <<"HTTP_VERSION_T_1", "T", "HTTP_VERSION_T_2">>,
                      <<"HTTP_VERSION_T_2", "T", "HTTP_VERSION_P">>,
                      <<"HTTP_VERSION_P", "P", "HTTP_VERSION_SLASH">>,
                      <<"HTTP_VERSION_SLASH", "SLASH", "HTTP_VERSION_MAJOR_START">>,
                      <<"EXPECTING_NEWLINE_1", "LF", "HEADER_LINE_START">>}

LEMMA VersionWordLeads ==
    ASSUME NEW r, NEW s, NEW c, NEW to, VersionWord(s, c, to)
    PROVE  Leads(s, r, c, to, "skip")
<1>. DEFINE group == VersionRules
<1>1. /\ group \in SUBSET FixedRules
      /\ \A rule \in FixedRules : rule.from = s => rule \in group
      /\ s # "HEADER_LINE_START"
  BY Groups DEF FixedRules, Lines, VersionWord
<1>2. \A rule \in group : rule.from = s => rule.to = to /\ rule.does = "skip"
  BY DEF VersionRules, Rule, VersionWord
<1>3. \E rule \in group : rule.from = s /\ rule.on = {c}
  BY DEF VersionRules, Rule, VersionWord
<1>. HIDE DEF group
<1>. QED  BY <1>1, <1>2, <1>3, GroupDecides

LEMMA NumberLeads ==
    ASSUME NEW r, NEW c \in Digits
    PROVE  /\ Leads("HTTP_VERSION_MAJOR_START", r, c, "HTTP_VERSION_MAJOR", "setMajor")
           /\ Leads("HTTP_VERSION_MAJOR", r, "DOT", "HTTP_VERSION_MINOR_START", "skip")
           /\ Leads("HTTP_VERSION_MINOR_START", r, c, "HTTP_VERSION_MINOR", "setMinor")
           /\ Leads("HTTP_VERSION_MINOR", r, "CR", "EXPECTING_NEWLINE_1", "skip")
<1>. DEFINE group == VersionRules
            states == {"HTTP_VERSION_MAJOR_START", "HTTP_VERSION_MAJOR",
                       "HTTP_VERSION_MINOR_START", "HTTP_VERSION_MINOR"}
<1>1. group \in SUBSET FixedRules /\ \A rule \in FixedRules : rule.from \in states => rule \in group
  BY Groups DEF FixedRules, Lines
<1>2. \A rule \in group :
        /\ rule.from = "HTTP_VERSION_MAJOR_START" =>
              rule.to = "HTTP_VERSION_MAJOR" /\ rule.does = "setMajor"
        /\ rule.from = "HTTP_VERSION_MAJOR" =>
              \/ rule.to = "HTTP_VERSION_MINOR_START" /\ rule.does = "skip"
              \/ rule.on = Digits
        /\ rule.from = "HTTP_VERSION_MINOR_START" =>
              rule.to = "HTTP_VERSION_MINOR" /\ rule.does = "setMinor"
        /\ rule.from = "HTTP_VERSION_MINOR" =>
              \/ rule.to = "EXPECTING_NEWLINE_1" /\ rule.does = "skip"
              \/ rule.on = Digits
  BY DEF VersionRules, Rule
<1>3. /\ \E rule \in group : rule.from = "HTTP_VERSION_MAJOR_START" /\ rule.on = Digits
      /\ \E rule \in group : rule.from = "HTTP_VERSION_MAJOR" /\ rule.on = {"DOT"}
      /\ \E rule \in group : rule.from = "HTTP_VERSION_MINOR_START" /\ rule.on = Digits
      /\ \E rule \in group : rule.from = "HTTP_VERSION_MINOR" /\ rule.on = {"CR"}
  BY DEF VersionRules, Rule
<1>. HIDE DEF group
<1>4. Leads("HTTP_VERSION_MAJOR_START", r, c, "HTTP_VERSION_MAJOR", "setMajor")
  BY <1>1, <1>2, <1>3, GroupDecides
<1>5. Leads("HTTP_VERSION_MAJOR", r, "DOT", "HTTP_VERSION_MINOR_START", "skip")
  BY <1>1, <1>2, <1>3, Classes, GroupDecides
<1>6. Leads("HTTP_VERSION_MINOR_START", r, c, "HTTP_VERSION_MINOR", "setMinor")
  BY <1>1, <1>2, <1>3, GroupDecides
<1>7. Leads("HTTP_VERSION_MINOR", r, "CR", "EXPECTING_NEWLINE_1", "skip")
  BY <1>1, <1>2, <1>3, Classes, GroupDecides
<1>. QED  BY <1>4, <1>5, <1>6, <1>7

LEMMA HeaderLeads ==
    ASSUME NEW r, NEW c
    PROVE  /\ c \in NameChars => Leads("HEADER_NAME", r, c, "HEADER_NAME", "name")
           /\ Leads("HEADER_NAME", r, "COLON", "SPACE_BEFORE_HEADER_VALUE", "skip")
           /\ Leads("SPACE_BEFORE_HEADER_VALUE", r, "SP", "HEADER_VALUE", "skip")
           /\ c \in Chars \ Control => Leads("HEADER_VALUE", r, c, "HEADER_VALUE", "value")
           /\ Leads("HEADER_VALUE", r, "CR", "EXPECTING_NEWLINE_2", "skip")
           /\ Leads("EXPECTING_NEWLINE_2", r, "LF", "HEADER_LINE_START", "skip")
<1>. DEFINE group == HeaderRules
<1>1. group \in SUBSET FixedRules /\ \A rule \in FixedRules : rule.from \in Lines => rule \in group
  BY Groups DEF FixedRules, Lines
<1>2. \A rule \in group :
        /\ rule.from = "HEADER_NAME" =>
              \/ rule.on = {"COLON"} /\ rule.to = "SPACE_BEFORE_HEADER_VALUE" /\ rule.does = "skip"
              \/ rule.on = NameChars /\ rule.to = "HEADER_NAME" /\ rule.does = "name"
        /\ rule.from = "SPACE_BEFORE_HEADER_VALUE" =>
              rule.to = "HEADER_VALUE" /\ rule.does = "skip"
        /\ rule.from = "HEADER_VALUE" =>
              \/ rule.on = {"CR"} /\ rule.to = "EXPECTING_NEWLINE_2" /\ rule.does = "skip"
              \/ rule.on = Chars \ Control /\ rule.to = "HEADER_VALUE" /\ rule.does = "value"
        /\ rule.from = "EXPECTING_NEWLINE_2" =>
              rule.to = "HEADER_LINE_START" /\ rule.does = "skip"
  BY DEF HeaderRules, Rule, NameChars
<1>3. /\ \E rule \in group : rule.from = "HEADER_NAME" /\ rule.on = {"COLON"}
      /\ \E rule \in group : rule.from = "HEADER_NAME" /\ rule.on = NameChars
      /\ \E rule \in group : rule.from = "SPACE_BEFORE_HEADER_VALUE" /\ rule.on = {"SP"}
      /\ \E rule \in group : rule.from = "HEADER_VALUE" /\ rule.on = {"CR"}
      /\ \E rule \in group : rule.from = "HEADER_VALUE" /\ rule.on = Chars \ Control
      /\ \E rule \in group : rule.from = "EXPECTING_NEWLINE_2" /\ rule.on = {"LF"}
  BY DEF HeaderRules, Rule, NameChars
<1>4. "COLON" \notin NameChars /\ "CR" \notin Chars \ Control
  BY DEF NameChars, Control
<1>5. /\ "HEADER_NAME" \in Lines /\ "SPACE_BEFORE_HEADER_VALUE" \in Lines /\ "HEADER_VALUE" \in Lines
      /\ "EXPECTING_NEWLINE_2" \in Lines
  BY DEF Lines
<1>. HIDE DEF group
<1>6. ASSUME c \in NameChars PROVE Leads("HEADER_NAME", r, c, "HEADER_NAME", "name")
  BY <1>1, <1>2, <1>3, <1>4, <1>5, <1>6, GroupDecides
<1>7. Leads("HEADER_NAME", r, "COLON", "SPACE_BEFORE_HEADER_VALUE", "skip")
  BY <1>1, <1>2, <1>3, <1>4, <1>5, GroupDecides
<1>8. Leads("SPACE_BEFORE_HEADER_VALUE", r, "SP", "HEADER_VALUE", "skip")
  BY <1>1, <1>2, <1>3, <1>5, GroupDecides
<1>9. ASSUME c \in Chars \ Control PROVE Leads("HEADER_VALUE", r, c, "HEADER_VALUE", "value")
  BY <1>1, <1>2, <1>3, <1>4, <1>5, <1>9, GroupDecides
<1>10. Leads("HEADER_VALUE", r, "CR", "EXPECTING_NEWLINE_2", "skip")
  BY <1>1, <1>2, <1>3, <1>4, <1>5, GroupDecides
<1>11. Leads("EXPECTING_NEWLINE_2", r, "LF", "HEADER_LINE_START", "skip")
  BY <1>1, <1>2, <1>3, <1>5, GroupDecides
<1>. QED  BY <1>6, <1>7, <1>8, <1>9, <1>10, <1>11

LEMMA LineStartLeads ==
    ASSUME NEW r, NEW c
    PROVE  /\ c \in NameChars => Leads("HEADER_LINE_START", r, c, "HEADER_NAME", "newHeader")
           /\ Leads("HEADER_LINE_START", r, "CR", "EXPECTING_NEWLINE_3", "skip")
<1>1. \A rule \in LineStartRules(r) :
        /\ rule.from = "HEADER_LINE_START"
        /\ \/ rule.on = {"CR"} /\ rule.to = "EXPECTING_NEWLINE_3" /\ rule.does = "skip"
           \/ rule.on = NameChars /\ rule.to = "HEADER_NAME" /\ rule.does = "newHeader"
           \/ rule.on = {"SP", "TAB"}
  <2>1. CASE MayFold(r)
    BY <2>1 DEF LineStartRules, Rule, NameChars
  <2>2. CASE ~ MayFold(r)
    BY <2>2 DEF LineStartRules, Rule, NameChars
  <2>. QED  BY <2>1, <2>2
<1>2. /\ \E rule \in LineStartRules(r) : rule.from = "HEADER_LINE_START" /\ rule.on = {"CR"}
      /\ \E rule \in LineStartRules(r) : rule.from = "HEADER_LINE_START" /\ rule.on = NameChars
  <2>. DEFINE end == Rule("HEADER_LINE_START", {"CR"}, "EXPECTING_NEWLINE_3", "skip")
              new == Rule("HEADER_LINE_START", NameChars, "HEADER_NAME", "newHeader")
  <2>1. end \in LineStartRules(r) /\ new \in LineStartRules(r)
    BY DEF LineStartRules, NameChars
  <2>2. /\ end.from = "HEADER_LINE_START" /\ end.on = {"CR"}
        /\ new.from = "HEADER_LINE_START" /\ new.on = NameChars
    BY DEF Rule
  <2>. QED  BY <2>1, <2>2
<1>3. "CR" \notin NameChars /\ "SP" \notin NameChars /\ "TAB" \notin NameChars
  BY DEF NameChars, Control
<1>4. \A d : RulesFor("HEADER_LINE_START", r, d) = {rule \in LineStartRules(r) : d \in rule.on}
  BY <1>1 DEF RulesFor
<1>5. ASSUME c \in NameChars PROVE Leads("HEADER_LINE_START", r, c, "HEADER_NAME", "newHeader")
  BY <1>1, <1>2, <1>3, <1>4, <1>5 DEF Leads
<1>6. Leads("HEADER_LINE_START", r, "CR", "EXPECTING_NEWLINE_3", "skip")
  BY <1>1, <1>2, <1>3, <1>4 DEF Leads
<1>. QED  BY <1>5, <1>6

-----------------------------------------------------------------------------
(* Reading what a client wrote, a piece at a time.                         *)

Reading(p, s, r) == Sound(p) /\ p.state = s /\ p.req = r /\ p.result = "INDETERMINATE"

LEMMA Taken ==
    ASSUME NEW p, NEW s, NEW r, Reading(p, s, r), s # "EXPECTING_NEWLINE_3",
           NEW c \in Chars, NEW to, NEW does, Leads(s, r, c, to, does)
    PROVE  Reading(Step(p, c), to, Effect(does, r, c))
<1>1. Sound(p) /\ p \in Progress /\ p.state = s /\ p.req = r /\ p.result = "INDETERMINATE"
  BY DEF Reading, Sound, Progress
<1>2. Verdict(p, c) = "INDETERMINATE"
  BY <1>1 DEF Verdict, Leads
<1>3. PICK rule \in RulesFor(s, r, c) :
         Follow(p, c) = [state |-> rule.to, req |-> Effect(rule.does, r, c),
                         result |-> p.result, used |-> p.used + 1]
  BY <1>1, <1>2, FollowIs
<1>4. rule.to = to /\ rule.does = does
  BY <1>3 DEF Leads
<1>5. Step(p, c) = Follow(p, c)
  BY <1>1, <1>2 DEF Step
<1>6. Sound(Step(p, c))
  BY <1>1, StepSound
<1>7. Step(p, c).state = to /\ Step(p, c).req = Effect(does, r, c) /\ Step(p, c).result = "INDETERMINATE"
  BY <1>1, <1>3, <1>4, <1>5
<1>. QED  BY <1>6, <1>7 DEF Reading

LEMMA Skipped ==
    ASSUME NEW p, NEW s, NEW r, Reading(p, s, r), s # "EXPECTING_NEWLINE_3",
           NEW c \in Chars, NEW to, Leads(s, r, c, to, "skip")
    PROVE  Reading(Step(p, c), to, r)
<1>1. Effect("skip", r, c) = r
  BY DEF Effect
<1>2. Reading(Step(p, c), to, Effect("skip", r, c))
  BY Taken
<1>. QED  BY <1>1, <1>2

(* A word, through a state and a request for each of its beginnings.       *)
LEMMA Spelled ==
    ASSUME NEW p, NEW t \in Seq(Chars), NEW St, NEW R, Reading(p, St[0], R[0]),
           \A i \in 1 .. Len(t) :
              /\ St[i - 1] # "EXPECTING_NEWLINE_3"
              /\ \E does : /\ Leads(St[i - 1], R[i - 1], t[i], St[i], does)
                           /\ R[i] = Effect(does, R[i - 1], t[i])
    PROVE  Reading(After(p, t), St[Len(t)], R[Len(t)])
<1>. DEFINE f == Run(p, t)
            n == Len(t)
            S == {i \in 0 .. n : Reading(f[i], St[i], R[i])}
<1>1. n \in Nat /\ \A i \in 1 .. n : t[i] \in Chars
  BY ElementOfSeq, LenProperties
<1>2. f[0] = p /\ \A i \in 1 .. n : f[i] = Step(f[i - 1], t[i])
  BY <1>1, RunProperties
<1>. HIDE DEF f, n
<1>3. 0 \in S
  BY <1>1, <1>2
<1>4. ASSUME NEW i \in 1 .. n, i - 1 \in S PROVE i \in S
  <2>1. Reading(f[i - 1], St[i - 1], R[i - 1]) /\ t[i] \in Chars /\ St[i - 1] # "EXPECTING_NEWLINE_3"
    BY <1>1, <1>4 DEF n
  <2>2. PICK does : /\ Leads(St[i - 1], R[i - 1], t[i], St[i], does)
                    /\ R[i] = Effect(does, R[i - 1], t[i])
    BY <1>4 DEF n
  <2>3. Reading(Step(f[i - 1], t[i]), St[i], R[i])
    BY <2>1, <2>2, Taken
  <2>4. Reading(f[i], St[i], R[i])
    BY <1>2, <2>3
  <2>. QED  BY <2>4
<1>. HIDE DEF S
<1>5. \A i \in 0 .. n : i \in S
  BY <1>1, <1>3, <1>4, Induction
<1>6. Reading(f[n], St[n], R[n])
  BY <1>1, <1>5 DEF S
<1>. QED  BY <1>6 DEF After, f, n

(* A request by its parts, and what is added to them.                      *)
Req(m, u, a, b, hs) == [method |-> m, uri |-> u, major |-> a, minor |-> b, headers |-> hs]
Header(n, v) == [name |-> n, value |-> v]
Headers == [name : Texts, value : Texts]

LEMMA BackOfAppend ==
    ASSUME NEW H, NEW hs \in Seq(H), NEW g \in H, NEW h \in H
    PROVE  /\ Append(hs, g)[Len(Append(hs, g))] = g
           /\ [Append(hs, g) EXCEPT ![Len(Append(hs, g))] = h] = Append(hs, h)
<1>. DEFINE gs == Append(hs, g)
            n == Len(hs)
            es == [gs EXCEPT ![Len(gs)] = h]
            as == Append(hs, h)
<1>1. /\ n \in Nat /\ gs \in Seq(H) /\ Len(gs) = n + 1 /\ gs[n + 1] = g
      /\ \A i \in 1 .. n : gs[i] = hs[i]
      /\ as \in Seq(H) /\ Len(as) = n + 1 /\ as[n + 1] = h /\ \A i \in 1 .. n : as[i] = hs[i]
  BY AppendProperties, LenProperties
<1>2. es \in Seq(H) /\ Len(es) = Len(gs)
      /\ \A j \in 1 .. Len(gs) : es[j] = IF j = Len(gs) THEN h ELSE gs[j]
  <2>1. Len(gs) \in 1 .. Len(gs)
    BY <1>1
  <2>. HIDE DEF gs
  <2>. QED  BY <1>1, <2>1, ExceptSeq
<1>. HIDE DEF gs, n, es, as
<1>3. ASSUME NEW j \in 1 .. Len(es) PROVE es[j] = as[j]
  <2>1. j \in 1 .. Len(gs) /\ (j = n + 1 \/ j \in 1 .. n)
    BY <1>1, <1>2
  <2>2. CASE j = n + 1
    BY <1>1, <1>2, <2>1, <2>2
  <2>3. CASE j \in 1 .. n
    <3>1. j # Len(gs)
      BY <1>1, <2>3
    <3>. QED  BY <1>1, <1>2, <2>1, <2>3, <3>1
  <2>. QED  BY <2>1, <2>2, <2>3
<1>4. es = as
  BY <1>1, <1>2, <1>3, SeqEqual
<1>. QED  BY <1>1, <1>4 DEF gs, n, es, as

LEMMA EffectOnBack ==
    ASSUME NEW m, NEW u, NEW a, NEW b, NEW hs \in Seq(Headers),
           NEW n \in Texts, NEW v \in Texts, NEW c \in Chars
    PROVE  /\ Effect("name", Req(m, u, a, b, Append(hs, Header(n, v))), c) =
                 Req(m, u, a, b, Append(hs, Header(Append(n, c), v)))
           /\ Effect("value", Req(m, u, a, b, Append(hs, Header(n, v))), c) =
                 Req(m, u, a, b, Append(hs, Header(n, Append(v, c))))
<1>. DEFINE H == Headers
            h == Header(n, v)
            gs == Append(hs, h)
            r == Req(m, u, a, b, gs)
<1>0. hs \in Seq(H) /\ \A x, y \in Texts : Header(x, y) \in H
  BY DEF Header, Headers
<1>1. /\ h \in H /\ Header(Append(n, c), v) \in H /\ Header(n, Append(v, c)) \in H
      /\ [h EXCEPT !.name = Append(h.name, c)] = Header(Append(n, c), v)
      /\ [h EXCEPT !.value = Append(h.value, c)] = Header(n, Append(v, c))
  <2>1. Append(n, c) \in Texts /\ Append(v, c) \in Texts
    BY DEF Texts
  <2>2. h \in H /\ Header(Append(n, c), v) \in H /\ Header(n, Append(v, c)) \in H
    <3>. HIDE DEF H
    <3>. QED  BY <1>0, <2>1
  <2>3. h.name = n /\ h.value = v
    BY DEF Header
  <2>4. \A x : [h EXCEPT !.name = x] = Header(x, v) /\ [h EXCEPT !.value = x] = Header(n, x)
    BY DEF Header
  <2>. HIDE DEF h
  <2>5. /\ [h EXCEPT !.name = Append(h.name, c)] = Header(Append(n, c), v)
        /\ [h EXCEPT !.value = Append(h.value, c)] = Header(n, Append(v, c))
    BY <2>3, <2>4
  <2>. QED  BY <2>2, <2>5
<1>2. r.headers = gs
  BY DEF Req
<1>. HIDE DEF H, h
<1>3. gs[Len(gs)] = h
  BY <1>0, <1>1, BackOfAppend
<1>4. Back(r) = h
  BY <1>2, <1>3 DEF Back
<1>5. ASSUME NEW e \in H PROVE SetBack(r, e) = Req(m, u, a, b, Append(hs, e))
  <2>1. [gs EXCEPT ![Len(gs)] = e] = Append(hs, e)
    BY <1>0, <1>1, <1>5, BackOfAppend
  <2>2. SetBack(r, e) = Req(m, u, a, b, [gs EXCEPT ![Len(gs)] = e])
    <3>. HIDE DEF gs
    <3>. QED  BY DEF SetBack, Req
  <2>. QED  BY <2>1, <2>2
<1>6. /\ Effect("name", r, c) = SetBack(r, [Back(r) EXCEPT !.name = Append(Back(r).name, c)])
      /\ Effect("value", r, c) = SetBack(r, [Back(r) EXCEPT !.value = Append(Back(r).value, c)])
  BY DEF Effect
<1>. HIDE DEF r
<1>7. Effect("name", r, c) = Req(m, u, a, b, Append(hs, Header(Append(n, c), v)))
  BY <1>1, <1>4, <1>5, <1>6
<1>8. Effect("value", r, c) = Req(m, u, a, b, Append(hs, Header(n, Append(v, c))))
  BY <1>1, <1>4, <1>5, <1>6
<1>. QED  BY <1>7, <1>8 DEF r, gs, h

LEMMA NameEffect ==
    ASSUME NEW m, NEW u, NEW a, NEW b, NEW hs \in Seq(Headers), NEW n \in Texts, NEW v \in Texts,
           NEW c \in Chars
    PROVE  Effect("name", Req(m, u, a, b, Append(hs, Header(n, v))), c) =
              Req(m, u, a, b, Append(hs, Header(Append(n, c), v)))
BY EffectOnBack

LEMMA ValueEffect ==
    ASSUME NEW m, NEW u, NEW a, NEW b, NEW hs \in Seq(Headers), NEW n \in Texts, NEW v \in Texts,
           NEW c \in Chars
    PROVE  Effect("value", Req(m, u, a, b, Append(hs, Header(n, v))), c) =
              Req(m, u, a, b, Append(hs, Header(n, Append(v, c))))
BY EffectOnBack

LEMMA AppendToNothing == ASSUME NEW c PROVE Append(<<>>, c) = <<c>>
OBVIOUS

LEMMA Beginnings ==
    ASSUME NEW S, NEW t \in Seq(S)
    PROVE  /\ Len(t) \in Nat
           /\ SubSeq(t, 1, 0) = <<>> /\ SubSeq(t, 1, Len(t)) = t
           /\ \A i \in 1 .. Len(t) : /\ t[i] \in S
                                     /\ SubSeq(t, 1, i - 1) \in Seq(S)
                                     /\ SubSeq(t, 1, i) = Append(SubSeq(t, 1, i - 1), t[i])
<1>1. Len(t) \in Nat /\ SubSeq(t, 1, 0) = <<>> /\ SubSeq(t, 1, Len(t)) = t
  BY LenProperties, SubSeqEmpty, SubSeqFull
<1>2. ASSUME NEW i \in 1 .. Len(t)
      PROVE  /\ t[i] \in S
             /\ SubSeq(t, 1, i - 1) \in Seq(S)
             /\ SubSeq(t, 1, i) = Append(SubSeq(t, 1, i - 1), t[i])
  <2>1. t[i] \in S
    BY ElementOfSeq
  <2>2. SubSeq(t, 1, i - 1) \in Seq(S)
    <3>1. \A j \in 1 .. i - 1 : j \in 1 .. Len(t)
      BY <1>1
    <3>2. \A j \in 1 .. i - 1 : t[j] \in S
      BY <3>1, ElementOfSeq
    <3>3. 1 \in Int /\ i - 1 \in Int
      OBVIOUS
    <3>. QED  BY <3>2, <3>3, SubSeqProperties
  <2>3. SubSeq(t, 1, i) = SubSeq(t, 1, i - 1) \o <<t[i]>>
    <3>1. 1 \in 1 .. Len(t) /\ i \in 1 .. Len(t)
      BY <1>1
    <3>. QED  BY <3>1, SubSeqRecursiveSecond
  <2>4. Append(SubSeq(t, 1, i - 1), t[i]) = SubSeq(t, 1, i - 1) \o <<t[i]>>
    BY <2>1, <2>2, AppendIsConcat
  <2>. QED  BY <2>1, <2>2, <2>3, <2>4
<1>. QED  BY <1>1, <1>2

LEMMA AreChars ==
    /\ Seq(Alpha) \subseteq Seq(Chars) /\ Seq(UriChars) \subseteq Seq(Chars)
    /\ Seq(NameChars) \subseteq Seq(Chars) /\ Seq(Chars \ Control) \subseteq Seq(Chars)
BY Classes DEF UriChars, NameChars

LEMMA MethodRead ==
    ASSUME NEW u, NEW a, NEW b, NEW hs, NEW m \in Seq(Alpha), m # <<>>,
           NEW p, Reading(p, "METHOD_START", Req(<<>>, u, a, b, hs))
    PROVE  Reading(After(p, m), "METHOD", Req(m, u, a, b, hs))
<1>. DEFINE n == Len(m)
            St == [i \in 0 .. n |-> IF i = 0 THEN "METHOD_START" ELSE "METHOD"]
            R == [i \in 0 .. n |-> Req(SubSeq(m, 1, i), u, a, b, hs)]
<1>1. n \in Nat /\ n # 0
  BY LenProperties, EmptySeq
<1>. HIDE DEF n
<1>2. /\ St[0] = "METHOD_START" /\ St[n] = "METHOD"
      /\ \A i \in 1 .. n : St[i] = "METHOD" /\ St[i - 1] \in {"METHOD_START", "METHOD"}
  BY <1>1
<1>3. \A i \in 0 .. n : R[i] = Req(SubSeq(m, 1, i), u, a, b, hs)
  OBVIOUS
<1>. HIDE DEF St, R
<1>4. R[0] = Req(<<>>, u, a, b, hs) /\ R[n] = Req(m, u, a, b, hs)
  <2>1. R[0] = Req(SubSeq(m, 1, 0), u, a, b, hs) /\ R[n] = Req(SubSeq(m, 1, n), u, a, b, hs)
    BY <1>1, <1>3
  <2>2. SubSeq(m, 1, 0) = <<>> /\ SubSeq(m, 1, n) = m
    BY Beginnings DEF n
  <2>. QED  BY <2>1, <2>2, Zenon
<1>5. ASSUME NEW i \in 1 .. n
      PROVE  /\ St[i - 1] # "EXPECTING_NEWLINE_3"
             /\ \E does : /\ Leads(St[i - 1], R[i - 1], m[i], St[i], does)
                          /\ R[i] = Effect(does, R[i - 1], m[i])
  <2>1. m[i] \in Alpha /\ SubSeq(m, 1, i) = Append(SubSeq(m, 1, i - 1), m[i])
    BY Beginnings DEF n
  <2>2. i \in 0 .. n /\ i - 1 \in 0 .. n
    BY <1>1
  <2>3. Effect("method", R[i - 1], m[i]) = R[i]
    <3>1. /\ R[i - 1] = Req(SubSeq(m, 1, i - 1), u, a, b, hs)
          /\ R[i] = Req(Append(SubSeq(m, 1, i - 1), m[i]), u, a, b, hs)
      BY <1>3, <2>1, <2>2
    <3>. DEFINE w == SubSeq(m, 1, i - 1)
    <3>. HIDE DEF w
    <3>2. Effect("method", Req(w, u, a, b, hs), m[i]) = Req(Append(w, m[i]), u, a, b, hs)
      BY DEF Effect, Req
    <3>. QED  BY <3>1, <3>2, Zenon DEF w
  <2>4. Leads(St[i - 1], R[i - 1], m[i], St[i], "method")
    BY <1>2, <2>1, MethodLeads
  <2>. QED  BY <1>2, <2>3, <2>4
<1>6. m \in Seq(Chars)
  BY AreChars
<1>7. Reading(p, St[0], R[0])
  BY <1>2, <1>4
<1>8. Reading(After(p, m), St[n], R[n])
  BY <1>5, <1>6, <1>7, Spelled DEF n
<1>. QED  BY <1>2, <1>4, <1>8

LEMMA UriRead ==
    ASSUME NEW m, NEW a, NEW b, NEW hs, NEW u \in Seq(UriChars),
           NEW p, Reading(p, "URI", Req(m, <<>>, a, b, hs))
    PROVE  Reading(After(p, u), "URI", Req(m, u, a, b, hs))
<1>. DEFINE n == Len(u)
            St == [i \in 0 .. n |-> "URI"]
            R == [i \in 0 .. n |-> Req(m, SubSeq(u, 1, i), a, b, hs)]
<1>1. n \in Nat
  BY LenProperties
<1>. HIDE DEF n
<1>2. \A i \in 0 .. n : St[i] = "URI" /\ R[i] = Req(m, SubSeq(u, 1, i), a, b, hs)
  OBVIOUS
<1>. HIDE DEF St, R
<1>3. R[0] = Req(m, <<>>, a, b, hs) /\ R[n] = Req(m, u, a, b, hs)
  <2>1. R[0] = Req(m, SubSeq(u, 1, 0), a, b, hs) /\ R[n] = Req(m, SubSeq(u, 1, n), a, b, hs)
    BY <1>1, <1>2
  <2>2. SubSeq(u, 1, 0) = <<>> /\ SubSeq(u, 1, n) = u
    BY Beginnings DEF n
  <2>. QED  BY <2>1, <2>2, Zenon
<1>4. ASSUME NEW i \in 1 .. n
      PROVE  /\ St[i - 1] # "EXPECTING_NEWLINE_3"
             /\ \E does : /\ Leads(St[i - 1], R[i - 1], u[i], St[i], does)
                          /\ R[i] = Effect(does, R[i - 1], u[i])
  <2>1. u[i] \in UriChars /\ SubSeq(u, 1, i) = Append(SubSeq(u, 1, i - 1), u[i])
    BY Beginnings DEF n
  <2>2. i \in 0 .. n /\ i - 1 \in 0 .. n
    BY <1>1
  <2>3. Effect("uri", R[i - 1], u[i]) = R[i]
    <3>1. /\ R[i - 1] = Req(m, SubSeq(u, 1, i - 1), a, b, hs)
          /\ R[i] = Req(m, Append(SubSeq(u, 1, i - 1), u[i]), a, b, hs)
      BY <1>2, <2>1, <2>2
    <3>. DEFINE w == SubSeq(u, 1, i - 1)
    <3>. HIDE DEF w
    <3>2. Effect("uri", Req(m, w, a, b, hs), u[i]) = Req(m, Append(w, u[i]), a, b, hs)
      BY DEF Effect, Req
    <3>. QED  BY <3>1, <3>2, Zenon DEF w
  <2>4. Leads(St[i - 1], R[i - 1], u[i], St[i], "uri")
    BY <1>2, <2>1, <2>2, UriLeads
  <2>. QED  BY <1>2, <2>2, <2>3, <2>4
<1>5. u \in Seq(Chars) /\ St[0] = "URI" /\ St[n] = "URI"
  BY <1>1, <1>2, AreChars
<1>6. Reading(p, St[0], R[0])
  BY <1>3, <1>5
<1>7. Reading(After(p, u), St[n], R[n])
  BY <1>4, <1>5, <1>6, Spelled DEF n
<1>. QED  BY <1>3, <1>5, <1>7

LEMMA AfterTwo ==
    ASSUME NEW p, NEW c \in Chars, NEW d \in Chars
    PROVE  After(p, <<c, d>>) = Step(Step(p, c), d)
<1>1. <<c, d>> = Append(<<c>>, d) /\ <<c>> \in Seq(Chars)
  OBVIOUS
<1>2. After(p, Append(<<c>>, d)) = Step(After(p, <<c>>), d)
  BY <1>1, AfterAppend
<1>. QED  BY <1>1, <1>2, AfterOne

VersionText == <<"SP", "H", "T", "T", "P", "SLASH">>

LEMMA VersionTextRead ==
    ASSUME NEW p, NEW r, Reading(p, "URI", r)
    PROVE  Reading(After(p, VersionText), "HTTP_VERSION_MAJOR_START", r)
<1>. DEFINE t == VersionText
            f == Run(p, t)
<1>1. /\ Len(t) = 6 /\ t[1] = "SP" /\ t[2] = "H" /\ t[3] = "T" /\ t[4] = "T" /\ t[5] = "P"
      /\ t[6] = "SLASH"
  BY DEF VersionText
<1>. HIDE DEF t
<1>2. f[0] = p /\ \A i \in 1 .. Len(t) : f[i] = Step(f[i - 1], t[i])
  <2>1. Len(t) \in Nat
    BY <1>1
  <2>. QED  BY <2>1, RunProperties
<1>. HIDE DEF f
<1>3. /\ f[1] = Step(p, "SP") /\ f[2] = Step(f[1], "H") /\ f[3] = Step(f[2], "T")
      /\ f[4] = Step(f[3], "T") /\ f[5] = Step(f[4], "P") /\ f[6] = Step(f[5], "SLASH")
  <2>1. /\ f[1] = Step(f[1 - 1], t[1]) /\ f[2] = Step(f[2 - 1], t[2]) /\ f[3] = Step(f[3 - 1], t[3])
        /\ f[4] = Step(f[4 - 1], t[4]) /\ f[5] = Step(f[5 - 1], t[5]) /\ f[6] = Step(f[6 - 1], t[6])
    BY <1>1, <1>2
  <2>. QED  BY <1>1, <1>2, <2>1
<1>4. "SP" \in Chars /\ "H" \in Chars /\ "T" \in Chars /\ "P" \in Chars /\ "SLASH" \in Chars
  BY Classes DEF Named
<1>5. /\ VersionWord("HTTP_VERSION_H", "H", "HTTP_VERSION_T_1")
      /\ VersionWord("HTTP_VERSION_T_1", "T", "HTTP_VERSION_T_2")
      /\ VersionWord("HTTP_VERSION_T_2", "T", "HTTP_VERSION_P")
      /\ VersionWord("HTTP_VERSION_P", "P", "HTTP_VERSION_SLASH")
      /\ VersionWord("HTTP_VERSION_SLASH", "SLASH", "HTTP_VERSION_MAJOR_START")
  BY DEF VersionWord
<1>6. Reading(f[1], "HTTP_VERSION_H", r)
  BY <1>3, <1>4, UriLeads, Skipped
<1>7. Reading(f[2], "HTTP_VERSION_T_1", r)
  BY <1>3, <1>4, <1>5, <1>6, VersionWordLeads, Skipped
<1>8. Reading(f[3], "HTTP_VERSION_T_2", r)
  BY <1>3, <1>4, <1>5, <1>7, VersionWordLeads, Skipped
<1>9. Reading(f[4], "HTTP_VERSION_P", r)
  BY <1>3, <1>4, <1>5, <1>8, VersionWordLeads, Skipped
<1>10. Reading(f[5], "HTTP_VERSION_SLASH", r)
  BY <1>3, <1>4, <1>5, <1>9, VersionWordLeads, Skipped
<1>11. Reading(f[6], "HTTP_VERSION_MAJOR_START", r)
  BY <1>3, <1>4, <1>5, <1>10, VersionWordLeads, Skipped
<1>. QED  BY <1>1, <1>11 DEF After, f, t

LEMMA ValueOfNumeral ==
    ASSUME NEW n \in 0 .. 9
    PROVE  Value(Numerals[n + 1]) = n
<1>1. \A k \in 0 .. 9 : Numerals[k + 1] = Numerals[n + 1] => k = n
  BY DEF Numerals
<1>. QED  BY <1>1 DEF Value

(* The version: a digit, a dot and a digit, and the end of the line.       *)
LEMMA NumbersRead ==
    ASSUME NEW m, NEW u, NEW a0, NEW b0, NEW hs, NEW a \in 0 .. 9, NEW b \in 0 .. 9,
           Numerals[a + 1] \in Digits, Numerals[b + 1] \in Digits,
           NEW p, Reading(p, "HTTP_VERSION_MAJOR_START", Req(m, u, a0, b0, hs))
    PROVE  LET p1 == After(p, <<Numerals[a + 1]>>)
               p2 == After(p1, <<"DOT">>)
               p3 == After(p2, <<Numerals[b + 1]>>)
           IN Reading(After(p3, CRLF), "HEADER_LINE_START", Req(m, u, a, b, hs))
<1>. DEFINE c == Numerals[a + 1]
            d == Numerals[b + 1]
            p1 == Step(p, c)
            p2 == Step(p1, "DOT")
            p3 == Step(p2, d)
            p4 == Step(p3, "CR")
            p5 == Step(p4, "LF")
<1>1. /\ After(p, <<c>>) = p1 /\ After(p1, <<"DOT">>) = p2 /\ After(p2, <<d>>) = p3
      /\ After(p3, CRLF) = p5
  BY AfterOne, AfterTwo, Classes DEF CRLF, Named
<1>2. /\ c \in Chars /\ d \in Chars /\ c \in Digits /\ d \in Digits
      /\ "DOT" \in Chars /\ "CR" \in Chars /\ "LF" \in Chars
  BY Classes DEF Named
<1>3. Value(c) = a /\ Value(d) = b
  BY ValueOfNumeral
<1>. HIDE DEF c, d
<1>4. Reading(p1, "HTTP_VERSION_MAJOR", Req(m, u, a, b0, hs))
  <2>1. Effect("setMajor", Req(m, u, a0, b0, hs), c) = Req(m, u, a, b0, hs)
    BY <1>3 DEF Effect, Req
  <2>2. Leads("HTTP_VERSION_MAJOR_START", Req(m, u, a0, b0, hs), c, "HTTP_VERSION_MAJOR", "setMajor")
    BY <1>2, NumberLeads
  <2>3. Reading(p1, "HTTP_VERSION_MAJOR", Effect("setMajor", Req(m, u, a0, b0, hs), c))
    BY <1>2, <2>2, Taken
  <2>. QED  BY <2>1, <2>3
<1>. HIDE DEF p1
<1>5. Reading(p2, "HTTP_VERSION_MINOR_START", Req(m, u, a, b0, hs))
  BY <1>2, <1>4, NumberLeads, Skipped
<1>. HIDE DEF p2
<1>6. Reading(p3, "HTTP_VERSION_MINOR", Req(m, u, a, b, hs))
  <2>1. Effect("setMinor", Req(m, u, a, b0, hs), d) = Req(m, u, a, b, hs)
    BY <1>3 DEF Effect, Req
  <2>2. Leads("HTTP_VERSION_MINOR_START", Req(m, u, a, b0, hs), d, "HTTP_VERSION_MINOR", "setMinor")
    BY <1>2, NumberLeads
  <2>3. Reading(p3, "HTTP_VERSION_MINOR", Effect("setMinor", Req(m, u, a, b0, hs), d))
    BY <1>2, <1>5, <2>2, Taken
  <2>. QED  BY <2>1, <2>3
<1>. HIDE DEF p3
<1>7. Reading(p4, "EXPECTING_NEWLINE_1", Req(m, u, a, b, hs))
  BY <1>2, <1>6, NumberLeads, Skipped
<1>. HIDE DEF p4
<1>8. Reading(p5, "HEADER_LINE_START", Req(m, u, a, b, hs))
  <2>1. VersionWord("EXPECTING_NEWLINE_1", "LF", "HEADER_LINE_START")
    BY DEF VersionWord
  <2>. QED  BY <1>2, <1>7, <2>1, VersionWordLeads, Skipped
<1>. QED  BY <1>1, <1>8 DEF c, d

LEMMA NameRead ==
    ASSUME NEW m, NEW u, NEW a, NEW b, NEW hs \in Seq(Headers),
           NEW n \in Seq(NameChars), n # <<>>,
           NEW p, Reading(p, "HEADER_LINE_START", Req(m, u, a, b, hs))
    PROVE  Reading(After(p, n), "HEADER_NAME", Req(m, u, a, b, Append(hs, Header(n, <<>>))))
<1>. DEFINE l == Len(n)
            St == [i \in 0 .. l |-> IF i = 0 THEN "HEADER_LINE_START" ELSE "HEADER_NAME"]
            R == [i \in 0 .. l |-> IF i = 0 THEN Req(m, u, a, b, hs)
                                   ELSE Req(m, u, a, b, Append(hs, Header(SubSeq(n, 1, i), <<>>)))]
<1>1. l \in Nat /\ l # 0
  BY LenProperties, EmptySeq
<1>. HIDE DEF l
<1>2. /\ St[0] = "HEADER_LINE_START" /\ R[0] = Req(m, u, a, b, hs)
      /\ \A i \in 1 .. l : /\ St[i] = "HEADER_NAME"
                           /\ R[i] = Req(m, u, a, b, Append(hs, Header(SubSeq(n, 1, i), <<>>)))
  BY <1>1
<1>. HIDE DEF St, R
<1>3. ASSUME NEW i \in 1 .. l
      PROVE  /\ St[i - 1] # "EXPECTING_NEWLINE_3"
             /\ \E does : /\ Leads(St[i - 1], R[i - 1], n[i], St[i], does)
                          /\ R[i] = Effect(does, R[i - 1], n[i])
  <2>. DEFINE w == SubSeq(n, 1, i - 1)
  <2>1. n[i] \in NameChars /\ w \in Seq(NameChars) /\ SubSeq(n, 1, i) = Append(w, n[i])
    BY Beginnings DEF l
  <2>2. R[i] = Req(m, u, a, b, Append(hs, Header(Append(w, n[i]), <<>>))) /\ St[i] = "HEADER_NAME"
    BY <1>2, <2>1
  <2>3. CASE i = 1
    <3>1. w = <<>>
      BY <2>3, Beginnings
    <3>2. Append(w, n[i]) = <<n[i]>>
      BY <3>1, AppendToNothing
    <3>. HIDE DEF w
    <3>3. R[i - 1] = Req(m, u, a, b, hs) /\ St[i - 1] = "HEADER_LINE_START"
      BY <1>2, <2>3
    <3>4. Effect("newHeader", R[i - 1], n[i]) = R[i]
      <4>1. Effect("newHeader", Req(m, u, a, b, hs), n[i])
               = Req(m, u, a, b, Append(hs, Header(<<n[i]>>, <<>>)))
        BY DEF Effect, Req, Header
      <4>. QED  BY <2>2, <3>2, <3>3, <4>1
    <3>5. Leads(St[i - 1], R[i - 1], n[i], St[i], "newHeader")
      BY <2>1, <2>2, <3>3, LineStartLeads
    <3>. QED  BY <3>3, <3>4, <3>5
  <2>4. CASE i # 1
    <3>1. i - 1 \in 1 .. l
      BY <1>1, <2>4
    <3>2. R[i - 1] = Req(m, u, a, b, Append(hs, Header(w, <<>>))) /\ St[i - 1] = "HEADER_NAME"
      BY <1>2, <3>1
    <3>3. w \in Texts /\ <<>> \in Texts /\ n[i] \in Chars
      BY <2>1, AreChars DEF Texts, NameChars
    <3>. HIDE DEF w
    <3>4. Effect("name", R[i - 1], n[i]) = R[i]
      <4>1. Effect("name", Req(m, u, a, b, Append(hs, Header(w, <<>>))), n[i])
               = Req(m, u, a, b, Append(hs, Header(Append(w, n[i]), <<>>)))
        BY <3>3, NameEffect
      <4>. QED  BY <2>2, <3>2, <4>1
    <3>5. Leads(St[i - 1], R[i - 1], n[i], St[i], "name")
      BY <2>1, <2>2, <3>2, HeaderLeads
    <3>. QED  BY <3>2, <3>4, <3>5
  <2>. QED  BY <2>3, <2>4
<1>4. n \in Seq(Chars) /\ Reading(p, St[0], R[0])
  BY <1>2, AreChars
<1>5. Reading(After(p, n), St[l], R[l])
  BY <1>3, <1>4, Spelled DEF l
<1>6. l \in 1 .. l /\ SubSeq(n, 1, l) = n
  BY <1>1, Beginnings DEF l
<1>7. St[l] = "HEADER_NAME" /\ R[l] = Req(m, u, a, b, Append(hs, Header(n, <<>>)))
  BY <1>2, <1>6
<1>. QED  BY <1>5, <1>7

LEMMA ValueRead ==
    ASSUME NEW m, NEW u, NEW a, NEW b, NEW hs \in Seq(Headers),
           NEW n \in Texts, NEW v \in Seq(Chars \ Control),
           NEW p, Reading(p, "HEADER_VALUE", Req(m, u, a, b, Append(hs, Header(n, <<>>))))
    PROVE  Reading(After(p, v), "HEADER_VALUE", Req(m, u, a, b, Append(hs, Header(n, v))))
<1>. DEFINE l == Len(v)
            St == [i \in 0 .. l |-> "HEADER_VALUE"]
            R == [i \in 0 .. l |-> Req(m, u, a, b, Append(hs, Header(n, SubSeq(v, 1, i))))]
<1>1. l \in Nat
  BY LenProperties
<1>. HIDE DEF l
<1>2. \A i \in 0 .. l : /\ St[i] = "HEADER_VALUE"
                        /\ R[i] = Req(m, u, a, b, Append(hs, Header(n, SubSeq(v, 1, i))))
  OBVIOUS
<1>. HIDE DEF St, R
<1>3. ASSUME NEW i \in 1 .. l
      PROVE  /\ St[i - 1] # "EXPECTING_NEWLINE_3"
             /\ \E does : /\ Leads(St[i - 1], R[i - 1], v[i], St[i], does)
                          /\ R[i] = Effect(does, R[i - 1], v[i])
  <2>. DEFINE w == SubSeq(v, 1, i - 1)
  <2>1. v[i] \in Chars \ Control /\ w \in Seq(Chars \ Control) /\ SubSeq(v, 1, i) = Append(w, v[i])
    BY Beginnings DEF l
  <2>2. i \in 0 .. l /\ i - 1 \in 0 .. l
    BY <1>1
  <2>3. /\ R[i] = Req(m, u, a, b, Append(hs, Header(n, Append(w, v[i])))) /\ St[i] = "HEADER_VALUE"
        /\ R[i - 1] = Req(m, u, a, b, Append(hs, Header(n, w))) /\ St[i - 1] = "HEADER_VALUE"
    BY <1>2, <2>1, <2>2
  <2>4. w \in Texts /\ v[i] \in Chars
    BY <2>1, AreChars DEF Texts
  <2>. HIDE DEF w
  <2>5. Effect("value", R[i - 1], v[i]) = R[i]
    <3>1. Effect("value", Req(m, u, a, b, Append(hs, Header(n, w))), v[i])
             = Req(m, u, a, b, Append(hs, Header(n, Append(w, v[i]))))
      BY <2>4, ValueEffect
    <3>. QED  BY <2>3, <3>1
  <2>6. Leads(St[i - 1], R[i - 1], v[i], St[i], "value")
    BY <2>1, <2>3, HeaderLeads
  <2>. QED  BY <2>3, <2>5, <2>6
<1>4. /\ R[0] = Req(m, u, a, b, Append(hs, Header(n, <<>>)))
      /\ R[l] = Req(m, u, a, b, Append(hs, Header(n, v)))
      /\ St[0] = "HEADER_VALUE" /\ St[l] = "HEADER_VALUE"
  <2>1. /\ R[0] = Req(m, u, a, b, Append(hs, Header(n, SubSeq(v, 1, 0))))
        /\ R[l] = Req(m, u, a, b, Append(hs, Header(n, SubSeq(v, 1, l))))
        /\ St[0] = "HEADER_VALUE" /\ St[l] = "HEADER_VALUE"
    BY <1>1, <1>2
  <2>2. SubSeq(v, 1, 0) = <<>> /\ SubSeq(v, 1, l) = v
    BY Beginnings DEF l
  <2>. QED  BY <2>1, <2>2, Zenon
<1>5. v \in Seq(Chars) /\ Reading(p, St[0], R[0])
  BY <1>4, AreChars
<1>6. Reading(After(p, v), St[l], R[l])
  BY <1>3, <1>5, Spelled DEF l
<1>. QED  BY <1>4, <1>6

LEMMA HeaderRead ==
    ASSUME NEW m, NEW u, NEW a, NEW b, NEW hs \in Seq(Field), NEW h \in Field,
           NEW p, Reading(p, "HEADER_LINE_START", Req(m, u, a, b, hs))
    PROVE  /\ HeaderText(h) \in Seq(Chars)
           /\ Reading(After(p, HeaderText(h)), "HEADER_LINE_START", Req(m, u, a, b, Append(hs, h)))
<1>. DEFINE n == h.name
            v == h.value
            sep == <<"COLON", "SP">>
            p1 == After(p, n)
            p2 == After(p1, sep)
            p3 == After(p2, v)
            r0 == Req(m, u, a, b, Append(hs, Header(n, <<>>)))
            r1 == Req(m, u, a, b, Append(hs, h))
<1>1. /\ n \in Seq(NameChars) /\ n # <<>> /\ v \in Seq(Chars \ Control) /\ h = Header(n, v)
  BY DEF Field, NameChars, Header
<1>2. hs \in Seq(Headers)
  <2>1. Field \subseteq Headers
    BY AreChars DEF Field, Headers, Texts, NameChars
  <2>. QED  BY <2>1
<1>3. "COLON" \in Chars /\ "SP" \in Chars /\ "CR" \in Chars /\ "LF" \in Chars
  BY Classes DEF Named
<1>4. sep \in Seq(Chars) /\ CRLF \in Seq(Chars) /\ n \in Seq(Chars) /\ v \in Seq(Chars)
  BY <1>1, <1>3, AreChars DEF CRLF
<1>. HIDE DEF n, v
<1>5. Reading(p1, "HEADER_NAME", r0)
  BY <1>1, <1>2, NameRead
<1>6. Reading(p2, "HEADER_VALUE", r0)
  <2>1. p2 = Step(Step(p1, "COLON"), "SP")
    BY <1>3, AfterTwo
  <2>. HIDE DEF p1, r0
  <2>2. Reading(Step(p1, "COLON"), "SPACE_BEFORE_HEADER_VALUE", r0)
    BY <1>3, <1>5, HeaderLeads, Skipped
  <2>. QED  BY <1>3, <2>1, <2>2, HeaderLeads, Skipped
<1>7. Reading(p3, "HEADER_VALUE", r1)
  <2>1. n \in Texts
    BY <1>4 DEF Texts
  <2>. HIDE DEF p2
  <2>2. Reading(p3, "HEADER_VALUE", Req(m, u, a, b, Append(hs, Header(n, v))))
    BY <1>1, <1>2, <1>6, <2>1, ValueRead
  <2>. QED  BY <1>1, <2>2
<1>8. Reading(After(p3, CRLF), "HEADER_LINE_START", r1)
  <2>1. After(p3, CRLF) = Step(Step(p3, "CR"), "LF")
    BY <1>3, AfterTwo DEF CRLF
  <2>. HIDE DEF p3, r1
  <2>2. Reading(Step(p3, "CR"), "EXPECTING_NEWLINE_2", r1)
    BY <1>3, <1>7, HeaderLeads, Skipped
  <2>. QED  BY <1>3, <2>1, <2>2, HeaderLeads, Skipped
<1>9. HeaderText(h) = n \o sep \o v \o CRLF
  BY DEF HeaderText, n, v
<1>. HIDE DEF sep
<1>10. n \o sep \in Seq(Chars) /\ n \o sep \o v \in Seq(Chars) /\ n \o sep \o v \o CRLF \in Seq(Chars)
  BY <1>4, ConcatProperties
<1>11. /\ After(p, n \o sep) = p2
       /\ After(p, n \o sep \o v) = p3
       /\ After(p, n \o sep \o v \o CRLF) = After(p3, CRLF)
  <2>1. After(p, n \o sep) = p2
    BY <1>4, AfterConcat
  <2>. HIDE DEF p2
  <2>2. After(p, n \o sep \o v) = p3
    BY <1>4, <1>10, <2>1, AfterConcat
  <2>. HIDE DEF p3
  <2>3. After(p, n \o sep \o v \o CRLF) = After(p3, CRLF)
    BY <1>4, <1>10, <2>2, AfterConcat
  <2>. QED  BY <2>1, <2>2, <2>3
<1>. QED  BY <1>8, <1>9, <1>10, <1>11

(* Header lines one after another: what FlattenSeq() makes of their texts. *)
IsFlat(texts, n, f) == f = [i \in 1 .. n |-> IF i = 1 THEN texts[i] ELSE f[i - 1] \o texts[i]]

LEMMA FlatExists ==
    ASSUME NEW texts, NEW n \in Nat
    PROVE  \E f : IsFlat(texts, n, f)
<1>. DEFINE S == {k \in 0 .. n : \E f : IsFlat(texts, k, f)}
<1>1. 0 \in S
  <2>. DEFINE f == [i \in 1 .. 0 |-> texts[i]]
  <2>1. f = [i \in 1 .. 0 |-> IF i = 1 THEN texts[i] ELSE f[i - 1] \o texts[i]]
    OBVIOUS
  <2>. HIDE DEF f
  <2>2. IsFlat(texts, 0, f)
    BY <2>1 DEF IsFlat
  <2>. QED  BY <2>2
<1>2. ASSUME NEW k \in 1 .. n, k - 1 \in S PROVE k \in S
  <2>1. PICK f : IsFlat(texts, k - 1, f)
    BY <1>2
  <2>2. \A i \in 1 .. (k - 1) : f[i] = IF i = 1 THEN texts[i] ELSE f[i - 1] \o texts[i]
    BY <2>1 DEF IsFlat
  <2>. DEFINE new == IF k = 1 THEN texts[k] ELSE f[k - 1] \o texts[k]
              g == [i \in 1 .. k |-> IF i = k THEN new ELSE f[i]]
  <2>3. ASSUME NEW i \in 1 .. k
        PROVE  g[i] = IF i = 1 THEN texts[i] ELSE g[i - 1] \o texts[i]
    <3>1. i # 1 => i - 1 \in 1 .. k /\ i - 1 # k /\ g[i - 1] = f[i - 1]
      OBVIOUS
    <3>2. CASE i = k
      <4>1. g[i] = new
        BY <3>2
      <4>. HIDE DEF g
      <4>. QED  BY <3>1, <3>2, <4>1
    <3>3. CASE i # k
      <4>1. i \in 1 .. (k - 1) /\ g[i] = f[i]
        BY <3>3
      <4>. HIDE DEF g
      <4>. QED  BY <2>2, <3>1, <4>1
    <3>. QED  BY <3>2, <3>3
  <2>4. g = [i \in 1 .. k |-> IF i = 1 THEN texts[i] ELSE g[i - 1] \o texts[i]]
    <3>1. g = [i \in 1 .. k |-> g[i]]
      OBVIOUS
    <3>. HIDE DEF g
    <3>. QED  BY <2>3, <3>1
  <2>. HIDE DEF g
  <2>5. IsFlat(texts, k, g)
    BY <2>4 DEF IsFlat
  <2>. QED  BY <2>5
<1>. HIDE DEF S
<1>3. \A k \in 0 .. n : k \in S
  BY <1>1, <1>2, Induction
<1>4. n \in S
  BY <1>3
<1>. QED  BY <1>4 DEF S

LEMMA FlattenIs ==
    ASSUME NEW texts, Len(texts) \in Nat \ {0}
    PROVE  \E f : /\ f[1] = texts[1]
                  /\ \A i \in 2 .. Len(texts) : f[i] = f[i - 1] \o texts[i]
                  /\ FlattenSeq(texts) = f[Len(texts)]
<1>. DEFINE n == Len(texts)
            f == CHOOSE g : IsFlat(texts, n, g)
<1>1. IsFlat(texts, n, f)
  BY FlatExists
<1>2. FlattenSeq(texts) = f[n]
  BY DEF FlattenSeq, IsFlat
<1>. HIDE DEF f
<1>3. \A i \in 1 .. n : f[i] = IF i = 1 THEN texts[i] ELSE f[i - 1] \o texts[i]
  BY <1>1 DEF IsFlat
<1>4. f[1] = texts[1] /\ \A i \in 2 .. n : f[i] = f[i - 1] \o texts[i]
  <2>1. n \in Nat \ {0}
    OBVIOUS
  <2>. HIDE DEF n
  <2>2. 1 \in 1 .. n
    BY <2>1
  <2>3. f[1] = texts[1]
    BY <1>3, <2>2
  <2>4. ASSUME NEW i \in 2 .. n PROVE f[i] = f[i - 1] \o texts[i]
    <3>1. i \in 1 .. n /\ i # 1
      BY <2>1
    <3>. QED  BY <1>3, <3>1
  <2>. QED  BY <2>3, <2>4
<1>. QED  BY <1>2, <1>4

LEMMA HeadersRead ==
    ASSUME NEW m, NEW u, NEW a, NEW b, NEW hs \in Seq(Field),
           NEW p, Reading(p, "HEADER_LINE_START", Req(m, u, a, b, <<>>))
    PROVE  LET text == FlattenSeq([i \in 1 .. Len(hs) |-> HeaderText(hs[i])])
           IN /\ text \in Seq(Chars)
              /\ Reading(After(p, text), "HEADER_LINE_START", Req(m, u, a, b, hs))
<1>. DEFINE n == Len(hs)
            texts == [i \in 1 .. n |-> HeaderText(hs[i])]
            text == FlattenSeq(texts)
<1>1. n \in Nat /\ \A i \in 1 .. n : hs[i] \in Field
  BY ElementOfSeq, LenProperties
<1>2. Len(texts) = n /\ \A i \in 1 .. n : texts[i] = HeaderText(hs[i])
  BY <1>1
<1>3. CASE n = 0
  <2>1. hs = <<>>
    BY <1>3, EmptySeq
  <2>2. text = <<>>
    <3>1. texts = <<>>
      BY <1>3
    <3>. HIDE DEF texts
    <3>. QED  BY <3>1, EmptySeq DEF FlattenSeq
  <2>3. text \in Seq(Chars) /\ Reading(After(p, text), "HEADER_LINE_START", Req(m, u, a, b, hs))
    <3>. HIDE DEF text
    <3>1. After(p, text) = p
      BY <2>2, AfterNothing
    <3>2. text \in Seq(Chars)
      BY <2>2
    <3>. QED  BY <2>1, <3>1, <3>2
  <2>. QED  BY <2>3 DEF text, texts, n
<1>4. CASE n # 0
  <2>. HIDE DEF texts
  <2>1. PICK f : /\ f[1] = texts[1]
                 /\ \A i \in 2 .. n : f[i] = f[i - 1] \o texts[i]
                 /\ text = f[n]
    <3>1. Len(texts) \in Nat \ {0}
      BY <1>1, <1>2, <1>4
    <3>. QED  BY <1>2, <3>1, FlattenIs
  <2>. HIDE DEF n, text
  <2>. DEFINE Read1(i) == /\ f[i] \in Seq(Chars)
                          /\ Reading(After(p, f[i]), "HEADER_LINE_START", Req(m, u, a, b, SubSeq(hs, 1, i)))
              S == {i \in 0 .. n : i = 0 \/ Read1(i)}
  <2>2. 0 \in S
    BY <1>1
  <2>3. ASSUME NEW i \in 1 .. n, i - 1 \in S PROVE i \in S
    <3>. DEFINE w == SubSeq(hs, 1, i - 1)
                q == IF i = 1 THEN p ELSE After(p, f[i - 1])
    <3>1. hs[i] \in Field /\ w \in Seq(Field) /\ SubSeq(hs, 1, i) = Append(w, hs[i])
      BY Beginnings DEF n
    <3>2. Reading(q, "HEADER_LINE_START", Req(m, u, a, b, w))
      <4>1. CASE i = 1
        <5>1. w = <<>>
          BY <4>1, Beginnings
        <5>2. q = p
          BY <4>1
        <5>. HIDE DEF w, q
        <5>. QED  BY <5>1, <5>2
      <4>2. CASE i # 1
        <5>1. Read1(i - 1)
          BY <1>1, <2>3, <4>2
        <5>. QED  BY <4>2, <5>1
      <4>. QED  BY <4>1, <4>2
    <3>. HIDE DEF w, q
    <3>3. /\ HeaderText(hs[i]) \in Seq(Chars)
          /\ Reading(After(q, HeaderText(hs[i])), "HEADER_LINE_START", Req(m, u, a, b, Append(w, hs[i])))
      BY <3>1, <3>2, HeaderRead
    <3>4. f[i] \in Seq(Chars) /\ After(p, f[i]) = After(q, HeaderText(hs[i]))
      <4>1. CASE i = 1
        BY <1>2, <2>1, <3>3, <4>1 DEF q
      <4>2. CASE i # 1
        <5>1. Read1(i - 1) /\ i \in 2 .. n
          BY <1>1, <2>3, <4>2
        <5>2. f[i] = f[i - 1] \o HeaderText(hs[i])
          BY <1>2, <2>1, <5>1
        <5>3. f[i - 1] \in Seq(Chars)
          BY <5>1
        <5>4. f[i] \in Seq(Chars)
          BY <3>3, <5>2, <5>3, ConcatProperties
        <5>5. After(p, f[i - 1] \o HeaderText(hs[i])) = After(After(p, f[i - 1]), HeaderText(hs[i]))
          BY <3>3, <5>3, AfterConcat
        <5>. QED  BY <4>2, <5>2, <5>4, <5>5 DEF q
      <4>. QED  BY <4>1, <4>2
    <3>5. Read1(i)
      BY <3>1, <3>3, <3>4
    <3>. QED  BY <3>5
  <2>. HIDE DEF S
  <2>4. \A i \in 0 .. n : i \in S
    BY <1>1, <2>2, <2>3, Induction
  <2>5. Read1(n)
    BY <1>1, <1>4, <2>4 DEF S
  <2>6. SubSeq(hs, 1, n) = hs
    BY Beginnings DEF n
  <2>7. text \in Seq(Chars) /\ Reading(After(p, text), "HEADER_LINE_START", Req(m, u, a, b, hs))
    BY <2>1, <2>5, <2>6
  <2>. QED  BY <2>7 DEF text, texts, n
<1>. QED  BY <1>3, <1>4

LEMMA AfterMore ==
    ASSUME NEW p, NEW q, NEW t \in Seq(Chars), After(p, t) = q, NEW u \in Seq(Chars)
    PROVE  t \o u \in Seq(Chars) /\ After(p, t \o u) = After(q, u)
BY AfterConcat, ConcatProperties

LEMMA Parts ==
    ASSUME NEW r \in Requests
    PROVE  /\ r.method \in Seq(Alpha) /\ r.method # <<>> /\ r.uri \in Seq(UriChars)
           /\ r.major \in 0 .. 9 /\ r.minor \in 0 .. 9 /\ r.headers \in Seq(Field)
           /\ r = Req(r.method, r.uri, r.major, r.minor, r.headers)
           /\ Numerals[r.major + 1] \in Digits /\ Numerals[r.minor + 1] \in Digits
<1>1. Requests \subseteq Written
  BY ParserAssumption, Zenon
<1>2. {Numerals[r.major + 1], Numerals[r.minor + 1]} \subseteq Digits
  BY ParserAssumption, Zenon
<1>3. r \in Written
  BY <1>1
<1>4. /\ r.method \in Seq(Alpha) /\ r.method # <<>> /\ r.uri \in Seq(UriChars)
      /\ r.major \in 0 .. 9 /\ r.minor \in 0 .. 9 /\ r.headers \in Seq(Field)
  <2>. HIDE DEF Field
  <2>. QED  BY <1>3 DEF Written, UriChars
<1>5. r = Req(r.method, r.uri, r.major, r.minor, r.headers)
  BY <1>3 DEF Written, Req
<1>. QED  BY <1>2, <1>4, <1>5

(* The end of the last line, and the empty line after it.                  *)
LEMMA EndRead ==
    ASSUME NEW r, NEW p, Reading(p, "HEADER_LINE_START", r)
    PROVE  After(p, CRLF).result = "GOOD" /\ After(p, CRLF).req = r
<1>1. "CR" \in Chars /\ "LF" \in Chars
  BY Classes DEF Named
<1>2. After(p, CRLF) = Step(Step(p, "CR"), "LF")
  BY <1>1, AfterTwo DEF CRLF
<1>. DEFINE q == Step(p, "CR")
<1>3. Reading(q, "EXPECTING_NEWLINE_3", r)
  BY <1>1, LineStartLeads, Skipped
<1>. HIDE DEF q
<1>4. Sound(q) /\ q \in Progress /\ q.state = "EXPECTING_NEWLINE_3" /\ q.req = r /\ q.result = "INDETERMINATE"
  BY <1>3 DEF Reading, Sound, Progress
<1>5. Verdict(q, "LF") = "GOOD"
  BY <1>4 DEF Verdict
<1>6. Step(q, "LF") = [q EXCEPT !.result = "GOOD", !.used = @ + 1]
  BY <1>4, <1>5 DEF Step
<1>7. Step(q, "LF").result = "GOOD" /\ Step(q, "LF").req = r
  BY <1>4, <1>6 DEF Progress
<1>. QED  BY <1>2, <1>7 DEF q

(* What is written is accepted, and is the request that is built.          *)
LEMMA Accepts ==
    ASSUME NEW r \in Requests
    PROVE  /\ Text(r) \in Seq(Chars)
           /\ After(Begin, Text(r)).result = "GOOD"
           /\ After(Begin, Text(r)).req = r
<1>. DEFINE m == r.method
            u == r.uri
            a == r.major
            b == r.minor
            hs == r.headers
            lines == FlattenSeq([i \in 1 .. Len(hs) |-> HeaderText(hs[i])])
            sp == <<"SP">>
            dot == <<"DOT">>
            major == <<Numerals[a + 1]>>
            minor == <<Numerals[b + 1]>>
            p1 == After(Begin, m)
            p2 == After(p1, sp)
            p3 == After(p2, u)
            p4 == After(p3, VersionText)
            p5 == After(p4, major)
            p6 == After(p5, dot)
            p7 == After(p6, minor)
            p8 == After(p7, CRLF)
            p9 == After(p8, lines)
<1>1. /\ m \in Seq(Alpha) /\ m # <<>> /\ u \in Seq(UriChars) /\ a \in 0 .. 9 /\ b \in 0 .. 9
      /\ hs \in Seq(Field) /\ r = Req(m, u, a, b, hs)
      /\ Numerals[a + 1] \in Digits /\ Numerals[b + 1] \in Digits
  BY Parts
<1>2. Text(r) = m \o sp \o u \o VersionText \o major \o dot \o minor \o CRLF \o lines
                \o CRLF
  BY DEF Text, TextOf, VersionText
<1>. HIDE DEF m, u, a, b, hs
<1>3. Reading(Begin, "METHOD_START", Req(<<>>, <<>>, Unset, Unset, <<>>))
  <2>1. EmptyRequest = Req(<<>>, <<>>, Unset, Unset, <<>>)
    BY DEF EmptyRequest, Req
  <2>2. Begin.state = "METHOD_START" /\ Begin.req = EmptyRequest /\ Begin.result = "INDETERMINATE"
    BY DEF Begin, Start
  <2>. QED  BY <2>1, <2>2, BeginSound DEF Reading
<1>4. Reading(p1, "METHOD", Req(m, <<>>, Unset, Unset, <<>>))
  BY <1>1, <1>3, MethodRead
<1>. HIDE DEF p1
<1>5. Reading(p2, "URI", Req(m, <<>>, Unset, Unset, <<>>))
  <2>1. "SP" \in Chars
    BY Classes DEF Named
  <2>2. p2 = Step(p1, "SP")
    BY AfterOne
  <2>. QED  BY <1>4, <2>1, <2>2, MethodLeads, Skipped
<1>. HIDE DEF p2
<1>6. Reading(p3, "URI", Req(m, u, Unset, Unset, <<>>))
  BY <1>1, <1>5, UriRead
<1>. HIDE DEF p3
<1>7. Reading(p4, "HTTP_VERSION_MAJOR_START", Req(m, u, Unset, Unset, <<>>))
  BY <1>6, VersionTextRead
<1>. HIDE DEF p4
<1>8. Reading(p8, "HEADER_LINE_START", Req(m, u, a, b, <<>>))
  BY <1>1, <1>7, NumbersRead
<1>. HIDE DEF p5, p6, p7, p8
<1>9. lines \in Seq(Chars) /\ Reading(p9, "HEADER_LINE_START", Req(m, u, a, b, hs))
  BY <1>1, <1>8, HeadersRead
<1>. HIDE DEF lines, p9
<1>10. After(p9, CRLF).result = "GOOD" /\ After(p9, CRLF).req = r
  BY <1>1, <1>9, EndRead
<1>11. /\ m \in Seq(Chars) /\ u \in Seq(Chars) /\ VersionText \in Seq(Chars)
       /\ sp \in Seq(Chars) /\ dot \in Seq(Chars) /\ CRLF \in Seq(Chars)
       /\ major \in Seq(Chars) /\ minor \in Seq(Chars)
  <2>1. m \in Seq(Chars) /\ u \in Seq(Chars)
    BY <1>1, AreChars
  <2>2. {"SP", "DOT", "CR", "LF", "SLASH", "H", "T", "P"} \subseteq Chars
    BY Classes DEF Named
  <2>3. VersionText \in Seq(Chars)
    BY <2>2 DEF VersionText
  <2>4. Numerals[a + 1] \in Chars /\ Numerals[b + 1] \in Chars
    BY <1>1, Classes
  <2>5. sp \in Seq(Chars) /\ dot \in Seq(Chars) /\ CRLF \in Seq(Chars)
    BY <2>2 DEF CRLF
  <2>6. major \in Seq(Chars) /\ minor \in Seq(Chars)
    BY <2>4
  <2>. HIDE DEF sp, dot, major, minor
  <2>. QED  BY <2>1, <2>3, <2>5, <2>6
<1>. HIDE DEF sp, dot, major, minor
<1>. DEFINE t2 == m \o sp
            t3 == t2 \o u
            t4 == t3 \o VersionText
            t5 == t4 \o major
            t6 == t5 \o dot
            t7 == t6 \o minor
            t8 == t7 \o CRLF
            t9 == t8 \o lines
<1>12. t2 \in Seq(Chars) /\ After(Begin, t2) = p2
  BY <1>11, AfterMore DEF p1, p2
<1>. HIDE DEF t2
<1>13. t3 \in Seq(Chars) /\ After(Begin, t3) = p3
  BY <1>11, <1>12, AfterMore DEF p3
<1>. HIDE DEF t3
<1>14. t4 \in Seq(Chars) /\ After(Begin, t4) = p4
  BY <1>11, <1>13, AfterMore DEF p4
<1>. HIDE DEF t4
<1>15. t5 \in Seq(Chars) /\ After(Begin, t5) = p5
  BY <1>11, <1>14, AfterMore DEF p5
<1>. HIDE DEF t5
<1>16. t6 \in Seq(Chars) /\ After(Begin, t6) = p6
  BY <1>11, <1>15, AfterMore DEF p6
<1>. HIDE DEF t6
<1>17. t7 \in Seq(Chars) /\ After(Begin, t7) = p7
  BY <1>11, <1>16, AfterMore DEF p7
<1>. HIDE DEF t7
<1>18. t8 \in Seq(Chars) /\ After(Begin, t8) = p8
  BY <1>11, <1>17, AfterMore DEF p8
<1>. HIDE DEF t8
<1>19. t9 \in Seq(Chars) /\ After(Begin, t9) = p9
  BY <1>9, <1>18, AfterMore DEF p9
<1>. HIDE DEF t9
<1>20. t9 \o CRLF \in Seq(Chars) /\ After(Begin, t9 \o CRLF) = After(p9, CRLF)
  BY <1>11, <1>19, AfterMore
<1>21. Text(r) = t9 \o CRLF
  BY <1>2 DEF t2, t3, t4, t5, t6, t7, t8, t9
<1>. QED  BY <1>10, <1>20, <1>21

(* The text of a request goes on where a beginning of it ends.             *)
LEMMA GoesOn ==
    ASSUME NEW t \in Seq(Chars), NEW s \in Seq(Chars), IsPrefix(s, t)
    PROVE  \E rest \in Seq(Chars) : t = s \o rest
<1>. DEFINE n == Len(s)
            rest == SubSeq(t, n + 1, Len(t))
<1>1. /\ n \in Nat /\ Len(t) \in Nat /\ n <= Len(t)
      /\ s = SubSeq(t, 1, n)
  BY LenProperties DEF IsPrefix
<1>2. rest \in Seq(Chars)
  BY <1>1
<1>3. t = s \o rest
  <2>1. SubSeq(t, 1, Len(t)) = t
    BY <1>1, SubSeqFull
  <2>2. 1 \in 1 .. (Len(t) + 1) /\ n \in (1 - 1) .. Len(t) /\ Len(t) \in n .. Len(t)
    BY <1>1
  <2>. HIDE DEF n
  <2>3. SubSeq(t, 1, n) \o SubSeq(t, n + 1, Len(t)) = SubSeq(t, 1, Len(t))
    BY <2>2, ConcatAdjacentSubSeq
  <2>. QED  BY <1>1, <2>1, <2>3
<1>. QED  BY <1>2, <1>3

LEMMA TracesAccept == Typed /\ Tracking => WrittenIsAccepted
<1>. SUFFICES ASSUME Typed, Tracking, NEW r \in Requests
              PROVE  /\ IsPrefix(input, Text(r)) => verdict # "BAD"
                     /\ input = Text(r) => verdict = "GOOD" /\ req = r
  BY DEF WrittenIsAccepted
<1>. DEFINE q == After(Begin, input)
<1>1. input \in Seq(Chars)
  BY DEF Typed, TypeOK, Texts
<1>2. q.result = verdict /\ (q.result = "GOOD" => q.req = req)
  BY DEF Tracking, Tracks
<1>3. /\ Text(r) \in Seq(Chars)
      /\ After(Begin, Text(r)).result = "GOOD" /\ After(Begin, Text(r)).req = r
  BY Accepts
<1>4. ASSUME IsPrefix(input, Text(r)), verdict = "BAD" PROVE FALSE
  <2>1. PICK rest \in Seq(Chars) : Text(r) = input \o rest
    BY <1>1, <1>3, <1>4, GoesOn
  <2>2. After(Begin, Text(r)) = After(q, rest)
    BY <1>1, <2>1, AfterConcat
  <2>. HIDE DEF q
  <2>3. After(q, rest) = q
    BY <1>2, <1>4, Decided
  <2>. QED  BY <1>2, <1>3, <1>4, <2>2, <2>3
<1>5. ASSUME input = Text(r) PROVE verdict = "GOOD" /\ req = r
  BY <1>2, <1>3, <1>5
<1>. QED  BY <1>4, <1>5

(* What a client writes is accepted, wherever the network cuts it: while   *)
(* the characters that do_read() gave to parse() are the beginning of the  *)
(* text of a request, no call has returned BAD; when they are that text,   *)
(* the last call returned GOOD, and the request that parse() has built is  *)
(* the one written, for every request of letters, digits and headers that  *)
(* Written describes.                                                      *)
THEOREM WrittenAccepted == Spec => []WrittenIsAccepted
BY Typing, Cuts, TracesAccept, PTL

-----------------------------------------------------------------------------
(* What the handler of a read makes of parse() is what Connection takes it *)
(* to be.  Nothing returns to the first state, where nothing is built yet; *)
(* the numbers of the version are set wherever they may be read.           *)

MinorKnown == {"HTTP_VERSION_MINOR", "EXPECTING_NEWLINE_1", "HEADER_LINE_START",
               "EXPECTING_NEWLINE_3"} \cup Lines
MajorKnown == {"HTTP_VERSION_MAJOR", "HTTP_VERSION_MINOR_START"} \cup MinorKnown

Numbered(s, r) ==
    /\ s = "METHOD_START" => r = EmptyRequest
    /\ s \in MajorKnown => r.major \in Nat
    /\ s \in MinorKnown => r.minor \in Nat

(* A rule that enters the states where a number is known sets it.          *)
Sets(s, rule, c) ==
    /\ rule.to # "METHOD_START"
    /\ rule.does \in {"setMajor", "major", "setMinor", "minor"} => c \in Digits
    /\ rule.to \in MajorKnown => s \in MajorKnown \/ rule.does = "setMajor"
    /\ rule.to \in MinorKnown => s \in MinorKnown \/ rule.does = "setMinor"
    /\ rule.does = "major" => s \in MajorKnown
    /\ rule.does = "minor" => s \in MinorKnown

LEMMA RulesSet ==
    ASSUME NEW s, NEW r, NEW c, NEW rule \in RulesFor(s, r, c)
    PROVE  Sets(s, rule, c)
<1>1. /\ rule.from = s /\ c \in rule.on
      /\ rule \in IF s = "HEADER_LINE_START" THEN LineStartRules(r) ELSE FixedRules
  BY DEF RulesFor
<1>2. CASE s = "HEADER_LINE_START"
  <2>1. rule \in LineStartRules(r)
    BY <1>1, <1>2
  <2>2. rule.to \in MinorKnown /\ rule.does \in {"skip", "newHeader"} /\ rule.to # "METHOD_START"
    <3>1. CASE MayFold(r)
      BY <2>1, <3>1 DEF LineStartRules, Rule, MinorKnown, Lines
    <3>2. CASE ~ MayFold(r)
      BY <2>1, <3>2 DEF LineStartRules, Rule, MinorKnown, Lines
    <3>. QED  BY <3>1, <3>2
  <2>3. s \in MinorKnown /\ s \in MajorKnown
    BY <1>2 DEF MinorKnown, MajorKnown
  <2>. QED  BY <2>2, <2>3 DEF Sets
<1>3. CASE s # "HEADER_LINE_START"
  <2>1. rule \in MethodRules \/ rule \in UriRules \/ rule \in VersionRules \/ rule \in HeaderRules
    BY <1>1, <1>3 DEF FixedRules
  <2>2. CASE rule \in MethodRules
    <3>1. rule.to \in {"METHOD", "URI"} /\ rule.does \in {"skip", "method"}
      BY <2>2 DEF MethodRules, Rule
    <3>. QED  BY <3>1 DEF Sets, MinorKnown, MajorKnown, Lines
  <2>3. CASE rule \in UriRules
    <3>1. rule.to \in {"HTTP_VERSION_H", "URI"} /\ rule.does \in {"skip", "uri"}
      BY <2>3 DEF UriRules, Rule
    <3>. QED  BY <3>1 DEF Sets, MinorKnown, MajorKnown, Lines
  <2>4. CASE rule \in VersionRules
    <3>1. \/ /\ rule.does = "skip"
             /\ rule.to \in {"HTTP_VERSION_T_1", "HTTP_VERSION_T_2", "HTTP_VERSION_P",
                             "HTTP_VERSION_SLASH", "HTTP_VERSION_MAJOR_START"}
          \/ rule.does = "setMajor" /\ rule.to = "HTTP_VERSION_MAJOR" /\ rule.on = Digits
          \/ /\ rule.does = "skip"
             /\ rule.from = "HTTP_VERSION_MAJOR" /\ rule.to = "HTTP_VERSION_MINOR_START"
          \/ /\ rule.does = "major" /\ rule.on = Digits
             /\ rule.from = "HTTP_VERSION_MAJOR" /\ rule.to = "HTTP_VERSION_MAJOR"
          \/ /\ rule.does = "setMinor" /\ rule.on = Digits
             /\ rule.from = "HTTP_VERSION_MINOR_START" /\ rule.to = "HTTP_VERSION_MINOR"
          \/ /\ rule.does = "skip"
             /\ rule.from = "HTTP_VERSION_MINOR" /\ rule.to = "EXPECTING_NEWLINE_1"
          \/ /\ rule.does = "minor" /\ rule.on = Digits
             /\ rule.from = "HTTP_VERSION_MINOR" /\ rule.to = "HTTP_VERSION_MINOR"
          \/ /\ rule.does = "skip"
             /\ rule.from = "EXPECTING_NEWLINE_1" /\ rule.to = "HEADER_LINE_START"
      BY <2>4 DEF VersionRules, Rule
    <3>. QED  BY <1>1, <3>1 DEF Sets, MinorKnown, MajorKnown, Lines
  <2>5. CASE rule \in HeaderRules
    <3>1. /\ rule.from \in Lines
          /\ rule.to \in Lines \cup {"HEADER_LINE_START"}
          /\ rule.does \in {"skip", "name", "value"}
      BY <2>5 DEF HeaderRules, Rule, Lines
    <3>2. s \in MinorKnown /\ s \in MajorKnown /\ rule.to # "METHOD_START"
      BY <1>1, <3>1 DEF MinorKnown, MajorKnown, Lines
    <3>. QED  BY <3>1, <3>2 DEF Sets
  <2>. QED  BY <2>1, <2>2, <2>3, <2>4, <2>5
<1>. QED  BY <1>2, <1>3

LEMMA EffectKeeps ==
    ASSUME NEW r \in Built, NEW c,
           NEW does \in {"skip", "method", "uri", "newHeader", "name", "value"}
    PROVE  Effect(does, r, c).major = r.major /\ Effect(does, r, c).minor = r.minor
<1>. DEFINE e == Effect(does, r, c)
<1>1. does = "skip" => e = r
  BY DEF Effect
<1>2. does = "method" => e = [r EXCEPT !.method = Append(r.method, c)]
  BY DEF Effect
<1>3. does = "uri" => e = [r EXCEPT !.uri = Append(r.uri, c)]
  BY DEF Effect
<1>4. does \in {"newHeader", "name", "value"} => \E hs : e = [r EXCEPT !.headers = hs]
  <2>1. does = "newHeader" => \E hs : e = [r EXCEPT !.headers = hs]
    BY DEF Effect
  <2>2. does \in {"name", "value"} => \E h : e = SetBack(r, h)
    <3>1. does = "name" => \E h : e = SetBack(r, h)
      BY DEF Effect
    <3>2. does = "value" => \E h : e = SetBack(r, h)
      BY DEF Effect
    <3>. QED  BY <3>1, <3>2
  <2>3. \A h : SetBack(r, h) = [r EXCEPT !.headers = [r.headers EXCEPT ![Len(r.headers)] = h]]
    BY DEF SetBack, Built
  <2>. HIDE DEF e
  <2>. QED  BY <2>1, <2>2, <2>3
<1>. HIDE DEF e
<1>5. e.major = r.major /\ e.minor = r.minor
  BY <1>1, <1>2, <1>3, <1>4 DEF Built
<1>. QED  BY <1>5 DEF e

LEMMA EffectNumbers ==
    ASSUME NEW s, NEW r \in Built, NEW c \in Chars, Numbered(s, r),
           NEW rule, Fits(rule, r, c), Sets(s, rule, c)
    PROVE  Numbered(rule.to, Effect(rule.does, r, c))
<1>. DEFINE e == Effect(rule.does, r, c)
<1>1. CASE rule.does \in {"skip", "method", "uri", "newHeader", "name", "value"}
  <2>1. e.major = r.major /\ e.minor = r.minor
    BY <1>1, EffectKeeps
  <2>2. /\ rule.to # "METHOD_START"
        /\ rule.to \in MajorKnown => s \in MajorKnown
        /\ rule.to \in MinorKnown => s \in MinorKnown
    BY <1>1 DEF Sets
  <2>. HIDE DEF e
  <2>. QED  BY <2>1, <2>2 DEF Numbered, e
<1>2. CASE rule.does \in {"setMajor", "major"}
  <2>1. c \in Digits /\ Value(c) \in Nat
    BY <1>2, ValueIsDigit DEF Sets
  <2>2. \E n \in Nat : e = [r EXCEPT !.major = n]
    <3>1. CASE rule.does = "setMajor"
      BY <2>1, <3>1 DEF Effect
    <3>2. CASE rule.does = "major"
      <4>1. r.major * 10 + Value(c) \in Nat
        BY <2>1, <3>2 DEF Sets, Numbered
      <4>2. e = [r EXCEPT !.major = r.major * 10 + Value(c)]
        BY <3>2 DEF Effect
      <4>. HIDE DEF e
      <4>. QED  BY <4>1, <4>2
    <3>. QED  BY <1>2, <3>1, <3>2
  <2>. HIDE DEF e
  <2>3. e.major \in Nat /\ e.minor = r.minor
    BY <2>2 DEF Built
  <2>4. rule.to # "METHOD_START" /\ (rule.to \in MinorKnown => s \in MinorKnown)
    BY <1>2 DEF Sets
  <2>. QED  BY <2>3, <2>4 DEF Numbered, e
<1>3. CASE rule.does \in {"setMinor", "minor"}
  <2>1. c \in Digits /\ Value(c) \in Nat
    BY <1>3, ValueIsDigit DEF Sets
  <2>2. \E n \in Nat : e = [r EXCEPT !.minor = n]
    <3>1. CASE rule.does = "setMinor"
      BY <2>1, <3>1 DEF Effect
    <3>2. CASE rule.does = "minor"
      <4>1. r.minor * 10 + Value(c) \in Nat
        BY <2>1, <3>2 DEF Sets, Numbered
      <4>2. e = [r EXCEPT !.minor = r.minor * 10 + Value(c)]
        BY <3>2 DEF Effect
      <4>. HIDE DEF e
      <4>. QED  BY <4>1, <4>2
    <3>. QED  BY <1>3, <3>1, <3>2
  <2>. HIDE DEF e
  <2>3. e.minor \in Nat /\ e.major = r.major
    BY <2>2 DEF Built
  <2>4. rule.to # "METHOD_START" /\ (rule.to \in MajorKnown => s \in MajorKnown)
    BY <1>3 DEF Sets
  <2>. QED  BY <2>3, <2>4 DEF Numbered, e
<1>. QED  BY <1>1, <1>2, <1>3 DEF Fits

LEMMA StepNumbers ==
    ASSUME NEW p, Sound(p), Numbered(p.state, p.req), NEW c \in Chars
    PROVE  /\ Numbered(Step(p, c).state, Step(p, c).req)
           /\ Step(p, c).state = "METHOD_START" => p.state = "METHOD_START"
           /\ Step(p, c).result = "INDETERMINATE" => Step(p, c).state # "METHOD_START"
<1>0. p \in Progress /\ Open(p.state, p.req)
  BY DEF Sound, Progress
<1>1. CASE p.result # "INDETERMINATE"
  BY <1>0, <1>1 DEF Step
<1>2. CASE p.result = "INDETERMINATE" /\ Verdict(p, c) = "INDETERMINATE"
  <2>1. PICK rule \in RulesFor(p.state, p.req, c) :
           Follow(p, c) = [state |-> rule.to, req |-> Effect(rule.does, p.req, c),
                           result |-> p.result, used |-> p.used + 1]
    BY <1>0, <1>2, FollowIs
  <2>2. Fits(rule, p.req, c) /\ Sets(p.state, rule, c)
    BY <1>0, RulesFit, RulesSet
  <2>3. Numbered(rule.to, Effect(rule.does, p.req, c))
    BY <1>0, <2>2, EffectNumbers DEF Progress
  <2>4. rule.to # "METHOD_START"
    BY <2>2 DEF Sets
  <2>5. Step(p, c) = Follow(p, c)
    BY <1>2 DEF Step
  <2>. QED  BY <2>1, <2>3, <2>4, <2>5
<1>3. CASE p.result = "INDETERMINATE" /\ Verdict(p, c) # "INDETERMINATE"
  <2>1. Step(p, c) = [p EXCEPT !.result = Verdict(p, c), !.used = p.used + 1]
    BY <1>3 DEF Step
  <2>2. Step(p, c) = [state |-> p.state, req |-> p.req, result |-> Verdict(p, c), used |-> p.used + 1]
    BY <1>0, <2>1 DEF Progress
  <2>. QED  BY <1>3, <2>2
<1>. QED  BY <1>1, <1>2, <1>3

LEMMA AfterNumbers ==
    ASSUME NEW base, Sound(base), Numbered(base.state, base.req),
           NEW text \in Seq(Chars), text # <<>>
    PROVE  /\ Numbered(After(base, text).state, After(base, text).req)
           /\ After(base, text).state = "METHOD_START" => base.state = "METHOD_START"
           /\ After(base, text).result = "INDETERMINATE" =>
                 After(base, text).state # "METHOD_START"
<1>. DEFINE f == Run(base, text)
            n == Len(text)
            S == {i \in 0 .. n :
                    /\ Numbered(f[i].state, f[i].req)
                    /\ f[i].state = "METHOD_START" => base.state = "METHOD_START"
                    /\ i # 0 /\ f[i].result = "INDETERMINATE" => f[i].state # "METHOD_START"}
<1>1. n \in Nat /\ n # 0 /\ \A i \in 1 .. n : text[i] \in Chars
  BY ElementOfSeq, LenProperties, EmptySeq
<1>2. f[0] = base /\ \A i \in 1 .. n : f[i] = Step(f[i - 1], text[i])
  BY <1>1, RunProperties
<1>3. \A i \in 0 .. n : Sound(f[i])
  BY AfterSound
<1>. HIDE DEF f, n
<1>4. 0 \in S
  BY <1>1, <1>2
<1>5. ASSUME NEW i \in 1 .. n, i - 1 \in S PROVE i \in S
  <2>1. /\ Sound(f[i - 1]) /\ Numbered(f[i - 1].state, f[i - 1].req)
        /\ f[i - 1].state = "METHOD_START" => base.state = "METHOD_START"
        /\ f[i] = Step(f[i - 1], text[i]) /\ text[i] \in Chars
    BY <1>1, <1>2, <1>3, <1>5
  <2>2. /\ Numbered(f[i].state, f[i].req)
        /\ f[i].state = "METHOD_START" => f[i - 1].state = "METHOD_START"
        /\ f[i].result = "INDETERMINATE" => f[i].state # "METHOD_START"
    BY <2>1, StepNumbers
  <2>. QED  BY <2>1, <2>2
<1>. HIDE DEF S
<1>6. \A i \in 0 .. n : i \in S
  BY <1>1, <1>4, <1>5, Induction
<1>7. n \in S
  BY <1>1, <1>6
<1>8. /\ Numbered(f[n].state, f[n].req)
      /\ f[n].state = "METHOD_START" => base.state = "METHOD_START"
      /\ f[n].result = "INDETERMINATE" => f[n].state # "METHOD_START"
  BY <1>1, <1>7 DEF S
<1>. QED  BY <1>8 DEF After, f, n

(* A text is its first character and the rest.                             *)
LEMMA FirstAndRest ==
    ASSUME NEW t \in Seq(Chars), t # <<>>
    PROVE  t[1] \in Chars /\ \E rest \in Seq(Chars) : t = <<t[1]>> \o rest
<1>1. Len(t) \in Nat /\ Len(t) >= 1
  BY LenProperties, EmptySeq
<1>2. t[1] \in Chars
  BY <1>1, ElementOfSeq
<1>. DEFINE s == <<t[1]>>
<1>3. s \in Seq(Chars) /\ Len(s) = 1
  BY <1>2
<1>4. SubSeq(t, 1, 1) = s
  <2>1. /\ SubSeq(t, 1, 0) = <<>>
        /\ \A i \in 1 .. Len(t) : SubSeq(t, 1, i) = Append(SubSeq(t, 1, i - 1), t[i])
    BY Beginnings
  <2>2. 1 \in 1 .. Len(t) /\ 1 - 1 = 0
    BY <1>1
  <2>3. SubSeq(t, 1, 1) = Append(<<>>, t[1])
    BY <2>1, <2>2
  <2>. QED  BY <2>3, AppendToNothing
<1>5. SubSeq(s, 1, 1) = s
  <2>. HIDE DEF s
  <2>. QED  BY <1>3, SubSeqFull
<1>. HIDE DEF s
<1>6. IsPrefix(s, t)
  BY <1>1, <1>3, <1>4, <1>5 DEF IsPrefix
<1>7. \E rest \in Seq(Chars) : t = s \o rest
  BY <1>3, <1>6, GoesOn
<1>. QED  BY <1>2, <1>7 DEF s

(* When the first character decides, the rest is dropped.                  *)
LEMMA FirstDecides ==
    ASSUME NEW base, NEW t \in Seq(Chars), t # <<>>, Step(base, t[1]).result # "INDETERMINATE"
    PROVE  After(base, t) = Step(base, t[1])
<1>1. PICK rest \in Seq(Chars) : t = <<t[1]>> \o rest
  BY FirstAndRest
<1>2. t[1] \in Chars
  BY FirstAndRest
<1>. DEFINE c == t[1]
            s == <<c>>
<1>3. s \in Seq(Chars) /\ t = s \o rest
  BY <1>1, <1>2
<1>4. After(base, s) = Step(base, c)
  BY AfterOne
<1>. HIDE DEF s
<1>5. After(base, t) = After(After(base, s), rest)
  BY <1>3, AfterConcat
<1>. QED  BY <1>4, <1>5, Decided

(* Behind the end of a request the first character is the verdict.         *)
LEMMA EndDecides ==
    ASSUME NEW base, Sound(base), base.state = "EXPECTING_NEWLINE_3", base.result = "INDETERMINATE",
           NEW t \in Seq(Chars), t # <<>>
    PROVE  After(base, t).result = IF t[1] = "LF" THEN "GOOD" ELSE "BAD"
<1>1. base \in Progress
  BY DEF Sound, Progress
<1>. DEFINE c == t[1]
            v == Verdict(base, c)
<1>2. v = IF c = "LF" THEN "GOOD" ELSE "BAD"
  BY DEF Verdict
<1>3. Step(base, c) = [base EXCEPT !.result = v, !.used = base.used + 1]
  BY <1>2 DEF Step
<1>. HIDE DEF v, c
<1>4. Step(base, c).result = v
  BY <1>1, <1>3 DEF Progress
<1>5. Step(base, c).result # "INDETERMINATE"
  BY <1>2, <1>4
<1>6. After(base, t) = Step(base, c)
  BY <1>5, FirstDecides DEF c
<1>. QED  BY <1>2, <1>4, <1>6 DEF c

(* No request begins with a line break.                                    *)
LEMMA RequestBegins ==
    ASSUME NEW r \in Requests
    PROVE  Text(r) # <<>> /\ Text(r)[1] # "LF"
<1>. DEFINE t == Text(r)
<1>1. t \in Seq(Chars) /\ After(Begin, t).result = "GOOD"
  BY Accepts
<1>. HIDE DEF t
<1>2. Begin.state = "METHOD_START" /\ Begin.result = "INDETERMINATE" /\ Begin \in Progress
  <2>1. Begin \in Progress
    BY BeginSound DEF Sound, Progress
  <2>. QED  BY <2>1 DEF Begin, Start
<1>3. t # <<>>
  BY <1>1, <1>2, AfterNothing
<1>4. ASSUME t[1] = "LF" PROVE FALSE
  <2>1. "LF" \notin Alpha
    <3>1. (Alpha \cup Digits \cup Other) \cap Named = {}
      BY ParserAssumption, Zenon
    <3>. QED  BY <3>1 DEF Named
  <2>2. RulesFor("METHOD_START", Begin.req, "LF") = {}
    <3>. SUFFICES ASSUME NEW rule \in RulesFor("METHOD_START", Begin.req, "LF") PROVE FALSE
      OBVIOUS
    <3>1. rule \in FixedRules /\ rule.from = "METHOD_START" /\ "LF" \in rule.on
      BY DEF RulesFor
    <3>2. rule \in MethodRules
      BY <3>1, Groups DEF FixedRules, Lines
    <3>3. rule.on = Alpha
      BY <3>1, <3>2 DEF MethodRules, Rule
    <3>. QED  BY <2>1, <3>1, <3>3
  <2>3. Verdict(Begin, "LF") = "BAD"
    BY <1>2, <2>2 DEF Verdict
  <2>4. Step(Begin, "LF") = [Begin EXCEPT !.result = "BAD", !.used = Begin.used + 1]
    BY <1>2, <2>3 DEF Step
  <2>5. Step(Begin, "LF").result = "BAD"
    BY <1>2, <2>4 DEF Progress
  <2>6. Step(Begin, t[1]).result # "INDETERMINATE"
    BY <1>4, <2>5
  <2>7. After(Begin, t) = Step(Begin, t[1])
    BY <1>1, <1>3, <2>6, FirstDecides
  <2>. QED  BY <1>1, <1>4, <2>5, <2>7
<1>. QED  BY <1>3, <1>4 DEF t

(* The invariant: the request is as far as the state says, and behind the  *)
(* end of one the connection's keep_alive_ is what that request asks for.  *)
Conforming ==
    /\ Numbered(state, req)
    /\ complete => state = "EXPECTING_NEWLINE_3" /\ keepAlive \in KeepAlives(req)

(* A request that has ended has a version, and asks for one thing.         *)
LEMMA KeepIsFixed ==
    ASSUME NEW r, Numbered("EXPECTING_NEWLINE_3", r),
           NEW j \in KeepAlives(r), NEW k \in KeepAlives(r)
    PROVE  j = k
<1>1. CASE Fields(r, "Connection") # {}
  <2>1. KeepAlives(r) = {AsksToKeep(r)}
    BY <1>1 DEF KeepAlives
  <2>. QED  BY <2>1
<1>2. CASE Fields(r, "Connection") = {}
  <2>1. r.major \in Nat /\ r.minor \in Nat
    BY DEF Numbered, MinorKnown, MajorKnown
  <2>2. Held(r.major) = {r.major} /\ Held(r.minor) = {r.minor}
    BY <2>1 DEF Held, Unset
  <2>3. KeepAlives(r) = {a = 1 /\ b = 1 : a \in Held(r.major), b \in Held(r.minor)}
    BY <1>2 DEF KeepAlives
  <2>4. \A x \in KeepAlives(r) : x = (r.major = 1 /\ r.minor = 1)
    BY <2>2, <2>3
  <2>. QED  BY <2>4, Zenon
<1>. QED  BY <1>1, <1>2

LEMMA InitConforming == Init => Conforming
BY DEF Init, Conforming, Numbered, MajorKnown, MinorKnown, Lines

LEMMA ReadLeaves ==
    ASSUME Typed, Conforming, NEW chunk \in Chunks, NEW p, p = Parse(state, req, chunk)
    PROVE  /\ p \in Progress
           /\ Numbered(p.state, p.req)
           /\ p.state = "METHOD_START" => state = "METHOD_START"
           /\ p.result = "INDETERMINATE" => p.state # "METHOD_START"
           /\ p.result = "GOOD" => p.state = "EXPECTING_NEWLINE_3"
           /\ complete => /\ p.state = "EXPECTING_NEWLINE_3" /\ p.req = req
                          /\ p.result = IF chunk[1] = "LF" THEN "GOOD" ELSE "BAD"
<1>. DEFINE base == Start(state, req)
<1>1. /\ chunk \in Seq(Chars) /\ chunk # <<>> /\ Sound(base)
      /\ base.state = state /\ base.req = req /\ base.result = "INDETERMINATE"
  <2>1. chunk \in Seq(Chars) /\ chunk # <<>> /\ Sound(base)
    BY Assumed, StartSound DEF Typed
  <2>. QED  BY <2>1 DEF Start
<1>2. p = After(base, chunk)
  BY ParseIsRun
<1>3. p \in Progress
  BY <1>1, ParseSound DEF Typed, Sound, Progress
<1>. HIDE DEF base
<1>4. Numbered(base.state, base.req)
  BY <1>1 DEF Conforming
<1>5. /\ Numbered(p.state, p.req)
      /\ p.state = "METHOD_START" => state = "METHOD_START"
      /\ p.result = "INDETERMINATE" => p.state # "METHOD_START"
  BY <1>1, <1>2, <1>4, AfterNumbers
<1>6. p.result = "GOOD" => p.state = "EXPECTING_NEWLINE_3"
  BY <1>1, <1>2, GoodIsLast
<1>7. ASSUME complete
      PROVE  /\ p.state = "EXPECTING_NEWLINE_3" /\ p.req = req
             /\ p.result = IF chunk[1] = "LF" THEN "GOOD" ELSE "BAD"
  <2>1. base.state = "EXPECTING_NEWLINE_3"
    BY <1>1, <1>7 DEF Conforming
  <2>2. p.state = base.state /\ p.req = base.req
    BY <1>1, <1>2, <2>1, LastStays
  <2>3. p.result = IF chunk[1] = "LF" THEN "GOOD" ELSE "BAD"
    BY <1>1, <1>2, <2>1, EndDecides
  <2>. QED  BY <1>1, <2>1, <2>2, <2>3
<1>. QED  BY <1>3, <1>5, <1>6, <1>7

LEMMA NextConforming == Typed /\ Conforming /\ [Next]_vars => Conforming'
<1>. SUFFICES ASSUME Typed, Conforming, [Next]_vars PROVE Conforming'
  OBVIOUS
<1>1. ASSUME NEW chunk \in Chunks, Read(chunk) PROVE Conforming'
  <2>. DEFINE p == Parse(state, req, chunk)
  <2>1. /\ state' = p.state /\ req' = p.req
        /\ complete' = (complete \/ p.result = "GOOD")
        /\ keepAlive' \in KeepAlives(p.req)
    BY <1>1 DEF Read
  <2>. HIDE DEF p
  <2>2. /\ Numbered(p.state, p.req)
        /\ p.result = "GOOD" => p.state = "EXPECTING_NEWLINE_3"
        /\ complete => p.state = "EXPECTING_NEWLINE_3"
    BY ReadLeaves DEF p
  <2>3. Numbered(state, req)'
    BY <2>1, <2>2 DEF Numbered
  <2>4. complete' => state' = "EXPECTING_NEWLINE_3" /\ keepAlive' \in KeepAlives(req')
    BY <2>1, <2>2
  <2>5. KeepAlives(req)' = KeepAlives(req')
    BY DEF KeepAlives, AsksToKeep, ConnectionValue, Fields, First, Held
  <2>. QED  BY <2>3, <2>4, <2>5 DEF Conforming
<1>2. CASE UNCHANGED vars
  BY <1>2 DEF vars, Conforming, Numbered
<1>. QED  BY <1>1, <1>2 DEF Next

LEMMA Conformity == Spec => []Conforming
<1>. QED  BY InitTyped, NextTyped, InitConforming, NextConforming, PTL DEF Spec

(* What a whole request makes of a parser that has seen nothing.           *)
LEMMA RequestIsServed ==
    ASSUME Typed, Conforming, state = "METHOD_START", NEW r \in Requests, Valid(r),
           NEW p, p = Parse(state, req, Text(r))
    PROVE  p.result = "GOOD" /\ Status(p) = "ok"
<1>1. req = EmptyRequest
  BY DEF Conforming, Numbered
<1>2. p = After(Begin, Text(r))
  BY <1>1, ParseIsRun DEF Begin
<1>3. p.result = "GOOD" /\ p.req = r
  BY <1>2, Accepts
<1>. QED  BY <1>3 DEF Status

LEMMA ReadIsParsed ==
    ASSUME Typed, Conforming, NEW chunk \in Chunks, Read(chunk)
    PROVE  [result |-> last'.result, at |-> last'.at, keep |-> last'.keep, status |-> last'.status]
              \in Conn!Parsed("k", last'.data)
<1>. DEFINE p == Parse(state, req, chunk)
            now == At(state, complete)
            next == At(p.state, complete')
            data == Data(chunk)
            o == [result |-> p.result, at |-> next, keep |-> keepAlive', status |-> Status(p)]
<1>1. /\ complete' = (complete \/ p.result = "GOOD")
      /\ keepAlive' \in KeepAlives(p.req)
      /\ last' = [result |-> p.result, at |-> next, keep |-> keepAlive', status |-> Status(p),
                  data |-> data]
  BY DEF Read
<1>2. /\ p \in Progress
      /\ Numbered(p.state, p.req)
      /\ p.state = "METHOD_START" => state = "METHOD_START"
      /\ p.result = "INDETERMINATE" => p.state # "METHOD_START"
      /\ complete => /\ p.state = "EXPECTING_NEWLINE_3" /\ p.req = req
                     /\ p.result = IF chunk[1] = "LF" THEN "GOOD" ELSE "BAD"
  BY ReadLeaves
<1>3. data = "request" =>
        now # "mid" /\ \E r \in Requests : Valid(r) /\ chunk = Text(r)
  BY DEF Data
<1>4. data \in {"request", "other"}
  BY DEF Data
<1>5. keepAlive' \in BOOLEAN /\ complete \in BOOLEAN
  BY <1>1, KeepAlivesAreBoolean DEF Typed
<1>6. Status(p) \in {"ok", "bad"} /\ (p.result = "BAD" => Status(p) = "bad")
  BY DEF Status
<1>7. state = "METHOD_START" /\ data = "request" /\ ~ complete => p.result = "GOOD" /\ Status(p) = "ok"
  BY <1>3, RequestIsServed
<1>8. complete /\ data = "request" => p.result = "BAD"
  BY <1>2, <1>3, RequestBegins
<1>9. complete => keepAlive' = keepAlive
  <2>. HIDE DEF p
  <2>1. ASSUME complete PROVE keepAlive' = keepAlive
    <3>1. keepAlive \in KeepAlives(p.req) /\ Numbered("EXPECTING_NEWLINE_3", p.req)
      BY <1>2, <2>1 DEF Conforming
    <3>. QED  BY <1>1, <3>1, KeepIsFixed
  <2>. QED  BY <2>1
<1>10. last'.data = data /\ [result |-> last'.result, at |-> last'.at, keep |-> last'.keep,
                             status |-> last'.status] = o
  BY <1>1
<1>. HIDE DEF data
<1>11. p.result \in Verdicts
  BY <1>2 DEF Progress
<1>. HIDE DEF p
<1>12. now = "done" <=> complete
  BY <1>5 DEF At
<1>13. now = "start" <=> ~ complete /\ state = "METHOD_START"
  BY <1>5 DEF At
<1>14. /\ next \in {"start", "mid", "done"}
       /\ next = "done" <=> complete'
       /\ ~ complete' /\ p.state # "METHOD_START" => next = "mid"
       /\ ~ complete' => next \in {now, "mid"}
  BY <1>1, <1>2, <1>5 DEF At
<1>15. Conn!WellParsed("k", data, o)
  <2>1. o.result = p.result /\ o.at = next /\ o.keep = keepAlive' /\ o.status = Status(p)
    OBVIOUS
  <2>. HIDE DEF o, now, next
  <2>2. CASE complete
    <3>1. o.at = "done" /\ o.keep = keepAlive
      BY <1>1, <1>9, <1>14, <2>1, <2>2
    <3>2. IF data = "request" THEN o.result = "BAD" ELSE o.result \in {"GOOD", "BAD"}
      BY <1>2, <1>8, <2>1, <2>2
    <3>. QED  BY <1>12, <2>2, <3>1, <3>2 DEF Conn!WellParsed, now
  <2>3. CASE ~ complete /\ state = "METHOD_START" /\ data = "request"
    <3>1. o.result = "GOOD" /\ o.at = "done" /\ o.status = "ok"
      BY <1>1, <1>7, <1>14, <2>1, <2>3
    <3>. QED  BY <1>13, <2>3, <3>1 DEF Conn!WellParsed, now
  <2>4. CASE ~ complete /\ ~ (state = "METHOD_START" /\ data = "request")
    <3>1. \/ o.result = "GOOD" /\ o.at = "done"
          \/ o.result = "BAD" /\ o.at \in {now, "mid"}
          \/ o.result = "INDETERMINATE" /\ o.at = "mid"
      BY <1>1, <1>2, <1>11, <1>14, <2>1, <2>4 DEF Verdicts
    <3>. QED  BY <1>12, <1>13, <2>4, <3>1 DEF Conn!WellParsed, now
  <2>. QED  BY <2>2, <2>3, <2>4
<1>16. o \in Conn!Outcomes
  BY <1>5, <1>6, <1>11, <1>14 DEF Conn!Outcomes, Verdicts
<1>17. o \in Conn!Parsed("k", data)
  BY <1>6, <1>15, <1>16 DEF Conn!Parsed
<1>. QED  BY <1>10, <1>17

(* Each read ends as Connection's HandleData allows, whatever the reads    *)
(* before it brought and left behind: a request that arrives whole and     *)
(* first is answered 200; one that arrives behind another is BAD, and      *)
(* changes neither where the parser is nor whether the connection is kept; *)
(* BAD and unfinished requests are answered, or read on, as it says.       *)
THEOREM ReadsConform == Spec => ReadConforms
<1>1. Typed /\ Conforming /\ [Next]_vars =>
        [reads' # reads =>
           [result |-> last'.result, at |-> last'.at, keep |-> last'.keep, status |-> last'.status]
               \in Conn!Parsed("k", last'.data)]_vars
  <2>. SUFFICES ASSUME Typed, Conforming, [Next]_vars, reads' # reads
                PROVE  [result |-> last'.result, at |-> last'.at, keep |-> last'.keep,
                        status |-> last'.status] \in Conn!Parsed("k", last'.data)
    OBVIOUS
  <2>1. CASE Next
    BY <2>1, ReadIsParsed DEF Next
  <2>2. CASE UNCHANGED vars
    BY <2>2 DEF vars
  <2>. QED  BY <2>1, <2>2
<1>. QED  BY <1>1, Typing, Conformity, PTL DEF Spec, ReadConforms
-----------------------------------------------------------------------------
(* The two recursive functions of the language: what they give for one     *)
(* character more.                                                         *)

Obeys(f, S, base, n, G) ==
    f \in [0 .. n -> S] /\ f[0] = base /\ \A i \in 1 .. n : f[i] = G[<<f[i - 1], i>>]

LEMMA Recursion ==
    ASSUME NEW S, NEW base \in S, NEW n \in Nat, NEW G \in [S \X (1 .. n) -> S]
    PROVE  \E f : Obeys(f, S, base, n, G)
<1>. DEFINE Is(k, f) == f \in [0 .. k -> S] /\ f[0] = base /\ \A i \in 1 .. k : f[i] = G[<<f[i - 1], i>>]
            K == {k \in 0 .. n : \E f : Is(k, f)}
<1>1. 0 \in K
  <2>. DEFINE f == [i \in 0 .. 0 |-> base]
  <2>1. Is(0, f)
    OBVIOUS
  <2>. HIDE DEF f, Is
  <2>. QED  BY <2>1
<1>2. ASSUME NEW k \in 1 .. n, k - 1 \in K PROVE k \in K
  <2>1. PICK f : Is(k - 1, f)
    BY <1>2
  <2>. DEFINE x == G[<<f[k - 1], k>>]
              g == [i \in 0 .. k |-> IF i = k THEN x ELSE f[i]]
  <2>2. x \in S
    <3>1. f[k - 1] \in S
      BY <2>1
    <3>2. <<f[k - 1], k>> \in S \X (1 .. n)
      BY <3>1
    <3>. QED  BY <3>2
  <2>3. \A i \in 0 .. (k - 1) : g[i] = f[i] /\ f[i] \in S
    BY <2>1
  <2>4. g[k] = x /\ g \in [0 .. k -> S]
    <3>. HIDE DEF x
    <3>1. ASSUME NEW i \in 0 .. k PROVE (IF i = k THEN x ELSE f[i]) \in S
      <4>1. i # k => i \in 0 .. (k - 1)
        OBVIOUS
      <4>. QED  BY <2>1, <2>2, <4>1
    <3>. QED  BY <3>1
  <2>. HIDE DEF g
  <2>5. ASSUME NEW i \in 1 .. k PROVE g[i] = G[<<g[i - 1], i>>]
    <3>1. i - 1 \in 0 .. (k - 1)
      OBVIOUS
    <3>2. CASE i = k
      BY <2>3, <2>4, <3>1, <3>2
    <3>3. CASE i # k
      <4>1. i \in 1 .. (k - 1) /\ i \in 0 .. (k - 1)
        BY <3>3
      <4>. QED  BY <2>1, <2>3, <3>1, <4>1
    <3>. QED  BY <3>2, <3>3
  <2>6. g[0] = base
    BY <2>1, <2>3
  <2>7. Is(k, g)
    BY <2>4, <2>5, <2>6
  <2>. HIDE DEF Is
  <2>. QED  BY <2>7
<1>. HIDE DEF K, Is
<1>3. \A k \in 0 .. n : k \in K
  BY <1>1, <1>2, Induction
<1>4. PICK f : Is(n, f)
  BY <1>3 DEF K
<1>5. Obeys(f, S, base, n, G)
  BY <1>4 DEF Is, Obeys
<1>. QED  BY <1>5

(* Numbers in digits.                                                      *)
Counts(ds, f) == f[0] = 0 /\ \A i \in 1 .. Len(ds) : f[i] = 10 * f[i - 1] + Value(ds[i])

LEMMA CountExists ==
    ASSUME NEW ds \in Seq(Digits)
    PROVE  \E f \in [0 .. Len(ds) -> Int] : Counts(ds, f)
<1>. DEFINE n == Len(ds)
            G == [x \in Int \X (1 .. n) |-> 10 * x[1] + Value(ds[x[2]])]
<1>1. n \in Nat /\ \A i \in 1 .. n : Value(ds[i]) \in Int
  BY LenProperties, ElementOfSeq, ValueIsDigit
<1>. HIDE DEF n
<1>2. G \in [Int \X (1 .. n) -> Int]
  BY <1>1
<1>3. \A a \in Int, i \in 1 .. n : G[<<a, i>>] = 10 * a + Value(ds[i])
  OBVIOUS
<1>. HIDE DEF G
<1>4. PICK f : Obeys(f, Int, 0, n, G)
  <2>1. 0 \in Int
    OBVIOUS
  <2>. QED  BY <1>1, <1>2, <2>1, Recursion, Zenon
<1>5. ASSUME NEW i \in 1 .. n PROVE f[i] = 10 * f[i - 1] + Value(ds[i])
  <2>1. f[i - 1] \in Int
    BY <1>1, <1>4 DEF Obeys
  <2>. QED  BY <1>3, <1>4, <2>1 DEF Obeys
<1>. QED  BY <1>4, <1>5 DEF Counts, n, Obeys

LEMMA NumberIs ==
    ASSUME NEW ds \in Seq(Digits), NEW f, Counts(ds, f)
    PROVE  NumberOf(ds) = f[Len(ds)]
<1>. DEFINE n == Len(ds)
            Is(g) == g = [i \in 0 .. n |-> IF i = 0 THEN 0 ELSE 10 * g[i - 1] + Value(ds[i])]
            g == CHOOSE h : Is(h)
            S == {i \in 0 .. n : g[i] = f[i]}
<1>1. n \in Nat
  BY LenProperties
<1>2. \E h : Is(h)
  <2>1. PICK h \in [0 .. n -> Int] : Counts(ds, h)
    BY CountExists
  <2>2. \A i \in 0 .. n : h[i] = IF i = 0 THEN 0 ELSE 10 * h[i - 1] + Value(ds[i])
    BY <1>1, <2>1 DEF Counts
  <2>3. h = [i \in 0 .. n |-> h[i]]
    OBVIOUS
  <2>4. Is(h)
    BY <2>2, <2>3
  <2>. QED  BY <2>4
<1>3. Is(g)
  <2>. HIDE DEF Is
  <2>. QED  BY <1>2
<1>4. NumberOf(ds) = g[n]
  BY DEF NumberOf
<1>. HIDE DEF g
<1>5. \A i \in 0 .. n : g[i] = IF i = 0 THEN 0 ELSE 10 * g[i - 1] + Value(ds[i])
  BY <1>3
<1>. HIDE DEF Is, n
<1>6. 0 \in S
  <2>1. g[0] = 0
    BY <1>1, <1>5
  <2>. QED  BY <1>1, <2>1 DEF Counts
<1>7. ASSUME NEW i \in 1 .. n, i - 1 \in S PROVE i \in S
  <2>1. i \in 0 .. n /\ i # 0 /\ g[i - 1] = f[i - 1]
    BY <1>1, <1>7
  <2>2. f[i] = 10 * f[i - 1] + Value(ds[i])
    BY DEF Counts, n
  <2>. QED  BY <1>5, <2>1, <2>2
<1>. HIDE DEF S
<1>8. \A i \in 0 .. n : i \in S
  BY <1>1, <1>6, <1>7, Induction
<1>9. n \in S
  BY <1>1, <1>8
<1>. QED  BY <1>4, <1>9 DEF S, n

LEMMA NumberOfMore ==
    ASSUME NEW ds \in Seq(Digits), NEW d \in Digits
    PROVE  /\ NumberOf(ds) \in Int
           /\ NumberOf(Append(ds, d)) = 10 * NumberOf(ds) + Value(d)
           /\ NumberOf(<<d>>) = Value(d)
<1>. DEFINE es == Append(ds, d)
            n == Len(ds)
<1>1. /\ es \in Seq(Digits) /\ n \in Nat /\ Len(es) = n + 1 /\ es[n + 1] = d
      /\ \A i \in 1 .. n : es[i] = ds[i]
  BY AppendProperties, LenProperties
<1>. HIDE DEF es
<1>2. PICK f \in [0 .. Len(es) -> Int] : Counts(es, f)
  BY <1>1, CountExists
<1>3. Counts(ds, f)
  BY <1>1, <1>2 DEF Counts
<1>4. NumberOf(ds) = f[n] /\ NumberOf(es) = f[n + 1]
  BY <1>1, <1>2, <1>3, NumberIs
<1>5. f[n] \in Int /\ f[n + 1] = 10 * f[n] + Value(d)
  <2>1. n + 1 \in 1 .. Len(es) /\ (n + 1) - 1 = n /\ n \in 0 .. Len(es)
    BY <1>1
  <2>2. f[n + 1] = 10 * f[(n + 1) - 1] + Value(es[n + 1])
    BY <1>2, <2>1 DEF Counts
  <2>. QED  BY <1>1, <2>1, <2>2
<1>6. NumberOf(<<d>>) = Value(d)
  <2>. DEFINE g == [i \in 0 .. 1 |-> IF i = 0 THEN 0 ELSE Value(d)]
              os == <<d>>
  <2>1. os \in Seq(Digits) /\ Len(os) = 1 /\ os[1] = d
    OBVIOUS
  <2>2. g[0] = 0 /\ g[1] = Value(d)
    OBVIOUS
  <2>. HIDE DEF g, os
  <2>3. Value(d) \in 0 .. 9
    BY ValueIsDigit
  <2>4. ASSUME NEW i \in 1 .. Len(os) PROVE g[i] = 10 * g[i - 1] + Value(os[i])
    <3>1. i = 1 /\ i - 1 = 0
      BY <2>1
    <3>. QED  BY <2>1, <2>2, <2>3, <3>1
  <2>5. Counts(os, g)
    BY <2>2, <2>4 DEF Counts
  <2>6. NumberOf(os) = g[1]
    BY <2>1, <2>5, NumberIs
  <2>. QED  BY <2>2, <2>6 DEF os
<1>. QED  BY <1>4, <1>5, <1>6 DEF es

(* Texts without their folds.                                              *)
Blank == {"SP", "TAB"}
Break(t, a) == t[a] = "CR" /\ t[a + 1] = "LF"
Blanks(t, i, j) == \A k \in i .. j : t[k] \in Blank

(* At the end of t: a line break with white space after it, or without.    *)
Hangs(t) == \E a \in 1 .. Len(t) - 2 : Break(t, a) /\ Blanks(t, a + 2, Len(t))
Broken(t) == Len(t) >= 2 /\ Break(t, Len(t) - 1)

LEMMA FoldedIs ==
    ASSUME NEW t \in Seq(Chars), NEW i \in 1 .. Len(t)
    PROVE  Folded(t, i) <=> \E a \in 1 .. i, b \in i .. Len(t) :
                               a + 2 <= b /\ Break(t, a) /\ Blanks(t, a + 2, b)
<1>. DEFINE n == Len(t)
<1>1. n \in Nat /\ i \in 1 .. n
  BY LenProperties
<1>2. ASSUME NEW a \in 1 .. i, NEW b \in i .. n, a + 2 <= b
      PROVE  SubSeq(t, a, a + 1) = CRLF <=> Break(t, a)
  <2>. DEFINE s == SubSeq(t, a, a + 1)
              w == CRLF
  <2>1. \A k \in a .. a + 1 : t[k] \in Chars
    <3>1. \A k \in a .. a + 1 : k \in 1 .. n
      BY <1>1, <1>2
    <3>. QED  BY <3>1, ElementOfSeq DEF n
  <2>2. a \in Int /\ a + 1 \in Int
    BY <1>1
  <2>3. /\ s \in Seq(Chars)
        /\ Len(s) = IF a <= a + 1 THEN (a + 1) - a + 1 ELSE 0
        /\ \A k \in 1 .. (a + 1) - a + 1 : s[k] = t[a + k - 1]
    BY <2>1, <2>2, SubSeqProperties
  <2>. HIDE DEF s
  <2>4. Len(s) = 2 /\ s[1] = t[a] /\ s[2] = t[a + 1]
    <3>1. 1 \in 1 .. (a + 1) - a + 1 /\ 2 \in 1 .. (a + 1) - a + 1 /\ a + 1 - 1 = a /\ a + 2 - 1 = a + 1
      BY <2>2
    <3>. QED  BY <2>2, <2>3, <3>1
  <2>5. w \in Seq(Chars) /\ Len(w) = 2 /\ w[1] = "CR" /\ w[2] = "LF"
    BY Classes DEF CRLF, Named
  <2>. HIDE DEF w
  <2>6. s = w <=> s[1] = w[1] /\ s[2] = w[2]
    <3>1. ASSUME s[1] = w[1], s[2] = w[2] PROVE s = w
      <4>1. \A k \in 1 .. Len(s) : s[k] = w[k]
        BY <2>4, <2>5, <3>1
      <4>. QED  BY <2>3, <2>4, <2>5, <4>1, SeqEqual
    <3>. QED  BY <3>1
  <2>. QED  BY <2>4, <2>5, <2>6 DEF Break, s, w
<1>. QED  BY <1>2 DEF Folded, Blanks, Blank

LEMMA OneMore ==
    ASSUME NEW t \in Seq(Chars), NEW c \in Chars
    PROVE  /\ Append(t, c) \in Seq(Chars) /\ Len(t) \in Nat /\ Len(Append(t, c)) = Len(t) + 1
           /\ Append(t, c)[Len(t) + 1] = c
           /\ \A i \in 1 .. Len(t) : Append(t, c)[i] = t[i]
BY AppendProperties, LenProperties

(* What was folded stays so.                                               *)
LEMMA FoldedStays ==
    ASSUME NEW t \in Seq(Chars), NEW c \in Chars, NEW i \in 1 .. Len(t), Folded(t, i)
    PROVE  Folded(Append(t, c), i)
<1>. DEFINE u == Append(t, c)
            n == Len(t)
<1>1. /\ u \in Seq(Chars) /\ n \in Nat /\ Len(u) = n + 1
      /\ \A k \in 1 .. n : u[k] = t[k]
  BY OneMore
<1>. HIDE DEF u
<1>2. PICK a \in 1 .. i, b \in i .. n : a + 2 <= b /\ Break(t, a) /\ Blanks(t, a + 2, b)
  BY FoldedIs
<1>3. b \in i .. Len(u) /\ i \in 1 .. Len(u) /\ a \in 1 .. n /\ a + 1 \in 1 .. n
  BY <1>1, <1>2
<1>4. Break(u, a) /\ Blanks(u, a + 2, b)
  <2>1. \A k \in a + 2 .. b : k \in 1 .. n
    BY <1>1, <1>2
  <2>. QED  BY <1>1, <1>2, <1>3, <2>1 DEF Break, Blanks
<1>5. Folded(u, i)
  BY <1>1, <1>2, <1>3, <1>4, FoldedIs
<1>. QED  BY <1>5 DEF u

(* What a character folds that was not folded before: it is white space,   *)
(* and a line break is right before it.                                    *)
LEMMA FoldedAnew ==
    ASSUME NEW t \in Seq(Chars), NEW c \in Chars, NEW i \in 1 .. Len(t) + 1,
           Folded(Append(t, c), i)
    PROVE  /\ c \notin Blank => i \in 1 .. Len(t) /\ Folded(t, i)
           /\ \/ i \in 1 .. Len(t) /\ Folded(t, i)
              \/ i = Len(t) + 1 /\ Hangs(t)
              \/ i >= Len(t) - 1 /\ Broken(t)
<1>. DEFINE u == Append(t, c)
            n == Len(t)
<1>1. /\ u \in Seq(Chars) /\ n \in Nat /\ Len(u) = n + 1 /\ u[n + 1] = c
      /\ \A k \in 1 .. n : u[k] = t[k]
  BY OneMore
<1>. HIDE DEF u
<1>2. PICK a \in 1 .. i, b \in i .. n + 1 : a + 2 <= b /\ Break(u, a) /\ Blanks(u, a + 2, b)
  <2>1. i \in 1 .. Len(u) /\ Folded(u, i)
    BY <1>1 DEF u
  <2>. QED  BY <1>1, <2>1, FoldedIs
<1>3. a \in 1 .. n /\ a + 1 \in 1 .. n /\ Break(t, a)
  <2>1. a \in 1 .. n /\ a + 1 \in 1 .. n
    BY <1>1, <1>2
  <2>. QED  BY <1>1, <1>2, <2>1 DEF Break
<1>4. CASE b <= n
  <2>1. i \in 1 .. n /\ b \in i .. n
    BY <1>1, <1>2, <1>4
  <2>2. \A k \in a + 2 .. b : k \in 1 .. n
    BY <1>1, <1>2, <1>4
  <2>3. Blanks(t, a + 2, b)
    BY <1>1, <1>2, <2>2 DEF Blanks
  <2>4. Folded(t, i)
    BY <1>2, <1>3, <2>1, <2>3, FoldedIs
  <2>. QED  BY <2>1, <2>4
<1>5. CASE b = n + 1
  <2>1. c \in Blank
    <3>1. n + 1 \in a + 2 .. b
      BY <1>1, <1>2, <1>5
    <3>. QED  BY <1>1, <1>2, <3>1 DEF Blanks
  <2>2. CASE a + 2 <= n
    <3>1. \A k \in a + 2 .. n : k \in 1 .. n /\ k \in a + 2 .. b
      BY <1>1, <1>5
    <3>2. Blanks(t, a + 2, n)
      BY <1>1, <1>2, <3>1 DEF Blanks
    <3>3. Hangs(t)
      <4>1. a \in 1 .. n - 2
        BY <1>1, <1>3, <2>2
      <4>. QED  BY <1>3, <3>2, <4>1 DEF Hangs
    <3>4. i \in 1 .. n => Folded(t, i)
      <4>. SUFFICES ASSUME i \in 1 .. n PROVE Folded(t, i)
        OBVIOUS
      <4>1. n \in i .. n
        BY <1>1
      <4>. QED  BY <1>2, <1>3, <2>2, <3>2, <4>1, FoldedIs
    <3>5. i \in 1 .. n \/ i = n + 1
      BY <1>1
    <3>. QED  BY <2>1, <3>3, <3>4, <3>5
  <2>3. CASE ~ (a + 2 <= n)
    <3>1. a = n - 1 /\ n >= 2
      BY <1>1, <1>3, <2>3
    <3>2. Broken(t)
      BY <1>3, <3>1 DEF Broken
    <3>3. i >= n - 1
      BY <1>1, <1>2, <3>1
    <3>. QED  BY <2>1, <3>2, <3>3
  <2>. QED  BY <2>2, <2>3
<1>. QED  BY <1>1, <1>2, <1>4, <1>5

(* The last line break of a text is not folded yet.                        *)
LEMMA BreakIsKept ==
    ASSUME NEW t \in Seq(Chars), Broken(t)
    PROVE  ~ Folded(t, Len(t) - 1) /\ ~ Folded(t, Len(t))
<1>. DEFINE n == Len(t)
<1>1. n \in Nat /\ n >= 2 /\ t[n - 1] = "CR" /\ t[n] = "LF" /\ n - 1 \in 1 .. n /\ n \in 1 .. n
  <2>1. n \in Nat /\ n >= 2
    BY LenProperties DEF Broken
  <2>2. (n - 1) + 1 = n /\ n - 1 \in 1 .. n /\ n \in 1 .. n
    BY <2>1
  <2>. QED  BY <2>1, <2>2 DEF Broken, Break
<1>2. ASSUME NEW i \in {n - 1, n}, Folded(t, i) PROVE FALSE
  <2>1. i \in 1 .. n
    BY <1>1
  <2>2. PICK a \in 1 .. i, b \in i .. n : a + 2 <= b /\ Break(t, a) /\ Blanks(t, a + 2, b)
    BY <1>2, <2>1, FoldedIs
  <2>3. b \in a + 2 .. b /\ (b = n - 1 \/ b = n)
    BY <1>1, <2>2
  <2>4. t[b] \in Blank
    BY <2>2, <2>3 DEF Blanks
  <2>. QED  BY <1>1, <2>3, <2>4 DEF Blank
<1>. QED  BY <1>2

(* White space right after a line break folds it.                          *)
LEMMA BreakIsFolded ==
    ASSUME NEW t \in Seq(Chars), Broken(t), NEW c \in Blank, c \in Chars
    PROVE  \A i \in Len(t) - 1 .. Len(t) + 1 : Folded(Append(t, c), i)
<1>. DEFINE u == Append(t, c)
            n == Len(t)
<1>1. /\ u \in Seq(Chars) /\ n \in Nat /\ Len(u) = n + 1 /\ u[n + 1] = c
      /\ \A k \in 1 .. n : u[k] = t[k]
  BY OneMore
<1>2. n >= 2 /\ Break(t, n - 1)
  BY DEF Broken
<1>. HIDE DEF u, n
<1>3. Break(u, n - 1) /\ Blanks(u, n - 1 + 2, n + 1)
  <2>1. n - 1 \in 1 .. n /\ n \in 1 .. n /\ (n - 1) + 1 = n /\ \A k \in n - 1 + 2 .. n + 1 : k = n + 1
    BY <1>1, <1>2
  <2>. QED  BY <1>1, <1>2, <2>1 DEF Break, Blanks
<1>4. ASSUME NEW i \in n - 1 .. n + 1 PROVE Folded(u, i)
  <2>1. i \in 1 .. Len(u) /\ n - 1 \in 1 .. i /\ n + 1 \in i .. Len(u) /\ n - 1 + 2 <= n + 1
    BY <1>1, <1>2
  <2>. QED  BY <1>1, <1>3, <2>1, FoldedIs
<1>. QED  BY <1>4 DEF u, n

(* ... and white space after more of it is folded too.                     *)
LEMMA BlankIsFolded ==
    ASSUME NEW t \in Seq(Chars), Hangs(t), NEW c \in Blank, c \in Chars
    PROVE  Folded(Append(t, c), Len(t) + 1)
<1>. DEFINE u == Append(t, c)
            n == Len(t)
<1>1. /\ u \in Seq(Chars) /\ n \in Nat /\ Len(u) = n + 1 /\ u[n + 1] = c
      /\ \A k \in 1 .. n : u[k] = t[k]
  BY OneMore
<1>2. PICK a \in 1 .. n - 2 : Break(t, a) /\ Blanks(t, a + 2, n)
  BY DEF Hangs
<1>. HIDE DEF u, n
<1>3. Break(u, a) /\ Blanks(u, a + 2, n + 1)
  <2>1. a \in 1 .. n /\ a + 1 \in 1 .. n
    BY <1>1
  <2>2. ASSUME NEW k \in a + 2 .. n + 1 PROVE u[k] \in Blank
    <3>1. k = n + 1 \/ (k \in 1 .. n /\ k \in a + 2 .. n)
      BY <1>1
    <3>. QED  BY <1>1, <1>2, <3>1 DEF Blanks
  <2>. QED  BY <1>1, <1>2, <2>1, <2>2 DEF Break, Blanks
<1>4. n + 1 \in 1 .. Len(u) /\ a \in 1 .. n + 1 /\ n + 1 \in n + 1 .. Len(u) /\ a + 2 <= n + 1
  BY <1>1
<1>5. Folded(u, n + 1)
  BY <1>1, <1>3, <1>4, FoldedIs
<1>. QED  BY <1>5 DEF u, n

(* How a character more changes the end.                                   *)
LEMMA EndOfMore ==
    ASSUME NEW t \in Seq(Chars), NEW c \in Chars
    PROVE  /\ Hangs(Append(t, c)) => c \in Blank /\ (Hangs(t) \/ Broken(t))
           /\ c \in Blank /\ (Hangs(t) \/ Broken(t)) => Hangs(Append(t, c))
           /\ Broken(Append(t, c)) <=> c = "LF" /\ t # <<>> /\ t[Len(t)] = "CR"
<1>. DEFINE u == Append(t, c)
            n == Len(t)
<1>1. /\ u \in Seq(Chars) /\ n \in Nat /\ Len(u) = n + 1 /\ u[n + 1] = c
      /\ \A k \in 1 .. n : u[k] = t[k]
  BY OneMore
<1>2. t # <<>> <=> n >= 1
  BY <1>1, EmptySeq
<1>. HIDE DEF u
<1>3. ASSUME Hangs(u) PROVE c \in Blank /\ (Hangs(t) \/ Broken(t))
  <2>1. PICK a \in 1 .. (n + 1) - 2 : Break(u, a) /\ Blanks(u, a + 2, n + 1)
    BY <1>1, <1>3 DEF Hangs
  <2>2. a \in 1 .. n /\ a + 1 \in 1 .. n /\ n + 1 \in a + 2 .. n + 1
    BY <1>1, <2>1
  <2>3. c \in Blank /\ Break(t, a)
    BY <1>1, <2>1, <2>2 DEF Break, Blanks
  <2>4. CASE a = n - 1
    <3>1. n >= 2
      BY <1>1, <2>4
    <3>. QED  BY <2>3, <2>4, <3>1 DEF Broken
  <2>5. CASE a # n - 1
    <3>1. a \in 1 .. n - 2 /\ \A k \in a + 2 .. n : k \in a + 2 .. n + 1 /\ k \in 1 .. n
      BY <1>1, <2>1, <2>5
    <3>2. Blanks(t, a + 2, n)
      BY <1>1, <2>1, <3>1 DEF Blanks
    <3>. QED  BY <2>3, <3>1, <3>2 DEF Hangs
  <2>. QED  BY <2>3, <2>4, <2>5
<1>4. ASSUME c \in Blank, NEW a \in 1 .. n - 1, Break(t, a), Blanks(t, a + 2, n) PROVE Hangs(u)
  <2>1. a \in 1 .. n /\ a + 1 \in 1 .. n /\ a \in 1 .. (n + 1) - 2
    BY <1>1
  <2>2. ASSUME NEW k \in a + 2 .. n + 1 PROVE u[k] \in Blank
    <3>1. k = n + 1 \/ (k \in 1 .. n /\ k \in a + 2 .. n)
      BY <1>1
    <3>. QED  BY <1>1, <1>4, <3>1 DEF Blanks
  <2>3. Break(u, a) /\ Blanks(u, a + 2, Len(u))
    BY <1>1, <1>4, <2>1, <2>2 DEF Break, Blanks
  <2>. QED  BY <1>1, <2>1, <2>3 DEF Hangs
<1>5. ASSUME c \in Blank, Hangs(t) PROVE Hangs(u)
  <2>1. PICK a \in 1 .. n - 2 : Break(t, a) /\ Blanks(t, a + 2, n)
    BY <1>5 DEF Hangs
  <2>2. a \in 1 .. n - 1
    BY <1>1
  <2>. QED  BY <1>4, <1>5, <2>1, <2>2
<1>6. ASSUME c \in Blank, Broken(t) PROVE Hangs(u)
  <2>1. n - 1 \in 1 .. n - 1 /\ Break(t, n - 1) /\ Blanks(t, n - 1 + 2, n)
    <3>1. n >= 2 /\ Break(t, n - 1)
      BY <1>6 DEF Broken
    <3>2. \A k \in n - 1 + 2 .. n : FALSE
      BY <1>1
    <3>. QED  BY <1>1, <3>1, <3>2 DEF Blanks
  <2>. QED  BY <1>4, <1>6, <2>1
<1>7. Broken(u) <=> c = "LF" /\ n >= 1 /\ t[n] = "CR"
  <2>1. (n + 1) - 1 = n /\ (n + 1 >= 2 <=> n >= 1)
    BY <1>1
  <2>2. n >= 1 => n \in 1 .. n
    BY <1>1
  <2>. QED  BY <1>1, <2>1, <2>2 DEF Broken, Break
<1>. QED  BY <1>2, <1>3, <1>5, <1>6, <1>7 DEF u

Sifts(t, f) ==
    /\ f[0] = <<>>
    /\ \A i \in 1 .. Len(t) : f[i] = IF Folded(t, i) THEN f[i - 1] ELSE Append(f[i - 1], t[i])

LEMMA SiftExists ==
    ASSUME NEW t \in Seq(Chars)
    PROVE  \E f \in [0 .. Len(t) -> Seq(Chars)] : Sifts(t, f)
<1>. DEFINE n == Len(t)
            G == [x \in Seq(Chars) \X (1 .. n) |-> IF Folded(t, x[2]) THEN x[1] ELSE Append(x[1], t[x[2]])]
<1>1. n \in Nat /\ \A i \in 1 .. n : t[i] \in Chars
  BY LenProperties, ElementOfSeq
<1>. HIDE DEF n
<1>2. \A s \in Seq(Chars), i \in 1 .. n : Append(s, t[i]) \in Seq(Chars)
  BY <1>1, AppendProperties
<1>3. \A x \in Seq(Chars) \X (1 .. n) : x[1] \in Seq(Chars) /\ x[2] \in 1 .. n
  OBVIOUS
<1>4. G \in [Seq(Chars) \X (1 .. n) -> Seq(Chars)]
  BY <1>2, <1>3
<1>5. \A s \in Seq(Chars), i \in 1 .. n : G[<<s, i>>] = IF Folded(t, i) THEN s ELSE Append(s, t[i])
  OBVIOUS
<1>. HIDE DEF G
<1>6. PICK f : Obeys(f, Seq(Chars), <<>>, n, G)
  <2>1. <<>> \in Seq(Chars)
    OBVIOUS
  <2>. QED  BY <1>1, <1>4, <2>1, Recursion, Zenon
<1>7. ASSUME NEW i \in 1 .. n PROVE f[i] = IF Folded(t, i) THEN f[i - 1] ELSE Append(f[i - 1], t[i])
  <2>1. f[i - 1] \in Seq(Chars)
    BY <1>1, <1>6 DEF Obeys
  <2>. QED  BY <1>5, <1>6, <2>1 DEF Obeys
<1>. QED  BY <1>6, <1>7 DEF Sifts, n, Obeys

LEMMA UnfoldedIs ==
    ASSUME NEW t \in Seq(Chars), NEW f, Sifts(t, f)
    PROVE  Unfolded(t) = f[Len(t)]
<1>. DEFINE n == Len(t)
            Is(g) == g = [i \in 0 .. n |-> IF i = 0 THEN <<>>
                                           ELSE IF Folded(t, i) THEN g[i - 1] ELSE Append(g[i - 1], t[i])]
            g == CHOOSE h : Is(h)
            S == {i \in 0 .. n : g[i] = f[i]}
<1>1. n \in Nat
  BY LenProperties
<1>2. \E h : Is(h)
  <2>1. PICK h \in [0 .. n -> Seq(Chars)] : Sifts(t, h)
    BY SiftExists
  <2>2. ASSUME NEW i \in 0 .. n
        PROVE  h[i] = IF i = 0 THEN <<>>
                      ELSE IF Folded(t, i) THEN h[i - 1] ELSE Append(h[i - 1], t[i])
    <3>1. i # 0 => i \in 1 .. n
      BY <1>1
    <3>. QED  BY <2>1, <3>1 DEF Sifts
  <2>3. h = [i \in 0 .. n |-> h[i]]
    OBVIOUS
  <2>4. Is(h)
    BY <2>2, <2>3
  <2>. QED  BY <2>4
<1>3. Is(g)
  <2>. HIDE DEF Is
  <2>. QED  BY <1>2
<1>4. Unfolded(t) = g[n]
  BY DEF Unfolded
<1>. HIDE DEF g
<1>5. \A i \in 0 .. n : g[i] = IF i = 0 THEN <<>>
                               ELSE IF Folded(t, i) THEN g[i - 1] ELSE Append(g[i - 1], t[i])
  BY <1>3
<1>. HIDE DEF Is, n
<1>6. 0 \in S
  <2>1. g[0] = <<>>
    BY <1>1, <1>5
  <2>. QED  BY <1>1, <2>1 DEF Sifts
<1>7. ASSUME NEW i \in 1 .. n, i - 1 \in S PROVE i \in S
  <2>1. i \in 0 .. n /\ i # 0 /\ g[i - 1] = f[i - 1]
    BY <1>1, <1>7
  <2>2. f[i] = IF Folded(t, i) THEN f[i - 1] ELSE Append(f[i - 1], t[i])
    BY DEF Sifts, n
  <2>. QED  BY <1>5, <2>1, <2>2
<1>. HIDE DEF S
<1>8. \A i \in 0 .. n : i \in S
  BY <1>1, <1>6, <1>7, Induction
<1>9. n \in S
  BY <1>1, <1>8
<1>. QED  BY <1>4, <1>9 DEF S, n

(* A character that folds nothing is kept, one of a fold is dropped.       *)
LEMMA UnfoldedMore ==
    ASSUME NEW t \in Seq(Chars), NEW c \in Chars
    PROVE  /\ Unfolded(t) \in Seq(Chars)
           /\ c \notin Blank \/ ~ (Hangs(t) \/ Broken(t)) => Unfolded(Append(t, c)) = Append(Unfolded(t), c)
           /\ c \in Blank /\ Hangs(t) /\ ~ Broken(t) => Unfolded(Append(t, c)) = Unfolded(t)
<1>. DEFINE u == Append(t, c)
            n == Len(t)
<1>1. /\ u \in Seq(Chars) /\ n \in Nat /\ Len(u) = n + 1 /\ u[n + 1] = c
      /\ \A k \in 1 .. n : u[k] = t[k]
  BY OneMore
<1>2. \A i \in 1 .. n : Folded(t, i) => Folded(u, i)
  BY FoldedStays
<1>3. \A i \in 1 .. n + 1 : Folded(u, i) =>
         /\ c \notin Blank => i \in 1 .. n /\ Folded(t, i)
         /\ \/ i \in 1 .. n /\ Folded(t, i)
            \/ i = n + 1 /\ Hangs(t)
            \/ i >= n - 1 /\ Broken(t)
  BY FoldedAnew
<1>4. c \in Blank /\ Hangs(t) => Folded(u, n + 1)
  BY BlankIsFolded
<1>. HIDE DEF u, n
<1>5. /\ n + 1 \in 1 .. n + 1 /\ n + 1 \notin 1 .. n /\ (n + 1) - 1 = n
      /\ \A i \in 1 .. n : i \in 1 .. n + 1 /\ i # n + 1
  BY <1>1
<1>6. PICK f \in [0 .. Len(u) -> Seq(Chars)] : Sifts(u, f)
  BY <1>1, SiftExists
<1>7. Unfolded(u) = f[n + 1]
  BY <1>1, <1>6, UnfoldedIs
<1>8. f[n + 1] = IF Folded(u, n + 1) THEN f[n] ELSE Append(f[n], c)
  <2>1. f[n + 1] = IF Folded(u, n + 1) THEN f[(n + 1) - 1] ELSE Append(f[(n + 1) - 1], u[n + 1])
    BY <1>1, <1>5, <1>6 DEF Sifts
  <2>. QED  BY <1>1, <1>5, <2>1
<1>9. ASSUME \A i \in 1 .. n : Folded(u, i) => Folded(t, i)
      PROVE  Unfolded(t) = f[n]
  <2>1. \A i \in 1 .. n : f[i] = IF Folded(u, i) THEN f[i - 1] ELSE Append(f[i - 1], u[i])
    BY <1>1, <1>5, <1>6 DEF Sifts
  <2>2. \A i \in 1 .. n : f[i] = IF Folded(t, i) THEN f[i - 1] ELSE Append(f[i - 1], t[i])
    BY <1>1, <1>2, <1>9, <2>1
  <2>3. Sifts(t, f)
    BY <1>6, <2>2 DEF Sifts, n
  <2>. QED  BY <2>3, UnfoldedIs DEF n
<1>10. Unfolded(t) \in Seq(Chars)
  <2>1. PICK g \in [0 .. n -> Seq(Chars)] : Sifts(t, g)
    BY SiftExists DEF n
  <2>2. Unfolded(t) = g[n] /\ n \in 0 .. n
    BY <1>1, <2>1, UnfoldedIs DEF n
  <2>. QED  BY <2>2
<1>11. ASSUME c \notin Blank \/ ~ (Hangs(t) \/ Broken(t)) PROVE Unfolded(u) = Append(Unfolded(t), c)
  <2>1. ~ Folded(u, n + 1) /\ \A i \in 1 .. n : Folded(u, i) => Folded(t, i)
    BY <1>3, <1>5, <1>11
  <2>. QED  BY <1>7, <1>8, <1>9, <2>1
<1>12. ASSUME c \in Blank, Hangs(t), ~ Broken(t) PROVE Unfolded(u) = Unfolded(t)
  <2>1. Folded(u, n + 1) /\ \A i \in 1 .. n : Folded(u, i) => Folded(t, i)
    BY <1>3, <1>4, <1>5, <1>12
  <2>. QED  BY <1>7, <1>8, <1>9, <2>1
<1>. QED  BY <1>10, <1>11, <1>12 DEF u

(* White space right after a line break takes the line break away.         *)
LEMMA UnfoldedBreak ==
    ASSUME NEW t \in Seq(Chars), Broken(t), NEW c \in Blank, c \in Chars
    PROVE  Unfolded(t) = Append(Append(Unfolded(Append(t, c)), "CR"), "LF")
<1>. DEFINE u == Append(t, c)
            n == Len(t)
<1>1. /\ u \in Seq(Chars) /\ n \in Nat /\ Len(u) = n + 1
      /\ \A k \in 1 .. n : u[k] = t[k]
  BY OneMore
<1>2. n >= 2 /\ t[n - 1] = "CR" /\ t[n] = "LF"
  <2>1. (n - 1) + 1 = n
    BY <1>1
  <2>. QED  BY <2>1 DEF Broken, Break
<1>3. \A i \in n - 1 .. n + 1 : Folded(u, i)
  BY BreakIsFolded
<1>4. ~ Folded(t, n - 1) /\ ~ Folded(t, n)
  BY BreakIsKept
<1>5. \A i \in 1 .. n : Folded(t, i) => Folded(u, i)
  BY FoldedStays
<1>6. \A i \in 1 .. n + 1 : Folded(u, i) =>
         \/ i \in 1 .. n /\ Folded(t, i)
         \/ i = n + 1 /\ Hangs(t)
         \/ i >= n - 1 /\ Broken(t)
  BY FoldedAnew
<1>. HIDE DEF u, n
<1>7. PICK f \in [0 .. Len(u) -> Seq(Chars)] : Sifts(u, f)
  BY <1>1, SiftExists
<1>. DEFINE x == f[n - 2]
            y == Append(x, "CR")
            z == Append(y, "LF")
            g == [i \in 0 .. n |-> IF i = n THEN z ELSE IF i = n - 1 THEN y ELSE f[i]]
<1>8. Unfolded(u) = x
  <2>1. \A i \in 1 .. n + 1 : Folded(u, i) => f[i] = f[i - 1]
    BY <1>1, <1>7 DEF Sifts
  <2>2. n - 1 \in 1 .. n + 1 /\ n \in 1 .. n + 1 /\ n + 1 \in 1 .. n + 1
        /\ n - 1 \in n - 1 .. n + 1 /\ n \in n - 1 .. n + 1 /\ n + 1 \in n - 1 .. n + 1
        /\ (n - 1) - 1 = n - 2 /\ (n + 1) - 1 = n
    BY <1>1, <1>2
  <2>3. f[n - 1] = f[(n - 1) - 1] /\ f[n] = f[n - 1] /\ f[n + 1] = f[(n + 1) - 1]
    BY <1>3, <2>1, <2>2
  <2>4. Unfolded(u) = f[n + 1]
    BY <1>1, <1>7, UnfoldedIs
  <2>. QED  BY <2>2, <2>3, <2>4
<1>9. /\ n \in 0 .. n /\ n - 1 \in 0 .. n /\ n - 1 # n /\ n - 2 \in 0 .. n /\ n - 2 # n /\ n - 2 # n - 1
      /\ 0 \in 0 .. n /\ 0 # n /\ 0 # n - 1 /\ (n - 1) - 1 = n - 2
  BY <1>1, <1>2
<1>10. g[n] = z /\ g[n - 1] = y /\ \A i \in 0 .. n : i # n /\ i # n - 1 => g[i] = f[i]
  <2>. HIDE DEF y, z
  <2>. QED  BY <1>9
<1>11. g[n - 2] = x /\ g[0] = <<>>
  <2>. HIDE DEF g
  <2>. QED  BY <1>7, <1>9, <1>10 DEF Sifts
<1>. HIDE DEF g
<1>12. ASSUME NEW i \in 1 .. n PROVE g[i] = IF Folded(t, i) THEN g[i - 1] ELSE Append(g[i - 1], t[i])
  <2>1. CASE i = n
    <3>1. g[i] = Append(g[i - 1], "LF")
      BY <1>10, <2>1
    <3>. QED  BY <1>2, <1>4, <2>1, <3>1
  <2>2. CASE i = n - 1
    <3>1. g[i] = Append(g[i - 1], "CR")
      BY <1>9, <1>10, <1>11, <2>2
    <3>. QED  BY <1>2, <1>4, <2>2, <3>1
  <2>3. CASE i # n /\ i # n - 1
    <3>1. /\ i \in 0 .. n /\ i - 1 \in 0 .. n /\ i - 1 # n /\ i - 1 # n - 1
          /\ i \in 1 .. n + 1 /\ ~ (i >= n - 1) /\ i # n + 1
      BY <1>1, <2>3
    <3>2. g[i] = f[i] /\ g[i - 1] = f[i - 1]
      BY <1>10, <2>3, <3>1
    <3>3. f[i] = IF Folded(u, i) THEN f[i - 1] ELSE Append(f[i - 1], u[i])
      BY <1>1, <1>7, <3>1 DEF Sifts
    <3>4. Folded(u, i) <=> Folded(t, i)
      BY <1>5, <1>6, <3>1
    <3>. QED  BY <1>1, <3>2, <3>3, <3>4
  <2>. QED  BY <2>1, <2>2, <2>3
<1>13. Sifts(t, g)
  BY <1>11, <1>12 DEF Sifts, n
<1>14. Unfolded(t) = g[n]
  BY <1>13, UnfoldedIs DEF n
<1>. QED  BY <1>8, <1>10, <1>14 DEF u

-----------------------------------------------------------------------------
(* Where each rule leads, and from which characters.                       *)

MethodMoves(s, c, to, does) ==
    \/ s \in {"METHOD_START", "METHOD"} /\ c \in Alpha /\ to = "METHOD" /\ does = "method"
    \/ s = "METHOD" /\ c = "SP" /\ to = "URI" /\ does = "skip"
    \/ s = "URI" /\ c = "SP" /\ to = "HTTP_VERSION_H" /\ does = "skip"
    \/ s = "URI" /\ c \in UriChars /\ to = "URI" /\ does = "uri"

VersionMoves(s, c, to, does) ==
    \/ VersionWord(s, c, to) /\ to # "HEADER_LINE_START" /\ does = "skip"
    \/ s = "HTTP_VERSION_MAJOR_START" /\ c \in Digits /\ to = "HTTP_VERSION_MAJOR" /\ does = "setMajor"
    \/ s = "HTTP_VERSION_MAJOR" /\ c \in Digits /\ to = "HTTP_VERSION_MAJOR" /\ does = "major"
    \/ s = "HTTP_VERSION_MAJOR" /\ c = "DOT" /\ to = "HTTP_VERSION_MINOR_START" /\ does = "skip"
    \/ s = "HTTP_VERSION_MINOR_START" /\ c \in Digits /\ to = "HTTP_VERSION_MINOR" /\ does = "setMinor"
    \/ s = "HTTP_VERSION_MINOR" /\ c \in Digits /\ to = "HTTP_VERSION_MINOR" /\ does = "minor"
    \/ s = "HTTP_VERSION_MINOR" /\ c = "CR" /\ to = "EXPECTING_NEWLINE_1" /\ does = "skip"
    \/ s = "EXPECTING_NEWLINE_1" /\ c = "LF" /\ to = "HEADER_LINE_START" /\ does = "skip"

StartMoves(s, r, c, to, does) ==
    /\ s = "HEADER_LINE_START"
    /\ \/ c = "CR" /\ to = "EXPECTING_NEWLINE_3" /\ does = "skip"
       \/ c \in NameChars /\ to = "HEADER_NAME" /\ does = "newHeader"
       \/ r.headers # <<>> /\ c \in Blank /\ to = "HEADER_LWS" /\ does = "skip"

LineMoves(s, c, to, does) ==
    \/ s = "HEADER_NAME" /\ c \in NameChars /\ to = "HEADER_NAME" /\ does = "name"
    \/ s = "HEADER_NAME" /\ c = "COLON" /\ to = "SPACE_BEFORE_HEADER_VALUE" /\ does = "skip"
    \/ s = "SPACE_BEFORE_HEADER_VALUE" /\ c = "SP" /\ to = "HEADER_VALUE" /\ does = "skip"
    \/ s = "HEADER_VALUE" /\ c \in Chars \ Control /\ to = "HEADER_VALUE" /\ does = "value"
    \/ s = "HEADER_LWS" /\ c \in Chars \ (Control \cup {"SP"}) /\ to = "HEADER_VALUE" /\ does = "value"
    \/ s = "HEADER_LWS" /\ c \in Blank /\ to = "HEADER_LWS" /\ does = "skip"
    \/ s \in {"HEADER_LWS", "HEADER_VALUE"} /\ c = "CR" /\ to = "EXPECTING_NEWLINE_2" /\ does = "skip"
    \/ s = "EXPECTING_NEWLINE_2" /\ c = "LF" /\ to = "HEADER_LINE_START" /\ does = "skip"

LEMMA RulesMove ==
    ASSUME NEW s, NEW r, NEW c, NEW rule \in RulesFor(s, r, c)
    PROVE  \/ MethodMoves(s, c, rule.to, rule.does)
           \/ VersionMoves(s, c, rule.to, rule.does)
           \/ StartMoves(s, r, c, rule.to, rule.does)
           \/ LineMoves(s, c, rule.to, rule.does)
<1>1. /\ rule.from = s /\ c \in rule.on
      /\ rule \in IF s = "HEADER_LINE_START" THEN LineStartRules(r) ELSE FixedRules
  BY DEF RulesFor
<1>2. CASE s = "HEADER_LINE_START"
  <2>1. rule \in LineStartRules(r)
    BY <1>1, <1>2
  <2>2. CASE MayFold(r)
    BY <1>1, <1>2, <2>1, <2>2 DEF LineStartRules, Rule, MayFold, StartMoves, NameChars, Blank
  <2>3. CASE ~ MayFold(r)
    BY <1>1, <1>2, <2>1, <2>3 DEF LineStartRules, Rule, StartMoves, NameChars
  <2>. QED  BY <2>2, <2>3
<1>3. CASE s # "HEADER_LINE_START"
  <2>1. rule \in MethodRules \/ rule \in UriRules \/ rule \in VersionRules \/ rule \in HeaderRules
    BY <1>1, <1>3 DEF FixedRules
  <2>2. CASE rule \in MethodRules \/ rule \in UriRules
    BY <1>1, <2>2 DEF MethodRules, UriRules, Rule, MethodMoves, UriChars
  <2>3. CASE rule \in VersionRules
    BY <1>1, <2>3 DEF VersionRules, Rule, VersionMoves, VersionWord
  <2>4. CASE rule \in HeaderRules
    BY <1>1, <2>4 DEF HeaderRules, Rule, LineMoves, NameChars, Blank
  <2>. QED  BY <2>1, <2>2, <2>3, <2>4
<1>. QED  BY <1>2, <1>3

-----------------------------------------------------------------------------
(* The text of a request, from the beginning on.                           *)

Names == Seq(NameChars) \ {<<>>}
Values == Seq(Chars \ Control)
Flat(hs) == FlattenSeq([i \in 1 .. Len(hs) |-> HeaderText(hs[i])])

Line(m, u) == Append(m, "SP") \o u
Major(m, u, A) == (Line(m, u) \o VersionText) \o A
Minor(m, u, A, B) == Append(Major(m, u, A), "DOT") \o B
Whole(m, u, A, B, hs) == Append(Append(Minor(m, u, A, B), "CR"), "LF") \o Flat(hs)
Valued(x, n, v) == Append(Append(x \o n, "COLON"), "SP") \o v

LEMMA Appending ==
    ASSUME NEW x \in Seq(Chars), NEW c \in Chars
    PROVE  /\ Append(x, c) \in Seq(Chars) /\ x \o <<c>> = Append(x, c)
           /\ x \o <<>> = x
           /\ \A y \in Seq(Chars) : /\ x \o y \in Seq(Chars)
                                    /\ Append(x \o y, c) = x \o Append(y, c)
<1>1. Append(x, c) \in Seq(Chars) /\ x \o <<c>> = Append(x, c) /\ x \o <<>> = x
  BY AppendIsConcat, AppendProperties, ConcatEmptySeq
<1>2. ASSUME NEW y \in Seq(Chars)
      PROVE  x \o y \in Seq(Chars) /\ Append(x \o y, c) = x \o Append(y, c)
  <2>. DEFINE w == <<c>>
  <2>1. w \in Seq(Chars) /\ x \o y \in Seq(Chars)
    BY ConcatProperties
  <2>2. Append(x \o y, c) = (x \o y) \o w /\ Append(y, c) = y \o w
    BY <2>1, AppendIsConcat
  <2>. HIDE DEF w
  <2>3. (x \o y) \o w = x \o (y \o w)
    BY <2>1, ConcatAssociative
  <2>. QED  BY <2>1, <2>2, <2>3
<1>. QED  BY <1>1, <1>2

LEMMA AppendingMore ==
    ASSUME NEW x \in Seq(Chars), NEW y \in Seq(Chars), NEW c \in Chars
    PROVE  Append(x \o y, c) = x \o Append(y, c) /\ x \o y \in Seq(Chars)
<1>1. \A z \in Seq(Chars) : /\ x \o z \in Seq(Chars)
                            /\ Append(x \o z, c) = x \o Append(z, c)
  BY Appending
<1>. QED  BY <1>1

LEMMA AppendingTwo ==
    ASSUME NEW x \in Seq(Chars), NEW c \in Chars, NEW d \in Chars
    PROVE  x \o <<c, d>> = Append(Append(x, c), d)
<1>. DEFINE y == <<c>>
<1>1. y \in Seq(Chars) /\ <<c, d>> = Append(y, d)
  OBVIOUS
<1>2. x \o y = Append(x, c)
  BY Appending
<1>. HIDE DEF y
<1>3. Append(x \o y, d) = x \o Append(y, d)
  BY <1>1, Appending
<1>. QED  BY <1>1, <1>2, <1>3, Zenon

LEMMA Joining ==
    ASSUME NEW x \in Seq(Chars), NEW y \in Seq(Chars), NEW z \in Seq(Chars)
    PROVE  x \o y \in Seq(Chars) /\ x \o (y \o z) = (x \o y) \o z
BY ConcatAssociative, ConcatProperties

LEMMA FieldIs ==
    /\ \A n \in Names, v \in Values : Header(n, v) \in Field
    /\ \A h \in Field : h.name \in Names /\ h.value \in Values /\ h = Header(h.name, h.value)
    /\ Names \subseteq Seq(Chars) /\ Values \subseteq Seq(Chars)
    /\ \A n \in Names : n # <<>>
<1>1. Field = [name : Names, value : Values]
  BY DEF Field, Names, Values, NameChars
<1>2. Names \subseteq Seq(Chars) /\ Values \subseteq Seq(Chars)
  BY AreChars DEF Names, Values
<1>3. \A n \in Names : n # <<>>
  BY DEF Names
<1>. QED  BY <1>1, <1>2, <1>3 DEF Header

LEMMA HeaderTextIs ==
    ASSUME NEW x \in Seq(Chars), NEW n \in Names, NEW v \in Values
    PROVE  /\ HeaderText(Header(n, v)) \in Seq(Chars)
           /\ x \o HeaderText(Header(n, v)) = Append(Append(Valued(x, n, v), "CR"), "LF")
<1>. DEFINE colon == <<"COLON", "SP">>
            crlf == CRLF
            nc == n \o colon
            ncv == nc \o v
<1>0. "COLON" \in Chars /\ "SP" \in Chars /\ "CR" \in Chars /\ "LF" \in Chars
  BY Classes DEF Named
<1>1. n \in Seq(Chars) /\ v \in Seq(Chars) /\ colon \in Seq(Chars) /\ crlf \in Seq(Chars)
  BY <1>0, FieldIs DEF CRLF
<1>2. ASSUME NEW y \in Seq(Chars)
      PROVE  /\ y \o colon = Append(Append(y, "COLON"), "SP")
             /\ y \o crlf = Append(Append(y, "CR"), "LF")
  BY <1>0, AppendingTwo DEF CRLF
<1>3. HeaderText(Header(n, v)) = ncv \o crlf
  BY DEF HeaderText, Header
<1>. HIDE DEF colon, crlf
<1>4. nc \in Seq(Chars) /\ ncv \in Seq(Chars) /\ ncv \o crlf \in Seq(Chars)
  <2>1. nc \in Seq(Chars)
    BY <1>1, ConcatProperties
  <2>. HIDE DEF nc
  <2>2. ncv \in Seq(Chars)
    BY <1>1, <2>1, ConcatProperties
  <2>. HIDE DEF ncv
  <2>. QED  BY <1>1, <2>1, <2>2, ConcatProperties
<1>5. x \o (ncv \o crlf) = (x \o ncv) \o crlf /\ x \o ncv \in Seq(Chars)
  <2>. HIDE DEF ncv
  <2>. QED  BY <1>1, <1>4, Joining
<1>6. x \o ncv = ((x \o n) \o colon) \o v /\ x \o n \in Seq(Chars)
  <2>1. x \o (nc \o v) = (x \o nc) \o v
    <3>. HIDE DEF nc
    <3>. QED  BY <1>1, <1>4, Joining
  <2>2. x \o (n \o colon) = (x \o n) \o colon /\ x \o n \in Seq(Chars)
    BY <1>1, Joining
  <2>. QED  BY <2>1, <2>2, Zenon
<1>7. x \o ncv = Valued(x, n, v)
  BY <1>2, <1>6, Zenon DEF Valued
<1>8. (x \o ncv) \o crlf = Append(Append(x \o ncv, "CR"), "LF")
  BY <1>2, <1>5, Zenon
<1>. QED  BY <1>3, <1>4, <1>5, <1>7, <1>8, Zenon

LEMMA FlatOfNothing == Flat(<<>>) = <<>>
<1>. DEFINE texts == [i \in 1 .. Len(<<>>) |-> HeaderText(<<>>[i])]
<1>1. texts = <<>>
  BY EmptySeq
<1>. HIDE DEF texts
<1>2. FlattenSeq(texts) = <<>>
  BY <1>1, EmptySeq DEF FlattenSeq
<1>. QED  BY <1>2 DEF Flat, texts

(* A line more.                                                            *)
LEMMA FlatMore ==
    ASSUME NEW hs \in Seq(Field), NEW h \in Field
    PROVE  Flat(Append(hs, h)) = Flat(hs) \o HeaderText(h)
<1>. DEFINE gs == Append(hs, h)
            n == Len(hs)
            texts == [i \in 1 .. Len(hs) |-> HeaderText(hs[i])]
            more == [i \in 1 .. Len(gs) |-> HeaderText(gs[i])]
<1>1. /\ n \in Nat /\ gs \in Seq(Field) /\ Len(gs) = n + 1 /\ gs[n + 1] = h
      /\ \A i \in 1 .. n : gs[i] = hs[i]
  BY AppendProperties, LenProperties
<1>. HIDE DEF gs
<1>2. /\ Len(texts) = n /\ Len(more) = n + 1 /\ more[n + 1] = HeaderText(h)
      /\ \A i \in 1 .. n : more[i] = texts[i]
  BY <1>1
<1>3. Flat(hs) = FlattenSeq(texts) /\ Flat(gs) = FlattenSeq(more)
  BY DEF Flat
<1>4. h.name \in Seq(Chars) /\ HeaderText(h) \in Seq(Chars)
  <2>1. h.name \in Names /\ h.value \in Values /\ h = Header(h.name, h.value) /\ Names \subseteq Seq(Chars)
    BY FieldIs
  <2>2. h.name \in Seq(Chars)
    BY <2>1
  <2>3. HeaderText(Header(h.name, h.value)) \in Seq(Chars)
    BY <2>1, <2>2, HeaderTextIs
  <2>. QED  BY <2>1, <2>2, <2>3, Zenon
<1>. HIDE DEF texts, more
<1>5. PICK g : /\ g[1] = more[1]
               /\ \A i \in 2 .. n + 1 : g[i] = g[i - 1] \o more[i]
               /\ FlattenSeq(more) = g[n + 1]
  <2>1. Len(more) \in Nat \ {0}
    BY <1>1, <1>2
  <2>. QED  BY <1>2, <2>1, FlattenIs
<1>6. CASE n = 0
  <2>1. hs = <<>>
    BY <1>6, EmptySeq DEF n
  <2>2. Flat(hs) = <<>>
    BY <2>1, FlatOfNothing
  <2>3. Flat(gs) = HeaderText(h)
    BY <1>2, <1>3, <1>5, <1>6
  <2>4. <<>> \o HeaderText(h) = HeaderText(h)
    BY <1>4, ConcatEmptySeq
  <2>. QED  BY <2>2, <2>3, <2>4 DEF gs
<1>7. CASE n # 0
  <2>1. PICK f : /\ f[1] = texts[1]
                 /\ \A i \in 2 .. n : f[i] = f[i - 1] \o texts[i]
                 /\ FlattenSeq(texts) = f[n]
    <3>1. Len(texts) \in Nat \ {0}
      BY <1>1, <1>2, <1>7
    <3>. QED  BY <1>2, <3>1, FlattenIs
  <2>. DEFINE S == {i \in 0 .. n : i = 0 \/ f[i] = g[i]}
  <2>2. 0 \in S
    BY <1>1
  <2>3. ASSUME NEW i \in 1 .. n, i - 1 \in S PROVE i \in S
    <3>1. CASE i = 1
      <4>1. f[1] = g[1]
        BY <1>1, <1>2, <1>5, <1>7, <2>1
      <4>. QED  BY <3>1, <4>1
    <3>2. CASE i # 1
      <4>1. i \in 2 .. n /\ i \in 2 .. n + 1 /\ i - 1 # 0
        BY <1>1, <3>2
      <4>2. f[i - 1] = g[i - 1]
        BY <2>3, <4>1
      <4>3. f[i] = f[i - 1] \o texts[i] /\ g[i] = g[i - 1] \o more[i] /\ more[i] = texts[i]
        BY <1>2, <1>5, <2>1, <4>1
      <4>4. i \in 0 .. n /\ f[i] = g[i]
        BY <4>1, <4>2, <4>3
      <4>. HIDE DEF n
      <4>. QED  BY <4>4
    <3>. QED  BY <3>1, <3>2
  <2>. HIDE DEF S
  <2>4. \A i \in 0 .. n : i \in S
    BY <1>1, <2>2, <2>3, Induction
  <2>5. f[n] = g[n]
    BY <1>1, <1>7, <2>4 DEF S
  <2>6. g[n + 1] = g[n] \o HeaderText(h)
    <3>1. n + 1 \in 2 .. n + 1 /\ (n + 1) - 1 = n
      BY <1>1, <1>7
    <3>. QED  BY <1>2, <1>5, <3>1
  <2>. QED  BY <1>3, <1>5, <2>1, <2>5, <2>6 DEF gs
<1>. QED  BY <1>6, <1>7

-----------------------------------------------------------------------------
(* What has been read, without the folds: in each state the beginning of   *)
(* the text of the request that is built, the version written A and B.     *)

Spelling == [HTTP_VERSION_H |-> <<"SP">>,
             HTTP_VERSION_T_1 |-> <<"SP", "H">>,
             HTTP_VERSION_T_2 |-> <<"SP", "H", "T">>,
             HTTP_VERSION_P |-> <<"SP", "H", "T", "T">>,
             HTTP_VERSION_SLASH |-> <<"SP", "H", "T", "T", "P">>,
             HTTP_VERSION_MAJOR_START |-> VersionText]

InWord == {"HTTP_VERSION_H", "HTTP_VERSION_T_1", "HTTP_VERSION_T_2", "HTTP_VERSION_P",
           "HTTP_VERSION_SLASH", "HTTP_VERSION_MAJOR_START"}

(* No header is read yet, and each part is what was read of it.            *)
EarlyText(s, m, u, w, A, B) ==
    /\ s = "METHOD_START" => m = <<>> /\ u = <<>> /\ w = <<>>
    /\ s # "METHOD_START" => m # <<>>
    /\ s = "METHOD" => u = <<>> /\ w = m
    /\ s = "URI" => w = Line(m, u)
    /\ s \in InWord => w = Line(m, u) \o Spelling[s]
    /\ s = "HTTP_VERSION_MAJOR" => w = Major(m, u, A)
    /\ s = "HTTP_VERSION_MINOR_START" => w = Append(Major(m, u, A), "DOT")
    /\ s = "HTTP_VERSION_MINOR" => w = Minor(m, u, A, B)
    /\ s = "EXPECTING_NEWLINE_1" => w = Append(Minor(m, u, A, B), "CR")

Early == {"METHOD_START", "METHOD", "URI", "HTTP_VERSION_MAJOR", "HTTP_VERSION_MINOR_START",
          "HTTP_VERSION_MINOR", "EXPECTING_NEWLINE_1"} \cup InWord

(* A header line after x, its name n and value v read so far.              *)
LineText(s, x, n, v, w) ==
    /\ s = "HEADER_NAME" => v = <<>> /\ w = x \o n
    /\ s = "SPACE_BEFORE_HEADER_VALUE" => v = <<>> /\ w = Append(x \o n, "COLON")
    /\ s \in {"HEADER_VALUE", "HEADER_LWS"} => w = Valued(x, n, v)
    /\ s = "EXPECTING_NEWLINE_2" => w = Append(Valued(x, n, v), "CR")

Shaped(s, r, w, A, B) ==
    /\ s \in Early => r.headers = <<>> /\ EarlyText(s, r.method, r.uri, w, A, B)
    /\ s \notin Early => r.method # <<>> /\ r.headers \in Seq(Field)
    /\ s = "HEADER_LINE_START" => w = Whole(r.method, r.uri, A, B, r.headers)
    /\ s = "EXPECTING_NEWLINE_3" => w = Append(Whole(r.method, r.uri, A, B, r.headers), "CR")
    /\ s \in Lines =>
          \E hs \in Seq(Field), n \in Names, v \in Values :
              /\ r.headers = Append(hs, Header(n, v))
              /\ LineText(s, Whole(r.method, r.uri, A, B, hs), n, v, w)

LEMMA TextsAreChars ==
    ASSUME NEW m \in Seq(Alpha), NEW u \in Seq(UriChars), NEW A \in Seq(Digits), NEW B \in Seq(Digits)
    PROVE  /\ m \in Seq(Chars) /\ u \in Seq(Chars) /\ A \in Seq(Chars) /\ B \in Seq(Chars)
           /\ Line(m, u) \in Seq(Chars) /\ Line(m, u) \o VersionText \in Seq(Chars)
           /\ Major(m, u, A) \in Seq(Chars) /\ Minor(m, u, A, B) \in Seq(Chars)
           /\ Append(Append(Minor(m, u, A, B), "CR"), "LF") \in Seq(Chars)
<1>0. {"SP", "DOT", "CR", "LF", "SLASH", "H", "T", "P"} \subseteq Chars
  BY Classes DEF Named
<1>1. m \in Seq(Chars) /\ u \in Seq(Chars) /\ A \in Seq(Chars) /\ B \in Seq(Chars)
  BY AreChars, Classes
<1>2. VersionText \in Seq(Chars)
  BY <1>0 DEF VersionText
<1>3. Line(m, u) \in Seq(Chars)
  <2>1. Append(m, "SP") \in Seq(Chars)
    BY <1>0, <1>1, Appending
  <2>. QED  BY <1>1, <2>1, Joining DEF Line
<1>4. Line(m, u) \o VersionText \in Seq(Chars)
  BY <1>2, <1>3, Joining
<1>5. Major(m, u, A) \in Seq(Chars)
  BY <1>1, <1>4, Joining DEF Major
<1>6. Minor(m, u, A, B) \in Seq(Chars)
  <2>1. Append(Major(m, u, A), "DOT") \in Seq(Chars)
    BY <1>0, <1>5, Appending
  <2>. QED  BY <1>1, <2>1, Joining DEF Minor
<1>7. Append(Append(Minor(m, u, A, B), "CR"), "LF") \in Seq(Chars)
  <2>1. Append(Minor(m, u, A, B), "CR") \in Seq(Chars)
    BY <1>0, <1>6, Appending
  <2>. QED  BY <1>0, <2>1, Appending
<1>. QED  BY <1>1, <1>3, <1>4, <1>5, <1>6, <1>7

LEMMA FlatIsChars ==
    ASSUME NEW hs \in Seq(Field)
    PROVE  Flat(hs) \in Seq(Chars)
<1>. DEFINE n == Len(hs)
            S == {i \in 0 .. n : Flat(SubSeq(hs, 1, i)) \in Seq(Chars)}
<1>1. /\ n \in Nat /\ SubSeq(hs, 1, 0) = <<>> /\ SubSeq(hs, 1, n) = hs
      /\ \A i \in 1 .. n : /\ hs[i] \in Field /\ SubSeq(hs, 1, i - 1) \in Seq(Field)
                           /\ SubSeq(hs, 1, i) = Append(SubSeq(hs, 1, i - 1), hs[i])
  BY Beginnings
<1>. HIDE DEF n
<1>2. 0 \in S
  <2>1. Flat(SubSeq(hs, 1, 0)) = <<>>
    BY <1>1, FlatOfNothing, Zenon
  <2>2. <<>> \in Seq(Chars)
    OBVIOUS
  <2>3. Flat(SubSeq(hs, 1, 0)) \in Seq(Chars)
    BY <2>1, <2>2, Zenon
  <2>4. 0 \in 0 .. n
    BY <1>1
  <2>. QED  BY <2>3, <2>4, Zenon
<1>3. ASSUME NEW i \in 1 .. n, i - 1 \in S PROVE i \in S
  <2>. DEFINE gs == SubSeq(hs, 1, i - 1)
              h == hs[i]
  <2>1. h \in Field /\ gs \in Seq(Field) /\ SubSeq(hs, 1, i) = Append(gs, h)
    BY <1>1
  <2>2. Flat(gs) \in Seq(Chars)
    BY <1>3
  <2>. HIDE DEF gs, h
  <2>3. Flat(Append(gs, h)) = Flat(gs) \o HeaderText(h)
    BY <2>1, FlatMore
  <2>4. HeaderText(h) \in Seq(Chars)
    <3>1. h.name \in Names /\ h.value \in Values /\ h = Header(h.name, h.value)
      BY <2>1, FieldIs
    <3>2. HeaderText(Header(h.name, h.value)) \in Seq(Chars)
      BY <2>2, <3>1, HeaderTextIs
    <3>. QED  BY <3>1, <3>2, Zenon
  <2>5. Flat(Append(gs, h)) \in Seq(Chars)
    BY <2>2, <2>3, <2>4, Joining
  <2>6. i \in 0 .. n
    BY <1>1
  <2>. QED  BY <2>1, <2>5, <2>6
<1>. HIDE DEF S
<1>4. \A i \in 0 .. n : i \in S
  BY <1>1, <1>2, <1>3, Induction
<1>5. Flat(SubSeq(hs, 1, n)) \in Seq(Chars)
  <2>1. n \in S
    BY <1>1, <1>4
  <2>. QED  BY <2>1 DEF S
<1>. QED  BY <1>1, <1>5

LEMMA WholeMore ==
    ASSUME NEW m \in Seq(Alpha), NEW u \in Seq(UriChars), NEW A \in Seq(Digits), NEW B \in Seq(Digits),
           NEW hs \in Seq(Field), NEW n \in Names, NEW v \in Values
    PROVE  LET x == Whole(m, u, A, B, hs)
           IN /\ x \in Seq(Chars)
              /\ x \o n \in Seq(Chars) /\ Valued(x, n, v) \in Seq(Chars)
              /\ Append(Append(x \o n, "COLON"), "SP") \in Seq(Chars)
              /\ Whole(m, u, A, B, Append(hs, Header(n, v))) =
                    Append(Append(Valued(x, n, v), "CR"), "LF")
<1>. DEFINE e == Append(Append(Minor(m, u, A, B), "CR"), "LF")
            x == Whole(m, u, A, B, hs)
            h == Header(n, v)
            t == HeaderText(h)
<1>1. e \in Seq(Chars) /\ Flat(hs) \in Seq(Chars) /\ x = e \o Flat(hs)
  BY TextsAreChars, FlatIsChars DEF Whole
<1>2. Whole(m, u, A, B, Append(hs, h)) = e \o Flat(Append(hs, h))
  BY DEF Whole
<1>3. h \in Field /\ n \in Seq(Chars) /\ v \in Seq(Chars)
  BY FieldIs
<1>. HIDE DEF e, x, h
<1>4. x \in Seq(Chars)
  BY <1>1, Joining
<1>5. t \in Seq(Chars) /\ x \o t = Append(Append(Valued(x, n, v), "CR"), "LF")
  BY <1>4, HeaderTextIs DEF h
<1>6. Flat(Append(hs, h)) = Flat(hs) \o t
  BY <1>3, FlatMore
<1>. HIDE DEF t
<1>7. e \o (Flat(hs) \o t) = (e \o Flat(hs)) \o t
  BY <1>1, <1>5, Joining
<1>8. "COLON" \in Chars /\ "SP" \in Chars
  BY Classes DEF Named
<1>9. x \o n \in Seq(Chars)
  BY <1>3, <1>4, Joining
<1>10. Append(Append(x \o n, "COLON"), "SP") \in Seq(Chars)
  <2>1. Append(x \o n, "COLON") \in Seq(Chars)
    BY <1>8, <1>9, Appending
  <2>. QED  BY <1>8, <2>1, Appending
<1>11. Valued(x, n, v) \in Seq(Chars)
  BY <1>3, <1>10, Joining DEF Valued
<1>12. Whole(m, u, A, B, Append(hs, h)) = Append(Append(Valued(x, n, v), "CR"), "LF")
  BY <1>1, <1>2, <1>5, <1>6, <1>7, Zenon
<1>. QED  BY <1>4, <1>9, <1>10, <1>11, <1>12 DEF x, h

(* The whole of it, and the empty line.                                    *)
LEMMA TextIs ==
    ASSUME NEW r \in Built, r.headers \in Seq(Field), NEW A \in Seq(Digits), NEW B \in Seq(Digits)
    PROVE  TextOf(r, A, B) =
              Append(Append(Whole(r.method, r.uri, A, B, r.headers), "CR"), "LF")
<1>. DEFINE m == r.method
            u == r.uri
            hs == r.headers
            sp == <<"SP">>
            dot == <<"DOT">>
            crlf == CRLF
            F == Flat(hs)
<1>0. "SP" \in Chars /\ "DOT" \in Chars /\ "CR" \in Chars /\ "LF" \in Chars
  BY Classes DEF Named
<1>1. m \in Seq(Alpha) /\ u \in Seq(UriChars) /\ hs \in Seq(Field) /\ F \in Seq(Chars)
  BY FlatIsChars DEF Built
<1>2. TextOf(r, A, B) = (((((((((m \o sp) \o u) \o VersionText) \o A) \o dot) \o B) \o crlf) \o F) \o crlf)
  BY DEF TextOf, VersionText, Flat
<1>. HIDE DEF m, u, hs, F
<1>3. /\ m \in Seq(Chars) /\ Major(m, u, A) \in Seq(Chars) /\ Minor(m, u, A, B) \in Seq(Chars)
      /\ Append(Append(Minor(m, u, A, B), "CR"), "LF") \in Seq(Chars)
  BY <1>1, TextsAreChars
<1>4. m \o sp = Append(m, "SP")
  BY <1>0, <1>3, Appending
<1>5. Major(m, u, A) \o dot = Append(Major(m, u, A), "DOT")
  BY <1>0, <1>3, Appending
<1>6. \A y \in Seq(Chars) : y \o crlf = Append(Append(y, "CR"), "LF")
  BY <1>0, AppendingTwo DEF CRLF
<1>. HIDE DEF sp, dot, crlf
<1>7. Minor(m, u, A, B) \o crlf = Append(Append(Minor(m, u, A, B), "CR"), "LF")
  BY <1>3, <1>6
<1>8. Whole(m, u, A, B, hs) \in Seq(Chars)
  BY <1>1, <1>3, Joining DEF Whole, F
<1>9. Whole(m, u, A, B, hs) \o crlf = Append(Append(Whole(m, u, A, B, hs), "CR"), "LF")
  BY <1>6, <1>8
<1>10. ((m \o sp) \o u) \o VersionText \o A = Major(m, u, A)
  BY <1>4, Zenon DEF Major, Line
<1>11. (Major(m, u, A) \o dot) \o B = Minor(m, u, A, B)
  BY <1>5, Zenon DEF Minor
<1>12. (Minor(m, u, A, B) \o crlf) \o F = Whole(m, u, A, B, hs)
  BY <1>7, Zenon DEF Whole, F
<1>. QED  BY <1>2, <1>9, <1>10, <1>11, <1>12, Zenon DEF m, u, hs

-----------------------------------------------------------------------------
(* A character more, in each group of states.                              *)

MajorAfter(does, A, c) == IF does = "setMajor" THEN <<c>> ELSE IF does = "major" THEN Append(A, c) ELSE A
MinorAfter(does, B, c) == IF does = "setMinor" THEN <<c>> ELSE IF does = "minor" THEN Append(B, c) ELSE B

LEMMA EarlyIsShaped ==
    ASSUME NEW s \in Early, NEW r, NEW w, NEW A, NEW B,
           r.headers = <<>>, EarlyText(s, r.method, r.uri, w, A, B)
    PROVE  Shaped(s, r, w, A, B)
<1>1. s \notin Lines /\ s # "HEADER_LINE_START" /\ s # "EXPECTING_NEWLINE_3"
  BY DEF Early, InWord, Lines
<1>. QED  BY <1>1 DEF Shaped

LEMMA EffectParts ==
    ASSUME NEW r \in Built, NEW c
    PROVE  /\ LET e == Effect("method", r, c)
              IN e.method = Append(r.method, c) /\ e.uri = r.uri /\ e.headers = r.headers
           /\ LET e == Effect("uri", r, c)
              IN e.method = r.method /\ e.uri = Append(r.uri, c) /\ e.headers = r.headers
           /\ \A does \in {"skip", "setMajor", "major", "setMinor", "minor"} :
                 LET e == Effect(does, r, c)
                 IN e.method = r.method /\ e.uri = r.uri /\ e.headers = r.headers
<1>1. Effect("method", r, c) = [r EXCEPT !.method = Append(r.method, c)]
  BY DEF Effect
<1>2. Effect("uri", r, c) = [r EXCEPT !.uri = Append(r.uri, c)]
  BY DEF Effect
<1>3. ASSUME NEW does \in {"skip", "setMajor", "major", "setMinor", "minor"}
      PROVE  \/ Effect(does, r, c) = r
             \/ \E n : Effect(does, r, c) = [r EXCEPT !.major = n]
             \/ \E n : Effect(does, r, c) = [r EXCEPT !.minor = n]
  <2>1. CASE does = "skip"
    BY <2>1 DEF Effect
  <2>2. CASE does = "setMajor"
    BY <2>2 DEF Effect
  <2>3. CASE does = "major"
    BY <2>3 DEF Effect
  <2>4. CASE does = "setMinor"
    BY <2>4 DEF Effect
  <2>5. CASE does = "minor"
    BY <2>5 DEF Effect
  <2>. QED  BY <2>1, <2>2, <2>3, <2>4, <2>5
<1>4. ASSUME NEW does \in {"skip", "setMajor", "major", "setMinor", "minor"}
      PROVE  LET e == Effect(does, r, c)
             IN e.method = r.method /\ e.uri = r.uri /\ e.headers = r.headers
  <2>. DEFINE e == Effect(does, r, c)
  <2>1. \/ e = r
        \/ \E n : e = [r EXCEPT !.major = n]
        \/ \E n : e = [r EXCEPT !.minor = n]
    BY <1>3
  <2>. HIDE DEF e
  <2>2. e.method = r.method /\ e.uri = r.uri /\ e.headers = r.headers
    BY <2>1 DEF Built
  <2>. QED  BY <2>2 DEF e
<1>. QED  BY <1>1, <1>2, <1>4 DEF Built

LEMMA MethodGrows ==
    ASSUME NEW s, NEW r \in Built, NEW w, NEW A, NEW B, Shaped(s, r, w, A, B),
           NEW c \in Chars, NEW to, NEW does, MethodMoves(s, c, to, does)
    PROVE  Shaped(to, Effect(does, r, c), Append(w, c), A, B)
<1>. DEFINE m == r.method
            u == r.uri
            e == Effect(does, r, c)
            w2 == Append(w, c)
<1>1. m \in Seq(Alpha) /\ m \in Seq(Chars) /\ u \in Seq(Chars) /\ "SP" \in Chars
  <2>1. m \in Seq(Alpha) /\ u \in Seq(UriChars)
    BY DEF Built
  <2>. HIDE DEF m, u
  <2>. QED  BY <2>1, AreChars, Classes DEF Named
<1>2. Append(m, "SP") \in Seq(Chars) /\ Line(m, u) \in Seq(Chars)
  <2>1. Append(m, "SP") \in Seq(Chars)
    BY <1>1, Appending
  <2>. QED  BY <1>1, <2>1, Joining DEF Line
<1>3. s \in {"METHOD_START", "METHOD", "URI"} /\ s \in Early
  BY DEF MethodMoves, Early
<1>4. r.headers = <<>> /\ EarlyText(s, m, u, w, A, B)
  BY <1>3 DEF Shaped
<1>. HIDE DEF m, u, w2
<1>5. CASE s \in {"METHOD_START", "METHOD"} /\ c \in Alpha /\ to = "METHOD" /\ does = "method"
  <2>1. e.method = Append(m, c) /\ e.uri = u /\ e.headers = <<>>
    BY <1>4, <1>5, EffectParts DEF m, u
  <2>2. u = <<>> /\ w = m
    BY <1>4, <1>5 DEF EarlyText
  <2>3. Append(m, c) # <<>>
    <3>1. Len(Append(m, c)) = Len(m) + 1 /\ Len(m) \in Nat
      BY <1>1, OneMore
    <3>2. Len(Append(m, c)) # 0
      <4>. DEFINE k == Len(Append(m, c))
                  l == Len(m)
      <4>. HIDE DEF k, l
      <4>1. k = l + 1 /\ l \in Nat
        BY <3>1 DEF k, l
      <4>2. k # 0
        BY <4>1
      <4>. QED  BY <4>2 DEF k
    <3>3. Len(<<>>) = 0
      BY EmptySeq
    <3>. QED  BY <3>2, <3>3, Zenon
  <2>4. EarlyText("METHOD", Append(m, c), u, w2, A, B)
    BY <2>2, <2>3 DEF EarlyText, InWord, w2
  <2>5. "METHOD" \in Early
    BY DEF Early
  <2>. HIDE DEF e
  <2>6. Shaped("METHOD", e, w2, A, B)
    BY <2>1, <2>4, <2>5, EarlyIsShaped
  <2>. QED  BY <1>5, <2>6 DEF e, w2
<1>6. CASE does = "skip" /\ c = "SP" /\ ((s = "METHOD" /\ to = "URI") \/ (s = "URI" /\ to = "HTTP_VERSION_H"))
  <2>1. e.method = m /\ e.uri = u /\ e.headers = <<>>
    BY <1>4, <1>6, EffectParts DEF m, u
  <2>2. m # <<>>
    BY <1>4, <1>6 DEF EarlyText
  <2>3. EarlyText(to, m, u, w2, A, B)
    <3>1. CASE s = "METHOD" /\ to = "URI"
      <4>1. u = <<>> /\ w = m
        BY <1>4, <3>1 DEF EarlyText
      <4>2. w2 = Line(m, u)
        BY <1>1, <1>2, <1>6, <4>1, Appending DEF Line, w2
      <4>. QED  BY <2>2, <3>1, <4>2 DEF EarlyText, InWord
    <3>2. CASE s = "URI" /\ to = "HTTP_VERSION_H"
      <4>1. w = Line(m, u)
        BY <1>4, <3>2 DEF EarlyText
      <4>2. w2 = Line(m, u) \o <<"SP">>
        BY <1>1, <1>2, <1>6, <4>1, Appending DEF w2
      <4>3. Spelling["HTTP_VERSION_H"] = <<"SP">>
        BY DEF Spelling
      <4>. QED  BY <2>2, <3>2, <4>2, <4>3 DEF EarlyText, InWord
    <3>. QED  BY <1>6, <3>1, <3>2
  <2>4. to \in Early
    BY <1>6 DEF Early, InWord
  <2>. HIDE DEF e
  <2>5. Shaped(to, e, w2, A, B)
    BY <2>1, <2>3, <2>4, EarlyIsShaped
  <2>. QED  BY <2>5 DEF e, w2
<1>7. CASE s = "URI" /\ c \in UriChars /\ to = "URI" /\ does = "uri"
  <2>1. e.method = m /\ e.uri = Append(u, c) /\ e.headers = <<>>
    BY <1>4, <1>7, EffectParts DEF m, u
  <2>2. m # <<>> /\ w = Line(m, u)
    BY <1>4, <1>7 DEF EarlyText
  <2>3. w2 = Line(m, Append(u, c))
    BY <1>1, <1>2, <2>2, AppendingMore DEF Line, w2
  <2>4. EarlyText("URI", m, Append(u, c), w2, A, B)
    BY <2>2, <2>3 DEF EarlyText, InWord
  <2>5. "URI" \in Early
    BY DEF Early
  <2>. HIDE DEF e
  <2>6. Shaped("URI", e, w2, A, B)
    BY <2>1, <2>4, <2>5, EarlyIsShaped
  <2>. QED  BY <1>7, <2>6 DEF e, w2
<1>. QED
  <2>1. \/ s \in {"METHOD_START", "METHOD"} /\ c \in Alpha /\ to = "METHOD" /\ does = "method"
        \/ s = "METHOD" /\ c = "SP" /\ to = "URI" /\ does = "skip"
        \/ s = "URI" /\ c = "SP" /\ to = "HTTP_VERSION_H" /\ does = "skip"
        \/ s = "URI" /\ c \in UriChars /\ to = "URI" /\ does = "uri"
    BY Zenon DEF MethodMoves
  <2>2. CASE s = "METHOD" /\ c = "SP" /\ to = "URI" /\ does = "skip"
    BY <1>6, <2>2, Zenon
  <2>3. CASE s = "URI" /\ c = "SP" /\ to = "HTTP_VERSION_H" /\ does = "skip"
    BY <1>6, <2>3, Zenon
  <2>. QED  BY <1>5, <1>7, <2>1, <2>2, <2>3, Zenon

LEMMA SpellingMore ==
    ASSUME NEW s, NEW c, NEW to, VersionWord(s, c, to), to # "HEADER_LINE_START"
    PROVE  /\ s \in InWord /\ to \in InWord
           /\ c \in Chars /\ Spelling[s] \in Seq(Chars) /\ Append(Spelling[s], c) = Spelling[to]
<1>1. \/ s = "HTTP_VERSION_H" /\ c = "H" /\ to = "HTTP_VERSION_T_1"
      \/ s = "HTTP_VERSION_T_1" /\ c = "T" /\ to = "HTTP_VERSION_T_2"
      \/ s = "HTTP_VERSION_T_2" /\ c = "T" /\ to = "HTTP_VERSION_P"
      \/ s = "HTTP_VERSION_P" /\ c = "P" /\ to = "HTTP_VERSION_SLASH"
      \/ s = "HTTP_VERSION_SLASH" /\ c = "SLASH" /\ to = "HTTP_VERSION_MAJOR_START"
  BY DEF VersionWord
<1>2. {"SP", "H", "T", "P", "SLASH"} \subseteq Chars
  BY Classes DEF Named
<1>3. s \in InWord /\ to \in InWord /\ c \in Chars
  BY <1>1, <1>2 DEF InWord
<1>4. /\ Spelling["HTTP_VERSION_H"] = <<"SP">>
      /\ Spelling["HTTP_VERSION_T_1"] = <<"SP", "H">>
      /\ Spelling["HTTP_VERSION_T_2"] = <<"SP", "H", "T">>
      /\ Spelling["HTTP_VERSION_P"] = <<"SP", "H", "T", "T">>
      /\ Spelling["HTTP_VERSION_SLASH"] = <<"SP", "H", "T", "T", "P">>
      /\ Spelling["HTTP_VERSION_MAJOR_START"] = <<"SP", "H", "T", "T", "P", "SLASH">>
  BY DEF Spelling, VersionText
<1>5. CASE s = "HTTP_VERSION_H" /\ c = "H" /\ to = "HTTP_VERSION_T_1"
  <2>1. <<"SP">> \in Seq(Chars)
    BY <1>2
  <2>2. <<"SP", "H">> = Append(<<"SP">>, "H")
    OBVIOUS
  <2>. QED  BY <1>3, <1>4, <1>5, <2>1, <2>2
<1>6. CASE s = "HTTP_VERSION_T_1" /\ c = "T" /\ to = "HTTP_VERSION_T_2"
  <2>1. <<"SP", "H">> \in Seq(Chars)
    BY <1>2
  <2>2. <<"SP", "H", "T">> = Append(<<"SP", "H">>, "T")
    OBVIOUS
  <2>. QED  BY <1>3, <1>4, <1>6, <2>1, <2>2
<1>7. CASE s = "HTTP_VERSION_T_2" /\ c = "T" /\ to = "HTTP_VERSION_P"
  <2>1. <<"SP", "H", "T">> \in Seq(Chars)
    BY <1>2
  <2>2. <<"SP", "H", "T", "T">> = Append(<<"SP", "H", "T">>, "T")
    OBVIOUS
  <2>. QED  BY <1>3, <1>4, <1>7, <2>1, <2>2
<1>8. CASE s = "HTTP_VERSION_P" /\ c = "P" /\ to = "HTTP_VERSION_SLASH"
  <2>1. <<"SP", "H", "T", "T">> \in Seq(Chars)
    BY <1>2
  <2>2. <<"SP", "H", "T", "T", "P">> = Append(<<"SP", "H", "T", "T">>, "P")
    OBVIOUS
  <2>. QED  BY <1>3, <1>4, <1>8, <2>1, <2>2
<1>9. CASE s = "HTTP_VERSION_SLASH" /\ c = "SLASH" /\ to = "HTTP_VERSION_MAJOR_START"
  <2>1. <<"SP", "H", "T", "T", "P">> \in Seq(Chars)
    BY <1>2
  <2>2. <<"SP", "H", "T", "T", "P", "SLASH">> = Append(<<"SP", "H", "T", "T", "P">>, "SLASH")
    OBVIOUS
  <2>. QED  BY <1>3, <1>4, <1>9, <2>1, <2>2
<1>. QED  BY <1>1, <1>5, <1>6, <1>7, <1>8, <1>9

LEMMA VersionGrows ==
    ASSUME NEW s, NEW r \in Built, NEW w, NEW A \in Seq(Digits), NEW B \in Seq(Digits),
           Shaped(s, r, w, A, B),
           NEW c \in Chars, NEW to, NEW does, VersionMoves(s, c, to, does)
    PROVE  Shaped(to, Effect(does, r, c), Append(w, c), MajorAfter(does, A, c), MinorAfter(does, B, c))
<1>. DEFINE m == r.method
            u == r.uri
            e == Effect(does, r, c)
            w2 == Append(w, c)
            A2 == MajorAfter(does, A, c)
            B2 == MinorAfter(does, B, c)
<1>1. /\ m \in Seq(Chars) /\ u \in Seq(Chars) /\ A \in Seq(Chars) /\ B \in Seq(Chars)
      /\ Line(m, u) \in Seq(Chars) /\ Line(m, u) \o VersionText \in Seq(Chars)
      /\ Major(m, u, A) \in Seq(Chars) /\ Minor(m, u, A, B) \in Seq(Chars)
      /\ Append(Append(Minor(m, u, A, B), "CR"), "LF") \in Seq(Chars)
  <2>1. m \in Seq(Alpha) /\ u \in Seq(UriChars)
    BY DEF Built
  <2>. HIDE DEF m, u
  <2>. QED  BY <2>1, TextsAreChars
<1>2. s \in Early /\ s # "METHOD_START"
  BY DEF VersionMoves, VersionWord, Early, InWord
<1>3. r.headers = <<>> /\ EarlyText(s, m, u, w, A, B) /\ m # <<>>
  BY <1>2 DEF Shaped, EarlyText
<1>4. e.method = m /\ e.uri = u /\ e.headers = <<>>
  <2>1. does \in {"skip", "setMajor", "major", "setMinor", "minor"}
    BY DEF VersionMoves
  <2>. QED  BY <1>3, <2>1, EffectParts
<1>. HIDE DEF m, u, w2, e, A2, B2
<1>5. SUFFICES (to \in Early /\ EarlyText(to, m, u, w2, A2, B2)) \/ Shaped(to, e, w2, A2, B2)
  <2>1. to \in Early /\ EarlyText(to, m, u, w2, A2, B2) => Shaped(to, e, w2, A2, B2)
    BY <1>4, EarlyIsShaped
  <2>. QED  BY <2>1, <1>5 DEF e, w2, A2, B2
<1>6. CASE VersionWord(s, c, to) /\ to # "HEADER_LINE_START" /\ does = "skip"
  <2>1. /\ s \in InWord /\ to \in InWord
        /\ Spelling[s] \in Seq(Chars) /\ Append(Spelling[s], c) = Spelling[to]
    BY <1>6, SpellingMore
  <2>2. w = Line(m, u) \o Spelling[s]
    BY <1>3, <2>1 DEF EarlyText
  <2>3. w2 = Line(m, u) \o Spelling[to]
    <3>. DEFINE x == Line(m, u)
                y == Spelling[s]
    <3>1. x \in Seq(Chars) /\ y \in Seq(Chars) /\ w2 = Append(x \o y, c)
      BY <1>1, <2>1, <2>2 DEF w2
    <3>. HIDE DEF x, y
    <3>2. Append(x \o y, c) = x \o Append(y, c)
      BY <3>1, AppendingMore
    <3>. QED  BY <2>1, <3>1, <3>2, Zenon DEF x, y
  <2>4. EarlyText(to, m, u, w2, A2, B2)
    <3>1. /\ to # "METHOD_START" /\ to # "METHOD" /\ to # "URI" /\ to # "HTTP_VERSION_MAJOR"
          /\ to # "HTTP_VERSION_MINOR_START" /\ to # "HTTP_VERSION_MINOR" /\ to # "EXPECTING_NEWLINE_1"
      BY <2>1 DEF InWord
    <3>. QED  BY <1>3, <2>3, <3>1, Zenon DEF EarlyText
  <2>5. to \in Early
    BY <2>1 DEF Early
  <2>. QED  BY <2>4, <2>5
<1>7. CASE s = "HTTP_VERSION_MAJOR_START" /\ c \in Digits /\ to = "HTTP_VERSION_MAJOR" /\ does = "setMajor"
  <2>1. w = Line(m, u) \o VersionText
    <3>1. Spelling["HTTP_VERSION_MAJOR_START"] = VersionText
      BY DEF Spelling
    <3>2. s \in InWord
      BY <1>7 DEF InWord
    <3>3. w = Line(m, u) \o Spelling[s]
      BY <1>3, <3>2 DEF EarlyText
    <3>. QED  BY <1>7, <3>1, <3>3
  <2>2. A2 = <<c>>
    BY <1>7 DEF MajorAfter, A2
  <2>3. w2 = Major(m, u, A2)
    BY <1>1, <2>1, <2>2, Appending DEF Major, w2
  <2>. QED  BY <1>3, <1>7, <2>3 DEF EarlyText, Early, InWord
<1>8. CASE s = "HTTP_VERSION_MAJOR" /\ c \in Digits /\ to = "HTTP_VERSION_MAJOR" /\ does = "major"
  <2>1. w = Major(m, u, A)
    BY <1>3, <1>8 DEF EarlyText
  <2>2. A2 = Append(A, c)
    BY <1>8 DEF MajorAfter, A2
  <2>3. w2 = Major(m, u, A2)
    <3>. DEFINE x == Line(m, u) \o VersionText
    <3>1. x \in Seq(Chars) /\ w2 = Append(x \o A, c)
      BY <1>1, <2>1 DEF w2, Major
    <3>. HIDE DEF x
    <3>2. Append(x \o A, c) = x \o Append(A, c)
      BY <1>1, <3>1, AppendingMore
    <3>. QED  BY <2>2, <3>1, <3>2, Zenon DEF x, Major
  <2>. QED  BY <1>3, <1>8, <2>3 DEF EarlyText, Early, InWord
<1>9. CASE s = "HTTP_VERSION_MAJOR" /\ c = "DOT" /\ to = "HTTP_VERSION_MINOR_START" /\ does = "skip"
  <2>1. w = Major(m, u, A)
    BY <1>3, <1>9 DEF EarlyText
  <2>2. A2 = A
    BY <1>9 DEF MajorAfter, A2
  <2>3. w2 = Append(Major(m, u, A2), "DOT")
    BY <1>9, <2>1, <2>2 DEF w2
  <2>. QED  BY <1>3, <1>9, <2>3 DEF EarlyText, Early, InWord
<1>10. CASE s = "HTTP_VERSION_MINOR_START" /\ c \in Digits /\ to = "HTTP_VERSION_MINOR" /\ does = "setMinor"
  <2>1. w = Append(Major(m, u, A), "DOT")
    BY <1>3, <1>10 DEF EarlyText
  <2>2. A2 = A /\ B2 = <<c>>
    BY <1>10 DEF MajorAfter, MinorAfter, A2, B2
  <2>3. Append(Major(m, u, A), "DOT") \in Seq(Chars)
    BY <1>1, Appending, Classes DEF Named
  <2>4. w2 = Minor(m, u, A2, B2)
    BY <2>1, <2>2, <2>3, Appending DEF Minor, w2
  <2>. QED  BY <1>3, <1>10, <2>4 DEF EarlyText, Early, InWord
<1>11. CASE s = "HTTP_VERSION_MINOR" /\ c \in Digits /\ to = "HTTP_VERSION_MINOR" /\ does = "minor"
  <2>1. w = Minor(m, u, A, B)
    BY <1>3, <1>11 DEF EarlyText
  <2>2. A2 = A /\ B2 = Append(B, c)
    BY <1>11 DEF MajorAfter, MinorAfter, A2, B2
  <2>3. Append(Major(m, u, A), "DOT") \in Seq(Chars)
    BY <1>1, Appending, Classes DEF Named
  <2>4. w2 = Minor(m, u, A2, B2)
    BY <1>1, <2>1, <2>2, <2>3, AppendingMore DEF Minor, w2
  <2>. QED  BY <1>3, <1>11, <2>4 DEF EarlyText, Early, InWord
<1>12. CASE s = "HTTP_VERSION_MINOR" /\ c = "CR" /\ to = "EXPECTING_NEWLINE_1" /\ does = "skip"
  <2>1. w = Minor(m, u, A, B)
    BY <1>3, <1>12 DEF EarlyText
  <2>2. A2 = A /\ B2 = B
    BY <1>12 DEF MajorAfter, MinorAfter, A2, B2
  <2>3. w2 = Append(Minor(m, u, A2, B2), "CR")
    BY <1>12, <2>1, <2>2 DEF w2
  <2>. QED  BY <1>3, <1>12, <2>3 DEF EarlyText, Early, InWord
<1>13. CASE s = "EXPECTING_NEWLINE_1" /\ c = "LF" /\ to = "HEADER_LINE_START" /\ does = "skip"
  <2>1. w = Append(Minor(m, u, A, B), "CR")
    BY <1>3, <1>13 DEF EarlyText
  <2>2. A2 = A /\ B2 = B
    BY <1>13 DEF MajorAfter, MinorAfter, A2, B2
  <2>3. w2 = Append(Append(Minor(m, u, A2, B2), "CR"), "LF")
    BY <1>13, <2>1, <2>2 DEF w2
  <2>4. w2 = Whole(m, u, A2, B2, <<>>)
    BY <1>1, <2>2, <2>3, Appending, FlatOfNothing DEF Whole
  <2>5. <<>> \in Seq(Field)
    OBVIOUS
  <2>6. to \notin Early /\ to \notin Lines
    BY <1>13 DEF Early, InWord, Lines
  <2>7. Shaped(to, e, w2, A2, B2)
    BY <1>3, <1>4, <1>13, <2>4, <2>5, <2>6 DEF Shaped
  <2>. QED  BY <2>7
<1>. QED  BY <1>6, <1>7, <1>8, <1>9, <1>10, <1>11, <1>12, <1>13 DEF VersionMoves

LEMMA FieldsAreHeaders == Seq(Field) \subseteq Seq(Headers) /\ Names \subseteq Texts /\ Values \subseteq Texts
<1>1. Field \subseteq Headers
  <2>1. ASSUME NEW h \in Field PROVE h \in Headers
    <3>1. h.name \in Texts /\ h.value \in Texts /\ h = Header(h.name, h.value)
      BY FieldIs DEF Texts
    <3>2. Header(h.name, h.value) \in Headers
      BY <3>1 DEF Header, Headers
    <3>. QED  BY <3>1, <3>2, Zenon
  <2>. QED  BY <2>1
<1>2. Names \subseteq Texts /\ Values \subseteq Texts
  BY FieldIs DEF Texts
<1>. HIDE DEF Field, Headers
<1>. QED  BY <1>1, <1>2

LEMMA LineIsShaped ==
    ASSUME NEW s \in Lines, NEW r, r.method # <<>>, NEW hs \in Seq(Field), NEW n \in Names, NEW v \in Values,
           r.headers = Append(hs, Header(n, v)), NEW A, NEW B, NEW w,
           LineText(s, Whole(r.method, r.uri, A, B, hs), n, v, w)
    PROVE  Shaped(s, r, w, A, B)
<1>1. s \notin Early /\ s # "HEADER_LINE_START" /\ s # "EXPECTING_NEWLINE_3"
  BY DEF Early, InWord, Lines
<1>2. r.headers \in Seq(Field)
  <2>1. Header(n, v) \in Field
    BY FieldIs
  <2>. QED  BY <2>1, AppendProperties
<1>. QED  BY <1>1, <1>2, Zenon DEF Shaped

LEMMA LineEffects ==
    ASSUME NEW r \in Built, NEW hs \in Seq(Field), NEW n \in Names, NEW v \in Values,
           r.headers = Append(hs, Header(n, v)), NEW c \in Chars
    PROVE  /\ LET e == Effect("name", r, c)
              IN /\ e.method = r.method /\ e.uri = r.uri
                 /\ e.headers = Append(hs, Header(Append(n, c), v))
           /\ LET e == Effect("value", r, c)
              IN /\ e.method = r.method /\ e.uri = r.uri
                 /\ e.headers = Append(hs, Header(n, Append(v, c)))
<1>. DEFINE gs == Append(hs, Header(n, v))
            q == Req(r.method, r.uri, r.major, r.minor, gs)
<1>1. hs \in Seq(Headers) /\ n \in Texts /\ v \in Texts
  BY FieldsAreHeaders
<1>2. r = q
  <2>. HIDE DEF gs
  <2>1. r.headers = gs
    BY DEF gs
  <2>. QED  BY <2>1 DEF Built, Req
<1>3. /\ Effect("name", q, c) = Req(r.method, r.uri, r.major, r.minor, Append(hs, Header(Append(n, c), v)))
      /\ Effect("value", q, c) = Req(r.method, r.uri, r.major, r.minor, Append(hs, Header(n, Append(v, c))))
  BY <1>1, NameEffect, ValueEffect
<1>. HIDE DEF q
<1>. QED  BY <1>2, <1>3 DEF Req

LEMMA NameMore ==
    ASSUME NEW n \in Names, NEW v \in Values
    PROVE  /\ \A c \in NameChars : Append(n, c) \in Names /\ <<c>> \in Names
           /\ \A c \in Chars \ Control : Append(v, c) \in Values
<1>1. ASSUME NEW c \in NameChars PROVE Append(n, c) \in Names /\ <<c>> \in Names
  <2>1. n \in Seq(NameChars)
    BY DEF Names
  <2>2. Append(n, c) \in Seq(NameChars) /\ Append(n, c) # <<>>
    BY <2>1, AppendProperties
  <2>3. <<c>> \in Seq(NameChars) /\ <<c>> # <<>>
    OBVIOUS
  <2>. QED  BY <2>2, <2>3 DEF Names
<1>2. \A c \in Chars \ Control : Append(v, c) \in Values
  BY AppendProperties DEF Values
<1>. QED  BY <1>1, <1>2

(* The beginning of a header line, of a fold and of the empty line.        *)
LEMMA StartGrows ==
    ASSUME NEW s, NEW r \in Built, NEW w, NEW A \in Seq(Digits), NEW B \in Seq(Digits),
           Shaped(s, r, w, A, B),
           NEW c \in Chars, NEW to, NEW does, StartMoves(s, r, c, to, does)
    PROVE  /\ c \notin Blank => Shaped(to, Effect(does, r, c), Append(w, c), A, B)
           /\ c \in Blank =>
                 \A w2 \in Seq(Chars) : w = Append(Append(w2, "CR"), "LF") =>
                    to = "HEADER_LWS" /\ Shaped(to, Effect(does, r, c), w2, A, B)
<1>. DEFINE m == r.method
            u == r.uri
            hs == r.headers
            e == Effect(does, r, c)
            x == Whole(m, u, A, B, hs)
            h == [name |-> <<c>>, value |-> <<>>]
<1>1. s = "HEADER_LINE_START" /\ s \notin Early
  BY DEF StartMoves, Early, InWord
<1>2. m # <<>> /\ hs \in Seq(Field) /\ w = x
  BY <1>1 DEF Shaped
<1>3. m \in Seq(Alpha) /\ u \in Seq(UriChars)
  BY DEF Built
<1>4. <<>> \in Values
  BY DEF Values
<1>. HIDE DEF m, u, hs, x
<1>5. CASE c = "CR" /\ to = "EXPECTING_NEWLINE_3" /\ does = "skip"
  <2>1. e = r
    BY <1>5 DEF Effect
  <2>2. to \notin Early /\ to \notin Lines /\ to # "HEADER_LINE_START" /\ c \notin Blank
    BY <1>5 DEF Early, InWord, Lines, Blank
  <2>. HIDE DEF e
  <2>3. Shaped(to, r, Append(w, c), A, B)
    BY <1>2, <1>5, <2>2 DEF Shaped, m, u, hs, x
  <2>. QED  BY <2>1, <2>2, <2>3 DEF e
<1>6. CASE c \in NameChars /\ to = "HEADER_NAME" /\ does = "newHeader"
  <2>1. c \notin Blank /\ to \in Lines
    BY <1>6 DEF NameChars, Control, Blank, Lines
  <2>2. e = [r EXCEPT !.headers = Append(r.headers, h)]
    BY <1>6 DEF Effect
  <2>3. h = Header(<<c>>, <<>>)
    BY DEF Header
  <2>. HIDE DEF e, h
  <2>4. e.method = m /\ e.uri = u /\ e.headers = Append(hs, Header(<<c>>, <<>>))
    BY <2>2, <2>3 DEF Built, m, u, hs
  <2>5. <<c>> \in Names
    BY <1>6 DEF Names
  <2>6. x \in Seq(Chars)
    BY <1>2, <1>3, <1>4, <2>5, WholeMore DEF x
  <2>7. Append(w, c) = x \o <<c>>
    BY <1>2, <2>6, Appending
  <2>8. LineText("HEADER_NAME", x, <<c>>, <<>>, Append(w, c))
    BY <2>7 DEF LineText
  <2>9. Shaped(to, e, Append(w, c), A, B)
    BY <1>2, <1>4, <1>6, <2>1, <2>4, <2>5, <2>8, LineIsShaped DEF x
  <2>. QED  BY <2>1, <2>9 DEF e
<1>7. CASE hs # <<>> /\ c \in Blank /\ to = "HEADER_LWS" /\ does = "skip"
  <2>1. e = r
    BY <1>7 DEF Effect
  <2>. HIDE DEF e
  <2>2. ASSUME NEW w2 \in Seq(Chars), w = Append(Append(w2, "CR"), "LF")
        PROVE  Shaped(to, r, w2, A, B)
    <3>1. PICK gs \in Seq(Field), g \in Field : hs = Append(gs, g)
      BY <1>2, <1>7, SequenceEmptyOrAppend
    <3>2. g.name \in Names /\ g.value \in Values /\ g = Header(g.name, g.value)
      BY FieldIs
    <3>. DEFINE n == g.name
                v == g.value
                y == Whole(m, u, A, B, gs)
                z == Valued(y, n, v)
    <3>3. z \in Seq(Chars) /\ Whole(m, u, A, B, Append(gs, Header(n, v))) = Append(Append(z, "CR"), "LF")
      BY <1>3, <3>2, WholeMore
    <3>4. Append(Append(w2, "CR"), "LF") = Append(Append(z, "CR"), "LF")
      BY <1>2, <2>2, <3>1, <3>2, <3>3, Zenon DEF x
    <3>5. w2 = z
      <4>. HIDE DEF z
      <4>1. "CR" \in Chars /\ "LF" \in Chars
        BY Classes DEF Named
      <4>2. Append(w2, "CR") \in Seq(Chars) /\ Append(z, "CR") \in Seq(Chars)
        BY <3>3, <4>1, Appending
      <4>3. Append(w2, "CR") = Append(z, "CR")
        <5>. DEFINE a == Append(w2, "CR")
                    b == Append(z, "CR")
        <5>1. a \in Seq(Chars) /\ b \in Seq(Chars) /\ Append(a, "LF") = Append(b, "LF")
          BY <3>4, <4>2
        <5>. HIDE DEF a, b
        <5>2. a = b
          BY <4>1, <5>1, AppendInjective
        <5>. QED  BY <5>2 DEF a, b
      <4>. QED  BY <3>3, <4>1, <4>3, AppendInjective
    <3>6. LineText("HEADER_LWS", y, n, v, w2)
      BY <3>5 DEF LineText
    <3>7. "HEADER_LWS" \in Lines
      BY DEF Lines
    <3>. HIDE DEF y, n, v
    <3>. QED  BY <1>2, <1>7, <3>1, <3>2, <3>6, <3>7, LineIsShaped DEF y, n, v, m, u, hs
  <2>. QED  BY <1>7, <2>1, <2>2 DEF e
<1>. QED  BY <1>5, <1>6, <1>7 DEF StartMoves, hs

(* The rest of a header line; the white space of a fold leaves no trace.   *)
LEMMA LineGrows ==
    ASSUME NEW s, NEW r \in Built, NEW w, NEW A \in Seq(Digits), NEW B \in Seq(Digits),
           Shaped(s, r, w, A, B),
           NEW c \in Chars, NEW to, NEW does, LineMoves(s, c, to, does)
    PROVE  /\ ~ (s = "HEADER_LWS" /\ c \in Blank) => Shaped(to, Effect(does, r, c), Append(w, c), A, B)
           /\ s = "HEADER_LWS" /\ c \in Blank =>
                 to = "HEADER_LWS" /\ Shaped(to, Effect(does, r, c), w, A, B)
<1>. DEFINE m == r.method
            u == r.uri
            e == Effect(does, r, c)
            w2 == Append(w, c)
<1>1. s \in Lines /\ s \notin Early
  BY DEF LineMoves, Lines, Early, InWord
<1>2. m # <<>> /\ r.headers \in Seq(Field)
  BY <1>1 DEF Shaped
<1>3. PICK hs \in Seq(Field), n \in Names, v \in Values :
         r.headers = Append(hs, Header(n, v)) /\ LineText(s, Whole(m, u, A, B, hs), n, v, w)
  BY <1>1 DEF Shaped
<1>. DEFINE x == Whole(m, u, A, B, hs)
<1>4. /\ x \in Seq(Chars) /\ x \o n \in Seq(Chars) /\ Valued(x, n, v) \in Seq(Chars)
      /\ Append(Append(x \o n, "COLON"), "SP") \in Seq(Chars)
      /\ Whole(m, u, A, B, Append(hs, Header(n, v))) = Append(Append(Valued(x, n, v), "CR"), "LF")
  <2>1. m \in Seq(Alpha) /\ u \in Seq(UriChars)
    BY DEF Built
  <2>. HIDE DEF m, u
  <2>. QED  BY <2>1, WholeMore
<1>5. n \in Seq(Chars) /\ v \in Seq(Chars)
  BY FieldIs
<1>6. LineText(s, x, n, v, w)
  BY <1>3
<1>7. does = "skip" => e = r
  BY DEF Effect
<1>8. /\ does = "name" => e.method = m /\ e.uri = u /\ e.headers = Append(hs, Header(Append(n, c), v))
      /\ does = "value" => e.method = m /\ e.uri = u /\ e.headers = Append(hs, Header(n, Append(v, c)))
  BY <1>3, LineEffects
<1>. HIDE DEF e
(* In a line still, with n and v as they are now.                          *)
<1>9. ASSUME NEW to2 \in Lines, NEW n2 \in Names, NEW v2 \in Values, NEW w3,
             e.method = m, e.uri = u, e.headers = Append(hs, Header(n2, v2)),
             LineText(to2, x, n2, v2, w3)
      PROVE  Shaped(to2, e, w3, A, B)
  BY <1>2, <1>9, LineIsShaped, Zenon
<1>. HIDE DEF m, u, x, w2
<1>10. ASSUME NEW to2 \in Lines, does = "skip", NEW w3, LineText(to2, x, n, v, w3)
       PROVE  Shaped(to2, e, w3, A, B)
  BY <1>3, <1>7, <1>9, <1>10, Zenon DEF m, u
<1>11. CASE s = "HEADER_NAME" /\ c \in NameChars /\ to = "HEADER_NAME" /\ does = "name"
  <2>1. w = x \o n /\ v = <<>>
    BY <1>6, <1>11 DEF LineText
  <2>2. w2 = x \o Append(n, c)
    <3>1. Append(x \o n, c) = x \o Append(n, c)
      BY <1>4, <1>5, AppendingMore
    <3>. QED  BY <2>1, <3>1, Zenon DEF w2
  <2>3. LineText("HEADER_NAME", x, Append(n, c), v, w2)
    BY <2>1, <2>2 DEF LineText
  <2>4. "HEADER_NAME" \in Lines /\ Append(n, c) \in Names
    BY <1>11, NameMore DEF Lines
  <2>5. Shaped("HEADER_NAME", e, w2, A, B)
    BY <1>8, <1>9, <1>11, <2>3, <2>4
  <2>. QED  BY <1>11, <2>5 DEF e, w2
<1>12. CASE s = "HEADER_NAME" /\ c = "COLON" /\ to = "SPACE_BEFORE_HEADER_VALUE" /\ does = "skip"
  <2>1. w = x \o n /\ v = <<>>
    BY <1>6, <1>12 DEF LineText
  <2>2. LineText(to, x, n, v, w2) /\ to \in Lines
    BY <1>12, <2>1 DEF LineText, w2, Lines
  <2>3. Shaped(to, e, w2, A, B)
    BY <1>10, <1>12, <2>2
  <2>. QED  BY <1>12, <2>3 DEF e, w2
<1>13. CASE s = "SPACE_BEFORE_HEADER_VALUE" /\ c = "SP" /\ to = "HEADER_VALUE" /\ does = "skip"
  <2>1. w = Append(x \o n, "COLON") /\ v = <<>>
    BY <1>6, <1>13 DEF LineText
  <2>2. w2 = Append(Append(x \o n, "COLON"), "SP")
    BY <1>13, <2>1 DEF w2
  <2>3. Append(Append(x \o n, "COLON"), "SP") \o <<>> = Append(Append(x \o n, "COLON"), "SP")
    BY <1>4, ConcatEmptySeq
  <2>4. w2 = Valued(x, n, v)
    BY <2>1, <2>2, <2>3 DEF Valued
  <2>5. LineText(to, x, n, v, w2) /\ to \in Lines
    BY <1>13, <2>4 DEF LineText, Lines
  <2>6. Shaped(to, e, w2, A, B)
    BY <1>10, <1>13, <2>5
  <2>. QED  BY <1>13, <2>6 DEF e, w2
<1>14. CASE /\ s \in {"HEADER_LWS", "HEADER_VALUE"} /\ c \in Chars \ Control /\ to = "HEADER_VALUE"
            /\ does = "value" /\ (s = "HEADER_LWS" => c # "SP")
  <2>1. w = Valued(x, n, v)
    BY <1>6, <1>14 DEF LineText
  <2>2. w2 = Valued(x, n, Append(v, c))
    <3>. DEFINE y == Append(Append(x \o n, "COLON"), "SP")
    <3>1. y \in Seq(Chars) /\ w2 = Append(y \o v, c)
      BY <1>4, <2>1 DEF w2, Valued
    <3>. HIDE DEF y
    <3>2. Append(y \o v, c) = y \o Append(v, c)
      BY <1>5, <3>1, AppendingMore
    <3>. QED  BY <3>1, <3>2, Zenon DEF y, Valued
  <2>3. LineText("HEADER_VALUE", x, n, Append(v, c), w2)
    BY <2>2 DEF LineText
  <2>4. "HEADER_VALUE" \in Lines /\ Append(v, c) \in Values
    BY <1>14, NameMore DEF Lines
  <2>5. Shaped("HEADER_VALUE", e, w2, A, B)
    BY <1>8, <1>9, <1>14, <2>3, <2>4
  <2>6. ~ (s = "HEADER_LWS" /\ c \in Blank)
    BY <1>14 DEF Blank, Control
  <2>. QED  BY <1>14, <2>5, <2>6 DEF e, w2
<1>15. CASE s = "HEADER_LWS" /\ c \in Blank /\ to = "HEADER_LWS" /\ does = "skip"
  <2>1. LineText(to, x, n, v, w) /\ to \in Lines
    BY <1>6, <1>15 DEF LineText, Lines
  <2>2. Shaped(to, e, w, A, B)
    BY <1>10, <1>15, <2>1
  <2>. QED  BY <1>15, <2>2 DEF e
<1>16. CASE s \in {"HEADER_LWS", "HEADER_VALUE"} /\ c = "CR" /\ to = "EXPECTING_NEWLINE_2" /\ does = "skip"
  <2>1. w = Valued(x, n, v)
    BY <1>6, <1>16 DEF LineText
  <2>2. LineText(to, x, n, v, w2) /\ to \in Lines
    BY <1>16, <2>1 DEF LineText, Lines, w2
  <2>3. Shaped(to, e, w2, A, B)
    BY <1>10, <1>16, <2>2
  <2>4. c \notin Blank
    BY <1>16 DEF Blank
  <2>. QED  BY <2>3, <2>4 DEF e, w2
<1>17. CASE s = "EXPECTING_NEWLINE_2" /\ c = "LF" /\ to = "HEADER_LINE_START" /\ does = "skip"
  <2>1. w = Append(Valued(x, n, v), "CR")
    BY <1>6, <1>17 DEF LineText
  <2>2. w2 = Whole(m, u, A, B, r.headers)
    BY <1>3, <1>4, <1>17, <2>1, Zenon DEF w2
  <2>3. to \notin Early /\ to \notin Lines /\ to # "EXPECTING_NEWLINE_3"
    BY <1>17 DEF Early, InWord, Lines
  <2>4. Shaped(to, r, w2, A, B)
    BY <1>2, <2>2, <2>3 DEF Shaped, m, u
  <2>. QED  BY <1>7, <1>17, <2>4 DEF e, w2
<1>. QED
  <2>1. \/ s = "HEADER_NAME" /\ c \in NameChars /\ to = "HEADER_NAME" /\ does = "name"
        \/ s = "HEADER_NAME" /\ c = "COLON" /\ to = "SPACE_BEFORE_HEADER_VALUE" /\ does = "skip"
        \/ s = "SPACE_BEFORE_HEADER_VALUE" /\ c = "SP" /\ to = "HEADER_VALUE" /\ does = "skip"
        \/ s = "HEADER_VALUE" /\ c \in Chars \ Control /\ to = "HEADER_VALUE" /\ does = "value"
        \/ s = "HEADER_LWS" /\ c \in Chars \ (Control \cup {"SP"}) /\ to = "HEADER_VALUE" /\ does = "value"
        \/ s = "HEADER_LWS" /\ c \in Blank /\ to = "HEADER_LWS" /\ does = "skip"
        \/ s \in {"HEADER_LWS", "HEADER_VALUE"} /\ c = "CR" /\ to = "EXPECTING_NEWLINE_2" /\ does = "skip"
        \/ s = "EXPECTING_NEWLINE_2" /\ c = "LF" /\ to = "HEADER_LINE_START" /\ does = "skip"
    BY Zenon DEF LineMoves
  <2>2. CASE s = "HEADER_VALUE" /\ c \in Chars \ Control /\ to = "HEADER_VALUE" /\ does = "value"
    <3>1. s # "HEADER_LWS"
      BY <2>2
    <3>. QED  BY <1>14, <2>2, <3>1
  <2>3. CASE s = "HEADER_LWS" /\ c \in Chars \ (Control \cup {"SP"}) /\ to = "HEADER_VALUE" /\ does = "value"
    <3>1. c \in Chars \ Control /\ c # "SP"
      BY <2>3
    <3>. QED  BY <1>14, <2>3, <3>1
  <2>. QED  BY <1>11, <1>12, <1>13, <1>15, <1>16, <1>17, <2>1, <2>2, <2>3, Zenon

-----------------------------------------------------------------------------
(* The numbers of the version are those that are written, read so far.     *)

Trails(t, n, ds) ==
    /\ ds # <<>> /\ ds \in Seq(Digits) /\ NumberOf(ds) = n
    /\ \E i \in DigitsAt(t) : Len(t) \in DigitsAt(t) /\ ds = SubSeq(t, i, Len(t))

LEMMA PartIsNumeral ==
    ASSUME NEW t, NEW n, NEW ds, NEW i \in DigitsAt(t), NEW j \in DigitsAt(t), ds = SubSeq(t, i, j),
           ds # <<>>, ds \in Seq(Digits), NumberOf(ds) = n
    PROVE  ds \in NumeralsIn(t, n)
<1>. DEFINE Part(a, b) == SubSeq(t, a, b)
            parts == {Part(a, b) : a \in DigitsAt(t), b \in DigitsAt(t)}
<1>1. ds \in parts
  <2>1. ds = Part(i, j)
    OBVIOUS
  <2>. HIDE DEF Part
  <2>. QED  BY <2>1
<1>2. NumeralsIn(t, n) = {ws \in parts : ws # <<>> /\ ws \in Seq(Digits) /\ NumberOf(ws) = n}
  BY DEF NumeralsIn
<1>. HIDE DEF parts
<1>. QED  BY <1>1, <1>2

LEMMA TrailsIsNumeral ==
    ASSUME NEW t, NEW n, NEW ds, Trails(t, n, ds)
    PROVE  ds \in NumeralsIn(t, n)
<1>1. ds # <<>> /\ ds \in Seq(Digits) /\ NumberOf(ds) = n
  BY DEF Trails
<1>2. PICK i \in DigitsAt(t) : Len(t) \in DigitsAt(t) /\ ds = SubSeq(t, i, Len(t))
  BY DEF Trails
<1>. QED  BY <1>1, <1>2, PartIsNumeral

LEMMA NumeralsAreDigits ==
    ASSUME NEW t, NEW n, NEW ds \in NumeralsIn(t, n)
    PROVE  ds \in Seq(Digits)
BY DEF NumeralsIn

LEMMA PartStays ==
    ASSUME NEW t \in Seq(Chars), NEW c \in Chars
    PROVE  /\ DigitsAt(t) \subseteq DigitsAt(Append(t, c))
           /\ \A i \in DigitsAt(t), j \in DigitsAt(t) : SubSeq(Append(t, c), i, j) = SubSeq(t, i, j)
<1>. DEFINE u == Append(t, c)
<1>1. /\ Len(t) \in Nat /\ Len(u) = Len(t) + 1 /\ \A i \in 1 .. Len(t) : u[i] = t[i]
  BY OneMore
<1>2. u = t \o <<c>> /\ <<c>> \in Seq(Chars)
  BY AppendIsConcat
<1>3. ASSUME NEW i \in DigitsAt(t), NEW j \in DigitsAt(t) PROVE SubSeq(u, i, j) = SubSeq(t, i, j)
  <2>1. i \in 1 .. Len(t) /\ j \in 1 .. Len(t)
    BY DEF DigitsAt
  <2>. DEFINE x == <<c>>
  <2>2. x \in Seq(Chars) /\ u = t \o x
    BY <1>2
  <2>. HIDE DEF x, u
  <2>3. SubSeq(t \o x, i, j) = SubSeq(t, i, j)
    BY <2>1, <2>2, SubSeqOfConcat1
  <2>. QED  BY <2>2, <2>3
<1>. HIDE DEF u
<1>4. DigitsAt(t) \subseteq DigitsAt(u)
  BY <1>1 DEF DigitsAt
<1>. QED  BY <1>3, <1>4 DEF u

LEMMA NumeralsStay ==
    ASSUME NEW t \in Seq(Chars), NEW c \in Chars, NEW n, NEW ds \in NumeralsIn(t, n)
    PROVE  ds \in NumeralsIn(Append(t, c), n)
<1>. DEFINE u == Append(t, c)
<1>1. PICK i \in DigitsAt(t), j \in DigitsAt(t) : ds = SubSeq(t, i, j)
  BY DEF NumeralsIn
<1>2. ds = SubSeq(u, i, j) /\ i \in DigitsAt(u) /\ j \in DigitsAt(u)
  BY <1>1, PartStays
<1>3. ds # <<>> /\ ds \in Seq(Digits) /\ NumberOf(ds) = n
  BY DEF NumeralsIn
<1>. HIDE DEF u
<1>4. ds \in NumeralsIn(u, n)
  BY <1>2, <1>3, PartIsNumeral
<1>. QED  BY <1>4 DEF u

LEMMA NewDigit ==
    ASSUME NEW t \in Seq(Chars), NEW d \in Digits
    PROVE  Trails(Append(t, d), Value(d), <<d>>)
<1>. DEFINE u == Append(t, d)
            n == Len(t)
<1>1. d \in Chars
  BY Classes
<1>2. u \in Seq(Chars) /\ n \in Nat /\ Len(u) = n + 1 /\ u[n + 1] = d
  BY <1>1, OneMore
<1>. HIDE DEF u, n
<1>3. n + 1 \in DigitsAt(u)
  BY <1>2 DEF DigitsAt
<1>4. SubSeq(u, n + 1, n + 1) = <<d>>
  <2>1. n + 1 \in 1 .. Len(u) /\ n + 1 \in n + 1 .. Len(u)
    BY <1>2
  <2>2. SubSeq(u, n + 1, n + 1) = SubSeq(u, n + 1, n + 1 - 1) \o <<u[n + 1]>>
    BY <1>2, <2>1, SubSeqRecursiveSecond
  <2>3. SubSeq(u, n + 1, n + 1 - 1) = <<>>
    <3>1. n + 1 \in Int /\ n + 1 - 1 \in Int /\ n + 1 - 1 < n + 1
      BY <1>2
    <3>. QED  BY <3>1, SubSeqEmpty
  <2>4. <<>> \o <<d>> = <<d>>
    <3>1. <<d>> \in Seq(Chars)
      BY <1>1
    <3>. QED  BY <3>1, ConcatEmptySeq
  <2>. QED  BY <1>2, <2>2, <2>3, <2>4
<1>5. <<d>> # <<>> /\ <<d>> \in Seq(Digits)
  OBVIOUS
<1>6. NumberOf(<<d>>) = Value(d)
  <2>1. <<>> \in Seq(Digits)
    OBVIOUS
  <2>. QED  BY <2>1, NumberOfMore
<1>7. Trails(u, Value(d), <<d>>)
  BY <1>2, <1>3, <1>4, <1>5, <1>6 DEF Trails
<1>. QED  BY <1>7 DEF u

LEMMA DigitMore ==
    ASSUME NEW t \in Seq(Chars), NEW d \in Digits, NEW n, NEW ds, Trails(t, n, ds)
    PROVE  Trails(Append(t, d), n * 10 + Value(d), Append(ds, d))
<1>. DEFINE u == Append(t, d)
            l == Len(t)
<1>1. d \in Chars
  BY Classes
<1>2. /\ u \in Seq(Chars) /\ l \in Nat /\ Len(u) = l + 1 /\ u[l + 1] = d
  BY <1>1, OneMore
<1>3. ds # <<>> /\ ds \in Seq(Digits) /\ NumberOf(ds) = n
  BY DEF Trails
<1>4. PICK i \in DigitsAt(t) : l \in DigitsAt(t) /\ ds = SubSeq(t, i, l)
  BY DEF Trails
<1>5. SubSeq(u, i, l) = ds /\ i \in DigitsAt(u)
  BY <1>1, <1>4, PartStays
<1>6. i \in 1 .. l
  BY <1>4 DEF DigitsAt
<1>. HIDE DEF u, l
<1>7. SubSeq(u, i, l + 1) = Append(ds, d)
  <2>1. i \in 1 .. Len(u) /\ l + 1 \in i .. Len(u) /\ l + 1 - 1 = l
    BY <1>2, <1>6
  <2>2. SubSeq(u, i, l + 1) = SubSeq(u, i, l + 1 - 1) \o <<u[l + 1]>>
    BY <1>2, <2>1, SubSeqRecursiveSecond
  <2>3. Append(ds, d) = ds \o <<d>>
    BY <1>3, AppendIsConcat
  <2>. QED  BY <1>2, <1>5, <2>1, <2>2, <2>3
<1>8. l + 1 \in DigitsAt(u)
  BY <1>2 DEF DigitsAt
<1>9. Append(ds, d) \in Seq(Digits) /\ Append(ds, d) # <<>>
  BY <1>3, AppendProperties
<1>10. NumberOf(Append(ds, d)) = n * 10 + Value(d)
  <2>1. NumberOf(ds) \in Int /\ NumberOf(Append(ds, d)) = 10 * NumberOf(ds) + Value(d)
    BY <1>3, NumberOfMore
  <2>2. 10 * n = n * 10
    BY <1>3, <2>1
  <2>. QED  BY <1>3, <2>1, <2>2
<1>11. Trails(u, n * 10 + Value(d), Append(ds, d))
  BY <1>2, <1>5, <1>7, <1>8, <1>9, <1>10 DEF Trails
<1>. QED  BY <1>11 DEF u

Tracked(s, r, t, A, B) ==
    /\ s \in MajorKnown => A \in NumeralsIn(t, r.major)
    /\ s \in MinorKnown => B \in NumeralsIn(t, r.minor)
    /\ s = "HTTP_VERSION_MAJOR" => Trails(t, r.major, A)
    /\ s = "HTTP_VERSION_MINOR" => Trails(t, r.minor, B)

(* What the rules that touch the version do, and where the others go.      *)
LEMMA NumbersGrow ==
    ASSUME NEW s, NEW r \in Built, NEW t \in Seq(Chars), NEW A, NEW B, Tracked(s, r, t, A, B),
           NEW c \in Chars, NEW rule \in RulesFor(s, r, c)
    PROVE  Tracked(rule.to, Effect(rule.does, r, c), Append(t, c),
                   MajorAfter(rule.does, A, c), MinorAfter(rule.does, B, c))
<1>. DEFINE to == rule.to
            does == rule.does
            e == Effect(does, r, c)
            u == Append(t, c)
            A2 == MajorAfter(does, A, c)
            B2 == MinorAfter(does, B, c)
<1>1. Sets(s, rule, c)
  BY RulesSet
<1>2. \/ MethodMoves(s, c, to, does)
      \/ VersionMoves(s, c, to, does)
      \/ StartMoves(s, r, c, to, does)
      \/ LineMoves(s, c, to, does)
  BY RulesMove
<1>3. /\ does \in {"skip", "method", "uri", "newHeader", "name", "value",
                  "setMajor", "major", "setMinor", "minor"}
      /\ to = "HTTP_VERSION_MAJOR" <=> does \in {"setMajor", "major"}
      /\ to = "HTTP_VERSION_MINOR" <=> does \in {"setMinor", "minor"}
      /\ does = "major" => s = "HTTP_VERSION_MAJOR"
      /\ does = "minor" => s = "HTTP_VERSION_MINOR"
      /\ does \in {"setMajor", "major", "setMinor", "minor"} => c \in Digits
  <2>1. CASE MethodMoves(s, c, to, does)
    BY <2>1 DEF MethodMoves
  <2>2. CASE VersionMoves(s, c, to, does)
    BY <2>2 DEF VersionMoves, VersionWord
  <2>3. CASE StartMoves(s, r, c, to, does)
    BY <2>3 DEF StartMoves
  <2>4. CASE LineMoves(s, c, to, does)
    BY <2>4 DEF LineMoves
  <2>. QED  BY <1>2, <2>1, <2>2, <2>3, <2>4
<1>4. /\ to \in MajorKnown => s \in MajorKnown \/ does = "setMajor"
      /\ to \in MinorKnown => s \in MinorKnown \/ does = "setMinor"
  BY <1>1 DEF Sets
<1>5. /\ s \in MajorKnown => A \in NumeralsIn(t, r.major)
      /\ s \in MinorKnown => B \in NumeralsIn(t, r.minor)
      /\ s = "HTTP_VERSION_MAJOR" => Trails(t, r.major, A)
      /\ s = "HTTP_VERSION_MINOR" => Trails(t, r.minor, B)
  BY DEF Tracked
<1>. HIDE DEF to, does
<1>6. s \in MajorKnown => A \in NumeralsIn(u, r.major)
  BY <1>5, NumeralsStay
<1>7. s \in MinorKnown => B \in NumeralsIn(u, r.minor)
  BY <1>5, NumeralsStay
<1>8. CASE does \in {"skip", "method", "uri", "newHeader", "name", "value"}
  <2>1. e.major = r.major /\ e.minor = r.minor
    BY <1>8, EffectKeeps
  <2>2. A2 = A /\ B2 = B /\ does \notin {"setMajor", "major", "setMinor", "minor"}
    BY <1>8 DEF MajorAfter, MinorAfter
  <2>. HIDE DEF e, u, A2, B2
  <2>3. Tracked(to, e, u, A2, B2)
    BY <1>3, <1>4, <1>6, <1>7, <2>1, <2>2, Zenon DEF Tracked
  <2>. QED  BY <2>3 DEF e, u, A2, B2, to, does
<1>9. CASE does \in {"setMajor", "major"}
  <2>1. e.minor = r.minor /\ Trails(u, e.major, A2) /\ B2 = B
    <3>1. CASE does = "setMajor"
      <4>1. e = [r EXCEPT !.major = Value(c)]
        BY <3>1 DEF Effect
      <4>2. A2 = <<c>> /\ B2 = B
        BY <3>1 DEF MajorAfter, MinorAfter
      <4>3. Trails(u, Value(c), <<c>>)
        BY <1>3, <1>9, NewDigit
      <4>. HIDE DEF e, A2, B2, u
      <4>4. e.major = Value(c) /\ e.minor = r.minor
        BY <4>1 DEF Built
      <4>. QED  BY <4>2, <4>3, <4>4
    <3>2. CASE does = "major"
      <4>1. e = [r EXCEPT !.major = r.major * 10 + Value(c)]
        BY <3>2 DEF Effect
      <4>2. A2 = Append(A, c) /\ B2 = B
        BY <3>2 DEF MajorAfter, MinorAfter
      <4>3. Trails(t, r.major, A)
        BY <1>3, <1>5, <3>2
      <4>4. Trails(u, r.major * 10 + Value(c), Append(A, c))
        BY <1>3, <1>9, <4>3, DigitMore
      <4>. HIDE DEF e, A2, B2, u
      <4>5. e.major = r.major * 10 + Value(c) /\ e.minor = r.minor
        BY <4>1 DEF Built
      <4>. QED  BY <4>2, <4>4, <4>5
    <3>. QED  BY <1>9, <3>1, <3>2
  <2>2. A2 \in NumeralsIn(u, e.major)
    <3>. HIDE DEF e, A2, B2, u
    <3>. QED  BY <2>1, TrailsIsNumeral
  <2>3. does # "setMinor" /\ to # "HTTP_VERSION_MINOR"
    BY <1>3, <1>9
  <2>. HIDE DEF e, u, A2, B2
  <2>4. Tracked(to, e, u, A2, B2)
    BY <1>4, <1>7, <2>1, <2>2, <2>3 DEF Tracked
  <2>. QED  BY <2>4 DEF e, u, A2, B2, to, does
<1>10. CASE does \in {"setMinor", "minor"}
  <2>1. e.major = r.major /\ Trails(u, e.minor, B2) /\ A2 = A
    <3>1. CASE does = "setMinor"
      <4>1. e = [r EXCEPT !.minor = Value(c)]
        BY <3>1 DEF Effect
      <4>2. B2 = <<c>> /\ A2 = A
        BY <3>1 DEF MajorAfter, MinorAfter
      <4>3. Trails(u, Value(c), <<c>>)
        BY <1>3, <1>10, NewDigit
      <4>. HIDE DEF e, A2, B2, u
      <4>4. e.minor = Value(c) /\ e.major = r.major
        BY <4>1 DEF Built
      <4>. QED  BY <4>2, <4>3, <4>4
    <3>2. CASE does = "minor"
      <4>1. e = [r EXCEPT !.minor = r.minor * 10 + Value(c)]
        BY <3>2 DEF Effect
      <4>2. B2 = Append(B, c) /\ A2 = A
        BY <3>2 DEF MajorAfter, MinorAfter
      <4>3. Trails(t, r.minor, B)
        BY <1>3, <1>5, <3>2
      <4>4. Trails(u, r.minor * 10 + Value(c), Append(B, c))
        BY <1>3, <1>10, <4>3, DigitMore
      <4>. HIDE DEF e, A2, B2, u
      <4>5. e.minor = r.minor * 10 + Value(c) /\ e.major = r.major
        BY <4>1 DEF Built
      <4>. QED  BY <4>2, <4>4, <4>5
    <3>. QED  BY <1>10, <3>1, <3>2
  <2>2. B2 \in NumeralsIn(u, e.minor)
    <3>. HIDE DEF e, A2, B2, u
    <3>. QED  BY <2>1, TrailsIsNumeral
  <2>3. does # "setMajor" /\ to # "HTTP_VERSION_MAJOR"
    BY <1>3, <1>10
  <2>. HIDE DEF e, u, A2, B2
  <2>4. Tracked(to, e, u, A2, B2)
    BY <1>4, <1>6, <2>1, <2>2, <2>3 DEF Tracked
  <2>. QED  BY <2>4 DEF e, u, A2, B2, to, does
<1>. QED  BY <1>3, <1>8, <1>9, <1>10

-----------------------------------------------------------------------------
(* A step of the automaton: what has been read is the text of what is      *)
(* built.  Only at the start of a line and in a fold can white space make  *)
(* the text unfolded stay, or lose its line break.                         *)

Ended(s, t) ==
    /\ s \notin {"HEADER_LINE_START", "HEADER_LWS"} => ~ Hangs(t) /\ ~ Broken(t)
    /\ s = "HEADER_LINE_START" => Broken(t)
    /\ s = "HEADER_LWS" => Hangs(t) /\ ~ Broken(t)
    /\ s \in {"EXPECTING_NEWLINE_1", "EXPECTING_NEWLINE_2"} => t # <<>> /\ t[Len(t)] = "CR"

Traced(p, t) ==
    /\ Ended(p.state, t)
    /\ \E A \in Seq(Digits), B \in Seq(Digits) :
          /\ Shaped(p.state, p.req, Unfolded(t), A, B)
          /\ Tracked(p.state, p.req, t, A, B)

LEMMA LineEnds ==
    ASSUME NEW s, NEW r, NEW c \in Chars, NEW rule \in RulesFor(s, r, c)
    PROVE  /\ c = "LF" <=> rule.to = "HEADER_LINE_START"
           /\ rule.to = "HEADER_LINE_START" => s \in {"EXPECTING_NEWLINE_1", "EXPECTING_NEWLINE_2"}
           /\ rule.to = "HEADER_LWS" <=> c \in Blank /\ s \in {"HEADER_LINE_START", "HEADER_LWS"}
           /\ rule.to \in {"EXPECTING_NEWLINE_1", "EXPECTING_NEWLINE_2"} => c = "CR"
<1>. DEFINE to == rule.to
            does == rule.does
<1>1. \A d \in Alpha \cup Digits : d \notin Named
  <2>1. (Alpha \cup Digits \cup Other) \cap Named = {}
    BY ParserAssumption, Zenon
  <2>. QED  BY <2>1
<1>2. \A d \in Alpha \cup Digits : d # "LF" /\ d \notin Blank
  BY <1>1 DEF Named, Blank
<1>3. "LF" \notin UriChars /\ "LF" \notin NameChars /\ "LF" \notin Chars \ Control /\ "LF" \notin Blank
  BY DEF UriChars, NameChars, Control, Blank
<1>. HIDE DEF to, does
<1>4. CASE MethodMoves(s, c, to, does)
  BY <1>2, <1>3, <1>4 DEF MethodMoves, to
<1>5. CASE VersionMoves(s, c, to, does)
  <2>1. CASE VersionWord(s, c, to) /\ to # "HEADER_LINE_START" /\ does = "skip"
    BY <2>1 DEF VersionWord, Blank, to
  <2>2. CASE ~ (VersionWord(s, c, to) /\ to # "HEADER_LINE_START" /\ does = "skip")
    BY <1>2, <1>5, <2>2 DEF VersionMoves, Blank, to
  <2>. QED  BY <2>1, <2>2
<1>6. CASE StartMoves(s, r, c, to, does)
  <2>1. \A d \in NameChars : d # "CR" /\ d # "LF" /\ d \notin Blank
    BY DEF NameChars, Control, Blank
  <2>2. "CR" \notin Blank /\ "LF" \notin Blank
    BY DEF Blank
  <2>. HIDE DEF Blank, NameChars
  <2>. QED  BY <1>6, <2>1, <2>2 DEF StartMoves, to
<1>7. CASE LineMoves(s, c, to, does)
  <2>1. \A d \in Chars \ (Control \cup {"SP"}) : d # "LF" /\ d \notin Blank
    BY DEF Control, Blank
  <2>2. "CR" \notin Blank /\ "LF" \notin Blank /\ \A d \in NameChars : d # "LF"
    BY DEF Blank, NameChars, Control
  <2>3. \A d \in Chars \ Control : d # "LF"
    BY DEF Control
  <2>. HIDE DEF Blank, NameChars, Control
  <2>. QED  BY <1>7, <2>1, <2>2, <2>3 DEF LineMoves, to
<1>. QED
  <2>1. \/ MethodMoves(s, c, to, does)
        \/ VersionMoves(s, c, to, does)
        \/ StartMoves(s, r, c, to, does)
        \/ LineMoves(s, c, to, does)
    BY RulesMove DEF to, does
  <2>. QED  BY <1>4, <1>5, <1>6, <1>7, <2>1, Zenon

LEMMA EndGrows ==
    ASSUME NEW s, NEW r, NEW t \in Seq(Chars), Ended(s, t),
           NEW c \in Chars, NEW rule \in RulesFor(s, r, c)
    PROVE  /\ Ended(rule.to, Append(t, c))
           /\ c \in Blank /\ s = "HEADER_LINE_START" =>
                 Unfolded(t) = Append(Append(Unfolded(Append(t, c)), "CR"), "LF")
           /\ c \in Blank /\ s = "HEADER_LWS" => Unfolded(Append(t, c)) = Unfolded(t)
           /\ ~ (c \in Blank /\ s \in {"HEADER_LINE_START", "HEADER_LWS"}) =>
                 Unfolded(Append(t, c)) = Append(Unfolded(t), c)
<1>. DEFINE u == Append(t, c)
            to == rule.to
<1>1. /\ c = "LF" <=> to = "HEADER_LINE_START"
      /\ to = "HEADER_LINE_START" => s \in {"EXPECTING_NEWLINE_1", "EXPECTING_NEWLINE_2"}
      /\ to = "HEADER_LWS" <=> c \in Blank /\ s \in {"HEADER_LINE_START", "HEADER_LWS"}
      /\ to \in {"EXPECTING_NEWLINE_1", "EXPECTING_NEWLINE_2"} => c = "CR"
  BY LineEnds
<1>2. /\ Hangs(u) => c \in Blank /\ (Hangs(t) \/ Broken(t))
      /\ c \in Blank /\ (Hangs(t) \/ Broken(t)) => Hangs(u)
      /\ Broken(u) <=> c = "LF" /\ t # <<>> /\ t[Len(t)] = "CR"
  BY EndOfMore
<1>3. u # <<>> /\ u[Len(u)] = c
  <2>1. u # <<>> /\ Len(u) = Len(t) + 1 /\ u[Len(t) + 1] = c
    BY AppendProperties
  <2>. HIDE DEF u
  <2>. QED  BY <2>1
<1>4. /\ s \notin {"HEADER_LINE_START", "HEADER_LWS"} => ~ Hangs(t) /\ ~ Broken(t)
      /\ s = "HEADER_LINE_START" => Broken(t)
      /\ s = "HEADER_LWS" => Hangs(t) /\ ~ Broken(t)
      /\ s \in {"EXPECTING_NEWLINE_1", "EXPECTING_NEWLINE_2"} => t # <<>> /\ t[Len(t)] = "CR"
  BY DEF Ended
<1>5. c \in Blank => c # "LF"
  BY DEF Blank
<1>6. Ended(to, u)
  <2>. HIDE DEF u, to
  <2>1. to \notin {"HEADER_LINE_START", "HEADER_LWS"} => ~ Hangs(u) /\ ~ Broken(u)
    BY <1>1, <1>2, <1>4
  <2>2. to = "HEADER_LINE_START" => Broken(u)
    BY <1>1, <1>2, <1>4
  <2>3. to = "HEADER_LWS" => Hangs(u) /\ ~ Broken(u)
    BY <1>1, <1>2, <1>4, <1>5
  <2>4. to \in {"EXPECTING_NEWLINE_1", "EXPECTING_NEWLINE_2"} => u # <<>> /\ u[Len(u)] = "CR"
    BY <1>1, <1>3
  <2>. QED  BY <2>1, <2>2, <2>3, <2>4 DEF Ended
<1>7. c \in Blank /\ s = "HEADER_LINE_START" => Unfolded(t) = Append(Append(Unfolded(u), "CR"), "LF")
  BY <1>4, UnfoldedBreak
<1>8. c \in Blank /\ s = "HEADER_LWS" => Unfolded(u) = Unfolded(t)
  BY <1>4, UnfoldedMore
<1>9. ~ (c \in Blank /\ s \in {"HEADER_LINE_START", "HEADER_LWS"}) => Unfolded(u) = Append(Unfolded(t), c)
  <2>1. c \notin Blank \/ ~ (Hangs(t) \/ Broken(t)) => Unfolded(u) = Append(Unfolded(t), c)
    BY UnfoldedMore
  <2>. QED  BY <1>4, <2>1, Zenon
<1>. QED  BY <1>6, <1>7, <1>8, <1>9

LEMMA ShapeGrows ==
    ASSUME NEW s, NEW r \in Built, NEW t \in Seq(Chars), Ended(s, t),
           NEW A \in Seq(Digits), NEW B \in Seq(Digits), Shaped(s, r, Unfolded(t), A, B),
           NEW c \in Chars, NEW rule \in RulesFor(s, r, c)
    PROVE  Shaped(rule.to, Effect(rule.does, r, c), Unfolded(Append(t, c)),
                  MajorAfter(rule.does, A, c), MinorAfter(rule.does, B, c))
<1>. DEFINE to == rule.to
            does == rule.does
            e == Effect(does, r, c)
            w == Unfolded(t)
            w2 == Unfolded(Append(t, c))
            A2 == MajorAfter(does, A, c)
            B2 == MinorAfter(does, B, c)
<1>1. w \in Seq(Chars) /\ w2 \in Seq(Chars)
  <2>1. Append(t, c) \in Seq(Chars)
    BY AppendProperties
  <2>. QED  BY <2>1, UnfoldedMore
<1>2. /\ c \in Blank /\ s = "HEADER_LINE_START" => w = Append(Append(w2, "CR"), "LF")
      /\ c \in Blank /\ s = "HEADER_LWS" => w2 = w
      /\ ~ (c \in Blank /\ s \in {"HEADER_LINE_START", "HEADER_LWS"}) => w2 = Append(w, c)
  BY EndGrows
<1>3. does \notin {"setMajor", "major"} => A2 = A
  BY DEF MajorAfter
<1>4. does \notin {"setMinor", "minor"} => B2 = B
  BY DEF MinorAfter
<1>. HIDE DEF w, w2, A2, B2, to, does
<1>5. Shaped(s, r, w, A, B)
  BY DEF w
<1>6. CASE MethodMoves(s, c, to, does)
  <2>1. Shaped(to, e, Append(w, c), A, B)
    BY <1>5, <1>6, MethodGrows
  <2>2. s \notin {"HEADER_LINE_START", "HEADER_LWS"} /\ does \in {"skip", "method", "uri"}
    BY <1>6 DEF MethodMoves
  <2>. QED  BY <1>2, <1>3, <1>4, <2>1, <2>2 DEF w2, A2, B2, to, does
<1>7. CASE VersionMoves(s, c, to, does)
  <2>1. Shaped(to, e, Append(w, c), A2, B2)
    BY <1>5, <1>7, VersionGrows DEF A2, B2
  <2>2. s \notin {"HEADER_LINE_START", "HEADER_LWS"}
    BY <1>7 DEF VersionMoves, VersionWord
  <2>. QED  BY <1>2, <2>1, <2>2 DEF w2, A2, B2, to, does
<1>8. CASE StartMoves(s, r, c, to, does)
  <2>1. s = "HEADER_LINE_START" /\ does \in {"skip", "newHeader"}
    BY <1>8 DEF StartMoves
  <2>2. /\ c \notin Blank => Shaped(to, e, Append(w, c), A, B)
        /\ c \in Blank =>
              \A x \in Seq(Chars) : w = Append(Append(x, "CR"), "LF") =>
                 to = "HEADER_LWS" /\ Shaped(to, e, x, A, B)
    BY <1>5, <1>8, StartGrows
  <2>. HIDE DEF e
  <2>3. CASE c \in Blank
    <3>1. Shaped(to, e, w2, A, B)
      BY <1>1, <1>2, <2>1, <2>2, <2>3
    <3>. QED  BY <1>3, <1>4, <2>1, <3>1 DEF w2, A2, B2, to, does, e
  <2>4. CASE c \notin Blank
    BY <1>2, <1>3, <1>4, <2>1, <2>2, <2>4 DEF w2, A2, B2, to, does, e
  <2>. QED  BY <2>3, <2>4
<1>9. CASE LineMoves(s, c, to, does)
  <2>1. s # "HEADER_LINE_START" /\ does \in {"skip", "name", "value"}
    BY <1>9 DEF LineMoves
  <2>2. /\ ~ (s = "HEADER_LWS" /\ c \in Blank) => Shaped(to, e, Append(w, c), A, B)
        /\ s = "HEADER_LWS" /\ c \in Blank => to = "HEADER_LWS" /\ Shaped(to, e, w, A, B)
    BY <1>5, <1>9, LineGrows
  <2>. HIDE DEF e
  <2>3. Shaped(to, e, w2, A, B)
    BY <1>2, <2>1, <2>2
  <2>. QED  BY <1>3, <1>4, <2>1, <2>3 DEF w2, A2, B2, to, does, e
<1>. QED
  <2>1. \/ MethodMoves(s, c, to, does)
        \/ VersionMoves(s, c, to, does)
        \/ StartMoves(s, r, c, to, does)
        \/ LineMoves(s, c, to, does)
    BY RulesMove DEF to, does
  <2>. QED  BY <1>6, <1>7, <1>8, <1>9, <2>1, Zenon

LEMMA StillDigits ==
    ASSUME NEW A \in Seq(Digits), NEW B \in Seq(Digits), NEW s, NEW r, NEW c, NEW rule \in RulesFor(s, r, c)
    PROVE  MajorAfter(rule.does, A, c) \in Seq(Digits) /\ MinorAfter(rule.does, B, c) \in Seq(Digits)
<1>1. rule.does \in {"setMajor", "major", "setMinor", "minor"} => c \in Digits
  BY RulesSet DEF Sets
<1>2. c \in Digits => <<c>> \in Seq(Digits) /\ Append(A, c) \in Seq(Digits) /\ Append(B, c) \in Seq(Digits)
  BY AppendProperties
<1>. QED  BY <1>1, <1>2 DEF MajorAfter, MinorAfter

LEMMA StepTraced ==
    ASSUME NEW p, Sound(p), NEW t \in Seq(Chars), Traced(p, t), NEW c \in Chars,
           p.result = "INDETERMINATE", Verdict(p, c) = "INDETERMINATE"
    PROVE  Traced(Step(p, c), Append(t, c))
<1>1. p \in Progress /\ p.req \in Built
  BY DEF Sound, Progress
<1>2. PICK rule \in RulesFor(p.state, p.req, c) :
         Follow(p, c) = [state |-> rule.to, req |-> Effect(rule.does, p.req, c),
                         result |-> p.result, used |-> p.used + 1]
  BY <1>1, FollowIs
<1>3. Step(p, c) = Follow(p, c)
  BY DEF Step
<1>4. Step(p, c).state = rule.to /\ Step(p, c).req = Effect(rule.does, p.req, c)
  BY <1>2, <1>3
<1>5. PICK A \in Seq(Digits), B \in Seq(Digits) :
         Shaped(p.state, p.req, Unfolded(t), A, B) /\ Tracked(p.state, p.req, t, A, B)
  BY DEF Traced
<1>6. Ended(p.state, t)
  BY DEF Traced
<1>. DEFINE A2 == MajorAfter(rule.does, A, c)
            B2 == MinorAfter(rule.does, B, c)
<1>7. Ended(rule.to, Append(t, c))
  BY <1>6, EndGrows
<1>8. Shaped(rule.to, Effect(rule.does, p.req, c), Unfolded(Append(t, c)), A2, B2)
  BY <1>1, <1>5, <1>6, ShapeGrows
<1>9. Tracked(rule.to, Effect(rule.does, p.req, c), Append(t, c), A2, B2)
  BY <1>1, <1>5, NumbersGrow
<1>10. A2 \in Seq(Digits) /\ B2 \in Seq(Digits)
  BY StillDigits
<1>. HIDE DEF A2, B2
<1>. QED  BY <1>4, <1>7, <1>8, <1>9, <1>10 DEF Traced

LEMMA NothingTraced == Traced(Begin, <<>>)
<1>. DEFINE t == <<>>
<1>1. t \in Seq(Chars) /\ Len(t) = 0
  OBVIOUS
<1>2. Begin.state = "METHOD_START" /\ Begin.req = EmptyRequest
  BY DEF Begin, Start
<1>3. EmptyRequest.method = <<>> /\ EmptyRequest.uri = <<>> /\ EmptyRequest.headers = <<>>
  BY DEF EmptyRequest
<1>. HIDE DEF t
<1>4. Unfolded(t) = <<>>
  <2>1. PICK f : Sifts(t, f)
    BY <1>1, SiftExists
  <2>2. Unfolded(t) = f[Len(t)]
    BY <1>1, <2>1, UnfoldedIs
  <2>. QED  BY <1>1, <2>1, <2>2 DEF Sifts
<1>5. Ended("METHOD_START", t)
  BY <1>1 DEF Ended, Hangs, Broken
<1>6. EarlyText("METHOD_START", <<>>, <<>>, <<>>, <<>>, <<>>)
  BY DEF EarlyText, InWord
<1>7. Shaped("METHOD_START", EmptyRequest, <<>>, <<>>, <<>>)
  <2>1. "METHOD_START" \in Early
    BY DEF Early
  <2>. QED  BY <1>3, <1>6, <2>1, EarlyIsShaped
<1>8. Tracked("METHOD_START", EmptyRequest, t, <<>>, <<>>)
  BY DEF Tracked, MajorKnown, MinorKnown, Lines
<1>9. <<>> \in Seq(Digits)
  OBVIOUS
<1>10. Traced(Begin, t)
  BY <1>2, <1>4, <1>5, <1>7, <1>8, <1>9 DEF Traced
<1>. QED  BY <1>10 DEF t

(* Until the first verdict, whatever has been read.                        *)
LEMMA UndecidedTraced ==
    ASSUME NEW t \in Seq(Chars), After(Begin, t).result = "INDETERMINATE"
    PROVE  Traced(After(Begin, t), t)
<1>. DEFINE f == Run(Begin, t)
            n == Len(t)
            S == {i \in 0 .. n : f[i].result = "INDETERMINATE" => Traced(f[i], SubSeq(t, 1, i))}
<1>1. /\ n \in Nat /\ SubSeq(t, 1, 0) = <<>> /\ SubSeq(t, 1, n) = t
      /\ \A i \in 1 .. n : /\ t[i] \in Chars /\ SubSeq(t, 1, i - 1) \in Seq(Chars)
                           /\ SubSeq(t, 1, i) = Append(SubSeq(t, 1, i - 1), t[i])
  BY Beginnings
<1>2. f[0] = Begin /\ \A i \in 1 .. n : f[i] = Step(f[i - 1], t[i])
  BY <1>1, RunProperties
<1>3. \A i \in 0 .. n : Sound(f[i])
  BY AfterSound, BeginSound
<1>. HIDE DEF f, n
<1>4. 0 \in S
  <2>1. 0 \in 0 .. n
    BY <1>1
  <2>2. Traced(f[0], SubSeq(t, 1, 0))
    BY <1>1, <1>2, NothingTraced
  <2>. QED  BY <2>1, <2>2, Zenon
<1>5. ASSUME NEW i \in 1 .. n, i - 1 \in S PROVE i \in S
  <2>. DEFINE p == f[i - 1]
              x == SubSeq(t, 1, i - 1)
              c == t[i]
  <2>1. /\ p.result = "INDETERMINATE" => Traced(p, x)
        /\ i - 1 \in 0 .. n /\ i \in 0 .. n
    BY <1>1, <1>5
  <2>2. /\ Sound(p) /\ p \in Progress /\ x \in Seq(Chars) /\ c \in Chars
        /\ f[i] = Step(p, c) /\ SubSeq(t, 1, i) = Append(x, c)
    BY <1>1, <1>2, <1>3, <2>1 DEF Sound, Progress
  <2>. HIDE DEF p, x, c
  <2>3. ASSUME f[i].result = "INDETERMINATE" PROVE Traced(f[i], SubSeq(t, 1, i))
    <3>1. p.result = "INDETERMINATE"
      BY <2>2, <2>3 DEF Step
    <3>2. Verdict(p, c) = "INDETERMINATE"
      <4>1. ASSUME Verdict(p, c) # "INDETERMINATE" PROVE FALSE
        <5>1. Step(p, c) = [p EXCEPT !.result = Verdict(p, c), !.used = p.used + 1]
          BY <3>1, <4>1 DEF Step
        <5>2. Step(p, c).result = Verdict(p, c)
          BY <2>2, <5>1 DEF Progress
        <5>. QED  BY <2>2, <2>3, <4>1, <5>2
      <4>. QED  BY <4>1
    <3>3. Traced(Step(p, c), Append(x, c))
      BY <2>1, <2>2, <3>1, <3>2, StepTraced
    <3>. QED  BY <2>2, <3>3
  <2>. QED  BY <2>1, <2>3
<1>. HIDE DEF S
<1>6. \A i \in 0 .. n : i \in S
  BY <1>1, <1>4, <1>5, Induction
<1>7. n \in S
  BY <1>1, <1>6
<1>8. f[n].result = "INDETERMINATE" => Traced(f[n], SubSeq(t, 1, n))
  BY <1>7 DEF S
<1>9. f[n].result = "INDETERMINATE"
  BY DEF After, f, n
<1>. QED  BY <1>1, <1>8, <1>9 DEF After, f, n

-----------------------------------------------------------------------------
(* The first verdict falls on the last of the characters kept.             *)

LEMMA LastDecides ==
    ASSUME NEW base, Sound(base), base.used = 0, base.result = "INDETERMINATE",
           NEW text \in Seq(Chars), After(base, text).result # "INDETERMINATE"
    PROVE  /\ After(base, text).used \in 1 .. Len(text)
           /\ Run(base, text)[After(base, text).used - 1].result = "INDETERMINATE"
<1>. DEFINE f == Run(base, text)
            n == Len(text)
            S == {i \in 0 .. n : /\ f[i].result = "INDETERMINATE" => f[i].used = i
                                 /\ f[i].result # "INDETERMINATE" =>
                                       f[i].used \in 1 .. i /\ f[f[i].used - 1].result = "INDETERMINATE"}
<1>1. n \in Nat
  BY LenProperties
<1>2. f[0] = base /\ \A i \in 1 .. n : f[i] = Step(f[i - 1], text[i])
  BY <1>1, RunProperties
<1>3. \A i \in 0 .. n : f[i] \in Progress
  BY AfterSound DEF Sound, Progress
<1>. HIDE DEF f, n
<1>4. 0 \in S
  BY <1>1, <1>2
<1>5. ASSUME NEW i \in 1 .. n, i - 1 \in S PROVE i \in S
  <2>1. /\ f[i - 1].result = "INDETERMINATE" => f[i - 1].used = i - 1
        /\ f[i - 1].result # "INDETERMINATE" =>
              f[i - 1].used \in 1 .. i - 1 /\ f[f[i - 1].used - 1].result = "INDETERMINATE"
        /\ f[i - 1] \in Progress /\ f[i] = Step(f[i - 1], text[i]) /\ i \in 0 .. n
    BY <1>1, <1>2, <1>3, <1>5
  <2>2. CASE f[i - 1].result # "INDETERMINATE"
    <3>1. f[i] = f[i - 1]
      BY <2>1, <2>2 DEF Step
    <3>. DEFINE k == f[i].used
    <3>2. k \in 1 .. i - 1 /\ f[k - 1].result = "INDETERMINATE" /\ f[i].result # "INDETERMINATE"
      BY <2>1, <2>2, <3>1
    <3>. HIDE DEF k
    <3>3. k \in 1 .. i
      BY <3>2
    <3>. QED  BY <2>1, <3>2, <3>3 DEF k
  <2>3. CASE f[i - 1].result = "INDETERMINATE"
    <3>1. Step(f[i - 1], text[i]).used = f[i - 1].used + 1
      <4>1. CASE Verdict(f[i - 1], text[i]) = "INDETERMINATE"
        BY <2>1, <2>3, <4>1, FollowIs DEF Step
      <4>2. CASE Verdict(f[i - 1], text[i]) # "INDETERMINATE"
        BY <2>1, <2>3, <4>2 DEF Step, Progress
      <4>. QED  BY <4>1, <4>2
    <3>2. f[i].used = i
      BY <1>1, <2>1, <2>3, <3>1
    <3>3. i \in 1 .. i /\ f[i - 1].result = "INDETERMINATE"
      BY <2>3
    <3>. QED  BY <2>1, <3>2, <3>3
  <2>. QED  BY <2>2, <2>3
<1>. HIDE DEF S
<1>6. \A i \in 0 .. n : i \in S
  BY <1>1, <1>4, <1>5, Induction
<1>7. n \in S
  BY <1>1, <1>6
<1>8. f[n].result # "INDETERMINATE"
  BY DEF After, f, n
<1>9. f[n].used \in 1 .. n /\ f[f[n].used - 1].result = "INDETERMINATE"
  BY <1>7, <1>8 DEF S
<1>. QED  BY <1>9 DEF After, f, n

Ends(t) == \E x \in Seq(Chars), c \in Chars : t = Append(x, c) /\ After(Begin, x).result = "INDETERMINATE"
Ending == verdict # "INDETERMINATE" => Ends(input)

LEMMA InitEnding == Init => Ending
BY DEF Init, Ending

LEMMA ReadEnding ==
    ASSUME Typed, Tracking, Ending, NEW chunk \in Chunks, Read(chunk)
    PROVE  Ending'
<1>. DEFINE base == Start(state, req)
            p == After(base, chunk)
            q == After(Begin, input)
<1>1. chunk \in Seq(Chars) /\ input \in Seq(Chars) /\ Sound(base) /\ Sound(Begin)
      /\ base.used = 0 /\ base.result = "INDETERMINATE" /\ base.state = state /\ base.req = req
  <2>1. chunk \in Seq(Chars) /\ input \in Seq(Chars) /\ Sound(base) /\ Sound(Begin)
    BY Assumed, StartSound, BeginSound DEF Typed, Texts
  <2>. QED  BY <2>1 DEF Start
<1>2. /\ verdict' = IF verdict = "INDETERMINATE" THEN p.result ELSE verdict
      /\ input' = IF verdict = "INDETERMINATE" THEN input \o SubSeq(chunk, 1, p.used) ELSE input
  BY ParseIsRun DEF Read
<1>3. /\ q.result = verdict
      /\ verdict = "INDETERMINATE" => q.state = state /\ q.req = req
  BY DEF Tracking, Tracks
<1>4. CASE verdict # "INDETERMINATE"
  <2>1. input' = input /\ Ends(input)
    BY <1>2, <1>4 DEF Ending
  <2>2. Ends(input)'
    BY <2>1 DEF Ends
  <2>. QED  BY <2>2 DEF Ending
<1>5. CASE verdict = "INDETERMINATE" /\ p.result = "INDETERMINATE"
  <2>1. verdict' = "INDETERMINATE"
    BY <1>2, <1>5
  <2>. QED  BY <2>1 DEF Ending
<1>6. CASE verdict = "INDETERMINATE" /\ p.result # "INDETERMINATE"
  <2>. DEFINE k == p.used
              x == SubSeq(chunk, 1, k - 1)
              c == chunk[k]
  <2>1. k \in 1 .. Len(chunk) /\ Run(base, chunk)[k - 1].result = "INDETERMINATE"
    BY <1>1, <1>6, LastDecides
  <2>. HIDE DEF base, k
  <2>2. /\ Len(chunk) \in Nat /\ c \in Chars /\ x \in Seq(Chars)
        /\ SubSeq(chunk, 1, k) = Append(x, c)
    BY <1>1, <2>1, Beginnings
  <2>3. Len(x) = k - 1 /\ \A i \in 1 .. Len(x) : x[i] = chunk[i]
    <3>1. \A i \in 1 .. k - 1 : chunk[i] \in Chars
      <4>1. \A i \in 1 .. k - 1 : i \in 1 .. Len(chunk)
        BY <2>1, <2>2
      <4>. QED  BY <1>1, <4>1, ElementOfSeq
    <3>2. 1 \in Int /\ k - 1 \in Int
      BY <2>1
    <3>3. /\ Len(x) = IF 1 <= k - 1 THEN (k - 1) - 1 + 1 ELSE 0
          /\ \A i \in 1 .. (k - 1) - 1 + 1 : x[i] = chunk[1 + i - 1]
      BY <3>1, <3>2, SubSeqProperties
    <3>4. Len(x) = k - 1
      BY <2>1, <3>3
    <3>5. ASSUME NEW i \in 1 .. k - 1 PROVE x[i] = chunk[i]
      <4>1. i \in 1 .. (k - 1) - 1 + 1 /\ 1 + i - 1 = i
        BY <2>1
      <4>. HIDE DEF x
      <4>. QED  BY <3>3, <4>1
    <3>. HIDE DEF x
    <3>. QED  BY <3>4, <3>5
  <2>. HIDE DEF x, c
  <2>4. After(base, x).result = "INDETERMINATE"
    <3>1. Len(x) \in Nat /\ Len(x) <= Len(chunk) /\ Len(x) \in 0 .. Len(x)
      BY <2>1, <2>2, <2>3
    <3>2. \A i \in 0 .. Len(x) : Run(base, x)[i] = Run(base, chunk)[i]
      BY <2>2, <2>3, <3>1, SameRun
    <3>. QED  BY <2>1, <2>3, <3>1, <3>2 DEF After
  <2>5. Sound(q)
    <3>1. \A i \in 0 .. Len(input) : Sound(Run(Begin, input)[i])
      BY <1>1, AfterSound
    <3>2. Len(input) \in 0 .. Len(input)
      BY <1>1, LenProperties
    <3>. QED  BY <3>1, <3>2 DEF After
  <2>6. Alike(base, q)
    <3>. HIDE DEF q
    <3>. QED  BY <1>1, <1>3, <1>6 DEF Alike
  <2>7. After(q, x).result = "INDETERMINATE"
    <3>1. Alike(After(base, x), After(q, x))
      <4>. HIDE DEF q
      <4>. QED  BY <1>1, <2>2, <2>5, <2>6, AfterAlike
    <3>. QED  BY <2>4, <3>1 DEF Alike
  <2>8. After(Begin, input \o x).result = "INDETERMINATE"
    BY <1>1, <2>2, <2>7, AfterConcat
  <2>9. input' = Append(input \o x, c) /\ input \o x \in Seq(Chars)
    <3>1. Append(input \o x, c) = input \o Append(x, c) /\ input \o x \in Seq(Chars)
      BY <1>1, <2>2, AppendingMore
    <3>2. input' = input \o SubSeq(chunk, 1, k)
      BY <1>2, <1>6 DEF k
    <3>. QED  BY <2>2, <3>1, <3>2, Zenon
  <2>10. Ends(input)'
    <3>. DEFINE y == input \o x
    <3>1. y \in Seq(Chars) /\ input' = Append(y, c) /\ After(Begin, y).result = "INDETERMINATE" /\ c \in Chars
      BY <2>2, <2>8, <2>9
    <3>. HIDE DEF y
    <3>. QED  BY <3>1 DEF Ends
  <2>. QED  BY <2>10 DEF Ending
<1>. QED  BY <1>4, <1>5, <1>6

LEMMA NextEnding == Typed /\ Tracking /\ Ending /\ [Next]_vars => Ending'
<1>. SUFFICES ASSUME Typed, Tracking, Ending, [Next]_vars PROVE Ending'
  OBVIOUS
<1>1. CASE Next
  BY <1>1, ReadEnding DEF Next
<1>2. CASE UNCHANGED vars
  <2>1. input' = input /\ verdict' = verdict
    BY <1>2 DEF vars
  <2>. QED  BY <2>1 DEF Ending, Ends
<1>. QED  BY <1>1, <1>2

LEMMA Decisions == Spec => []Ending
<1>1. Typed /\ Tracking /\ Ending /\ [Next]_vars => Typed' /\ Tracking' /\ Ending'
  BY NextTyped, NextTracking, NextEnding
<1>. QED  BY <1>1, InitTyped, InitTracking, InitEnding, PTL DEF Spec

-----------------------------------------------------------------------------
LEMMA GoodIsWritten ==
    ASSUME NEW t \in Seq(Chars), NEW c \in Chars,
           After(Begin, t).result = "INDETERMINATE", After(Begin, Append(t, c)).result = "GOOD"
    PROVE  LET r == After(Begin, Append(t, c)).req
           IN /\ WellFormed(r)
              /\ \E A \in NumeralsIn(Append(t, c), r.major), B \in NumeralsIn(Append(t, c), r.minor) :
                    Unfolded(Append(t, c)) = TextOf(r, A, B)
<1>. DEFINE p == After(Begin, t)
            u == Append(t, c)
            q == After(Begin, u)
            r == p.req
<1>1. Sound(p) /\ p \in Progress
  <2>1. \A i \in 0 .. Len(t) : Sound(Run(Begin, t)[i])
    BY BeginSound, AfterSound
  <2>2. Len(t) \in 0 .. Len(t)
    BY LenProperties
  <2>3. Sound(p)
    BY <2>1, <2>2 DEF After
  <2>. QED  BY <2>3 DEF Sound, Progress
<1>2. q = Step(p, c)
  BY AfterAppend
<1>3. Traced(p, t)
  BY UndecidedTraced
<1>4. p.result = "INDETERMINATE" /\ q.result = "GOOD"
  OBVIOUS
<1>. HIDE DEF p, q
<1>5. Verdict(p, c) # "INDETERMINATE"
  <2>1. ASSUME Verdict(p, c) = "INDETERMINATE" PROVE FALSE
    <3>1. Step(p, c) = Follow(p, c)
      BY <1>4, <2>1 DEF Step
    <3>2. Follow(p, c).result = p.result
      BY <1>1, <2>1, FollowIs
    <3>. QED  BY <1>2, <1>4, <3>1, <3>2
  <2>. QED  BY <2>1
<1>6. Step(p, c) = [p EXCEPT !.result = Verdict(p, c), !.used = p.used + 1]
  BY <1>4, <1>5 DEF Step
<1>7. q.req = r /\ Verdict(p, c) = "GOOD"
  <2>. DEFINE v == Verdict(p, c)
  <2>. HIDE DEF v
  <2>1. q = [p EXCEPT !.result = v, !.used = p.used + 1]
    BY <1>2, <1>6 DEF v
  <2>2. q.req = r /\ q.result = v
    BY <1>1, <2>1 DEF Progress
  <2>. QED  BY <1>4, <2>2 DEF v
<1>8. p.state = "EXPECTING_NEWLINE_3" /\ c = "LF"
  BY <1>7 DEF Verdict
<1>9. PICK A \in Seq(Digits), B \in Seq(Digits) :
         Shaped(p.state, r, Unfolded(t), A, B) /\ Tracked(p.state, r, t, A, B)
  BY <1>3 DEF Traced
<1>10. r \in Built
  BY <1>1 DEF Progress
<1>. HIDE DEF r
<1>11. /\ r.method # <<>> /\ r.headers \in Seq(Field)
       /\ Unfolded(t) = Append(Whole(r.method, r.uri, A, B, r.headers), "CR")
  <2>1. p.state \notin Early
    BY <1>8 DEF Early, InWord
  <2>. QED  BY <1>8, <1>9, <2>1 DEF Shaped
<1>12. A \in NumeralsIn(u, r.major) /\ B \in NumeralsIn(u, r.minor)
  <2>1. p.state \in MajorKnown /\ p.state \in MinorKnown
    BY <1>8 DEF MajorKnown, MinorKnown
  <2>2. A \in NumeralsIn(t, r.major) /\ B \in NumeralsIn(t, r.minor)
    BY <1>9, <2>1 DEF Tracked
  <2>. QED  BY <2>2, NumeralsStay
<1>13. Unfolded(u) = Append(Unfolded(t), c)
  <2>1. c \notin Blank
    BY <1>8 DEF Blank
  <2>. QED  BY <2>1, UnfoldedMore
<1>14. TextOf(r, A, B) = Append(Append(Whole(r.method, r.uri, A, B, r.headers), "CR"), "LF")
  BY <1>10, <1>11, TextIs
<1>15. Unfolded(u) = TextOf(r, A, B)
  BY <1>8, <1>11, <1>13, <1>14, Zenon
<1>16. WellFormed(r)
  BY <1>11 DEF WellFormed
<1>. HIDE DEF u
<1>17. /\ WellFormed(q.req)
       /\ \E a \in NumeralsIn(u, q.req.major), b \in NumeralsIn(u, q.req.minor) :
             Unfolded(u) = TextOf(q.req, a, b)
  BY <1>7, <1>12, <1>15, <1>16
<1>. QED  BY <1>17 DEF q, u

LEMMA EndsAccept == Typed /\ Tracking /\ Ending => AcceptedWasWritten
<1>. SUFFICES ASSUME Typed, Tracking, Ending, verdict = "GOOD"
              PROVE  /\ WellFormed(req)
                     /\ \E major \in NumeralsIn(input, req.major), minor \in NumeralsIn(input, req.minor) :
                           Unfolded(input) = TextOf(req, major, minor)
  BY DEF AcceptedWasWritten
<1>1. PICK t \in Seq(Chars), c \in Chars : input = Append(t, c) /\ After(Begin, t).result = "INDETERMINATE"
  BY DEF Ending, Ends
<1>2. After(Begin, input).result = "GOOD" /\ After(Begin, input).req = req
  BY DEF Tracking, Tracks
<1>3. After(Begin, Append(t, c)).result = "GOOD" /\ After(Begin, Append(t, c)).req = req
  BY <1>1, <1>2
<1>4. /\ WellFormed(req)
      /\ \E A \in NumeralsIn(Append(t, c), req.major), B \in NumeralsIn(Append(t, c), req.minor) :
            Unfolded(Append(t, c)) = TextOf(req, A, B)
  BY <1>1, <1>3, GoodIsWritten
<1>. QED  BY <1>1, <1>4

(* What is accepted was written: when parse() first returns GOOD, what the *)
(* reads of do_read() brought is the text of the request it has built, but *)
(* for folded header lines and leading zeros in the version, wherever the  *)
(* reads were cut: no character is lost, doubled or put into another field.*)
THEOREM AcceptedWritten == Spec => []AcceptedWasWritten
<1>. QED  BY Typing, Cuts, Decisions, EndsAccept, PTL
=============================================================================
