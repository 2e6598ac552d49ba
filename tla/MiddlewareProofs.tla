-------------------------- MODULE MiddlewareProofs --------------------------
(***************************************************************************)
(* Proofs that the invariants of Middleware hold for every set of          *)
(* middlewares, groups and requests, and for any number of either.         *)
(***************************************************************************)
EXTENDS Middleware, SequenceTheorems, TLAPS

-----------------------------------------------------------------------------
(* The inductive invariant.                                                *)

Seen == Requests \cup {NoRequest}
Carried == {r.id : r \in Seen} \cup UNION {ToSet(r.cookies) : r \in Seen}
Identifiers == Carried \cup ({"generated"} \X Nat)
ContentTypes == {r.accept : r \in Seen} \cup {"html"}

RequestType ==
    [scheme : {r.scheme : r \in Seen}, secret : {r.secret : r \in Seen},
     id : {r.id : r \in Seen}, cookies : {r.cookies : r \in Seen},
     accept : {r.accept : r \in Seen}, sessions : Seq(Identifiers)]

ResponseType ==
    [status : {"unset", "ok", "unauthorized", "internal_server_error"}, ids : Seq(Identifiers),
     cookies : Seq(Identifiers), types : Seq(ContentTypes)]

Frame == [at : Nat, calls : 0 .. 2]

Shapes ==
    /\ globals \in Seq(Middlewares) /\ globals # <<>> /\ chain \in Seq(Middlewares)
    /\ keys \subseteq Keys
    /\ req \in RequestType /\ res \in ResponseType
    /\ current \in Identifiers
    /\ generated \in Nat /\ before \in Nat /\ before <= generated
    /\ index \in 0 .. Len(chain)
    /\ stack \in Seq(Frame) /\ thrown \in Seq(Frame)
    /\ again \in BOOLEAN
    /\ raised \in {"no", "std", "other"}

(* The frames lie on the chain in its order, the handler's on top of all;  *)
(* each frame below the top has called next().  A frame that has not is    *)
(* where the chain stands, and as long as nobody has called next() twice   *)
(* no middleware is left out.                                              *)
FramesInOrder ==
    /\ \A i \in 1 .. Len(stack) : stack[i].at \in 1 .. Len(chain) + 1
    /\ \A i, j \in 1 .. Len(stack) : i < j => stack[i].at < stack[j].at
    /\ \A i \in 1 .. Len(stack) : stack[i].at # Len(chain) + 1 => stack[i].at <= index
    /\ \A i \in 1 .. Len(stack) : i < Len(stack) => stack[i].calls >= 1
    /\ \A i \in 1 .. Len(stack) :
          i = Len(stack) /\ stack[i].calls = 0 /\ stack[i].at # Len(chain) + 1 => stack[i].at = index
    /\ \A i \in 1 .. Len(stack) :
          (\A j \in 1 .. Len(stack) : j < i => stack[j].calls <= 1) => stack[i].at = i

ChainInOrder == \A i, j \in 1 .. Len(chain) : i < j => chain[i].priority <= chain[j].priority

Ran(i, kind) ==
    stack[i].calls >= 1 /\ stack[i].at # Len(chain) + 1 /\ chain[stack[i].at].kind = kind

(* A frame of an auth middleware that has called next() is there because   *)
(* of a credential that is still valid: keys are never taken away.         *)
Consent == \A i \in 1 .. Len(stack) : Ran(i, "auth") => Authorised(req)

(* Where the last exception was thrown and what has become of it.          *)
NoErrorHandlerAbove ==
    /\ Len(stack) <= Len(thrown)
    /\ \A i \in 1 .. Len(thrown) - 1 : i > Len(stack) => chain[i].kind # "errors"

Reported ==
    /\ \E i \in 1 .. Len(thrown) - 1 : chain[i].kind = "errors"
    /\ res.status = "internal_server_error"
    /\ res.types # <<>> /\ res.types[Len(res.types)] = req.accept
    /\ \A i \in 1 .. Len(stack) : stack[i].calls >= 1 /\ stack[i].at # Len(chain) + 1

Exceptions ==
    /\ raised # "no" => thrown # <<>>
    /\ ~again => \A i \in 1 .. Len(stack) : stack[i].calls <= 1
    /\ ~again /\ thrown # <<>> =>
          /\ thrown[Len(thrown)].at = Len(thrown)
          /\ Len(thrown) <= Len(chain) + 1
          /\ Len(thrown) <= Len(chain) => chain[Len(thrown)].kind # "errors"
          /\ raised # "no" => NoErrorHandlerAbove
          /\ raised = "no" => Reported

IdOf(id, given) == IF given # None THEN id = given ELSE OwnId(id)

Identities ==
    /\ res.ids # <<>> => current = res.ids[Len(res.ids)] /\ IdOf(current, req.id)
    /\ \A i \in 1 .. Len(stack) : Ran(i, "request_id") => res.ids # <<>>
    /\ req.sessions = <<>> => res.cookies = <<>>
    /\ Len(req.sessions) = 1 =>
          IF req.cookies # <<>>
          THEN req.sessions[1] = Last(req.cookies) /\ res.cookies = <<>>
          ELSE OwnId(req.sessions[1]) /\ res.cookies = req.sessions

IInv == Shapes /\ FramesInOrder /\ ChainInOrder /\ Consent /\ Exceptions /\ Identities

-----------------------------------------------------------------------------
(* The stack of frames.                                                    *)

(* A frame is taken off: the others stay where they are.                   *)
LEMMA PopProperties ==
    ASSUME NEW S, NEW s \in Seq(S), s # <<>>
    PROVE  /\ Len(s) \in Nat \ {0} /\ Last(s) \in S /\ Last(s) = s[Len(s)]
           /\ Front(s) \in Seq(S) /\ Len(Front(s)) = Len(s) - 1
           /\ \A i \in 1 .. Len(s) - 1 : Front(s)[i] = s[i]
<1>1. Len(s) \in Nat \ {0}
  BY EmptySeq, LenProperties
<1>2. \A i \in 1 .. Len(s) : s[i] \in S
  BY ElementOfSeq
<1>3. /\ SubSeq(s, 1, Len(s) - 1) \in Seq(S)
      /\ Len(SubSeq(s, 1, Len(s) - 1)) = IF 1 <= Len(s) - 1 THEN Len(s) - 1 - 1 + 1 ELSE 0
      /\ \A i \in 1 .. Len(s) - 1 - 1 + 1 : SubSeq(s, 1, Len(s) - 1)[i] = s[1 + i - 1]
  <2>1. 1 \in Int /\ Len(s) - 1 \in Int /\ \A i \in 1 .. Len(s) - 1 : s[i] \in S
    BY <1>1, <1>2
  <2>. QED  BY <2>1, SubSeqProperties
<1>. DEFINE n == Len(s)
            f == SubSeq(s, 1, n - 1)
<1>4. n \in Nat \ {0} /\ Len(f) = IF 1 <= n - 1 THEN n - 1 - 1 + 1 ELSE 0
  BY <1>1, <1>3
<1>5. \A i \in 1 .. n - 1 - 1 + 1 : f[i] = s[1 + i - 1]
  BY <1>3
<1>. HIDE DEF n, f
<1>6. Len(f) = n - 1
  BY <1>4
<1>7. \A i \in 1 .. n - 1 : f[i] = s[i]
  <2>. TAKE i \in 1 .. n - 1
  <2>1. i \in 1 .. n - 1 - 1 + 1 /\ 1 + i - 1 = i
    BY <1>4
  <2>. QED  BY <2>1, <1>5
<1>. QED  BY <1>1, <1>2, <1>3, <1>6, <1>7 DEF n, f, Front, Last

(* The top frame counts the call it makes.                                 *)
LEMMA CountProperties ==
    ASSUME NEW s \in Seq(Frame), s # <<>>, s[Len(s)].calls < 2
    PROVE  LET u == [s EXCEPT ![Len(s)].calls = @ + 1]
           IN /\ u \in Seq(Frame) /\ Len(u) = Len(s)
              /\ u[Len(s)].at = s[Len(s)].at /\ u[Len(s)].calls = s[Len(s)].calls + 1
              /\ \A i \in 1 .. Len(s) - 1 : u[i] = s[i]
<1>. DEFINE n == Len(s)
            u == [s EXCEPT ![n].calls = @ + 1]
<1>1. n \in Nat \ {0}
  BY EmptySeq, LenProperties
<1>2. s[n] \in Frame
  BY <1>1, ElementOfSeq
<1>3. [s[n] EXCEPT !.calls = @ + 1] \in Frame
  BY <1>2 DEF Frame
<1>4. s \in [1 .. n -> Frame]
  BY LenProperties
<1>5. /\ u \in [1 .. n -> Frame]
      /\ u[n] = [s[n] EXCEPT !.calls = @ + 1]
      /\ \A i \in 1 .. n : i # n => u[i] = s[i]
  BY <1>1, <1>3, <1>4
<1>6. u \in Seq(Frame) /\ Len(u) = n
  BY <1>1, <1>5, IsASeq, LenProperties
<1>7. u[n].at = s[n].at /\ u[n].calls = s[n].calls + 1
  BY <1>2, <1>5 DEF Frame
<1>8. \A i \in 1 .. n - 1 : u[i] = s[i]
  BY <1>1, <1>5
<1>. QED  BY <1>6, <1>7, <1>8

(* A frame is pushed: the others stay as they are.                         *)
LEMMA PushProperties ==
    ASSUME NEW S, NEW u \in Seq(S), NEW x \in S
    PROVE  /\ Append(u, x) \in Seq(S) /\ Len(Append(u, x)) = Len(u) + 1
           /\ Append(u, x)[Len(u) + 1] = x
           /\ \A i \in 1 .. Len(u) : Append(u, x)[i] = u[i]
BY AppendProperties, LenProperties

(* The elements of the frames and of the chain.                            *)
LEMMA Elements ==
    ASSUME Shapes
    PROVE  /\ Len(stack) \in Nat /\ \A i \in 1 .. Len(stack) : stack[i] \in Frame
           /\ Len(chain) \in Nat /\ \A i \in 1 .. Len(chain) : chain[i] \in Middlewares
           /\ Len(thrown) \in Nat /\ \A i \in 1 .. Len(thrown) : thrown[i] \in Frame
           /\ stack # <<>> => Len(stack) \in Nat \ {0} /\ Top = stack[Len(stack)]
           /\ thrown # <<>> => Len(thrown) \in Nat \ {0}
<1>1. stack \in Seq(Frame) /\ thrown \in Seq(Frame) /\ chain \in Seq(Middlewares)
  BY DEF Shapes
<1>2. Len(stack) \in Nat /\ Len(thrown) \in Nat /\ Len(chain) \in Nat
  BY <1>1, LenProperties
<1>3. /\ \A i \in 1 .. Len(stack) : stack[i] \in Frame
      /\ \A i \in 1 .. Len(thrown) : thrown[i] \in Frame
      /\ \A i \in 1 .. Len(chain) : chain[i] \in Middlewares
  BY <1>1, ElementOfSeq
<1>4. (stack # <<>> => Len(stack) # 0) /\ (thrown # <<>> => Len(thrown) # 0)
  BY <1>1, EmptySeq
<1>. QED  BY <1>2, <1>3, <1>4 DEF Top, Last

-----------------------------------------------------------------------------
(* next() and return, whoever calls them.                                  *)

(* next() pushes a frame for the next middleware or for the handler, and   *)
(* leaves the frames in order.                                             *)
LEMMA CallKeepsOrder ==
    ASSUME Shapes, FramesInOrder, Running, Top.at # Handler, Top.calls < 2, CallNext
    PROVE  /\ stack' \in Seq(Frame) /\ index' \in 0 .. Len(chain') /\ again' \in BOOLEAN
           /\ FramesInOrder'
           /\ again' \/ \A i \in 1 .. Len(stack) : i = Len(stack) => stack[i].calls = 0
           /\ Len(stack') = Len(stack) + 1
           /\ stack'[Len(stack) + 1].calls = 0
           /\ stack'[Len(stack)].at = Top.at /\ stack'[Len(stack)].calls = Top.calls + 1
           /\ \A i \in 1 .. Len(stack) - 1 : stack'[i] = stack[i]
<1>. DEFINE n == Len(stack)
            m == Len(chain)
            p == IF index < m THEN index + 1 ELSE m + 1
<1>1. n \in Nat \ {0} /\ Top = stack[n] /\ \A i \in 1 .. n : stack[i] \in Frame
  BY Elements DEF Running, Idle
<1>2. m \in Nat /\ index \in 0 .. m /\ p \in Nat
  BY Elements DEF Shapes
<1>3. stack \in Seq(Frame) /\ stack # <<>> /\ stack[n].calls < 2
  BY <1>1 DEF Shapes, Running, Idle
<1>4. chain' = chain /\ index' = (IF index < m THEN index + 1 ELSE index)
      /\ again' = (again \/ Top.calls > 0)
  BY DEF CallNext, MoreToRun
<1>5. stack' = Append([stack EXCEPT ![n].calls = @ + 1], [at |-> p, calls |-> 0])
  BY DEF CallNext, MoreToRun, Handler
<1>6. [at |-> p, calls |-> 0] \in Frame
  BY <1>2 DEF Frame
<1>7. /\ stack' \in Seq(Frame) /\ Len(stack') = n + 1
      /\ stack'[n + 1] = [at |-> p, calls |-> 0]
      /\ stack'[n].at = stack[n].at /\ stack'[n].calls = stack[n].calls + 1
      /\ \A i \in 1 .. n - 1 : stack'[i] = stack[i]
  <2>. DEFINE u == [stack EXCEPT ![n].calls = @ + 1]
  <2>1. /\ u \in Seq(Frame) /\ Len(u) = n
        /\ u[n].at = stack[n].at /\ u[n].calls = stack[n].calls + 1
        /\ \A i \in 1 .. n - 1 : u[i] = stack[i]
    BY <1>3, CountProperties
  <2>2. stack' = Append(u, [at |-> p, calls |-> 0])
    BY <1>5
  <2>. HIDE DEF u, n, p
  <2>3. /\ stack' \in Seq(Frame) /\ Len(stack') = Len(u) + 1
        /\ stack'[Len(u) + 1] = [at |-> p, calls |-> 0]
        /\ \A i \in 1 .. Len(u) : stack'[i] = u[i]
    BY <1>6, <2>1, <2>2, PushProperties
  <2>4. n \in 1 .. n /\ \A i \in 1 .. n - 1 : i \in 1 .. n
    BY <1>1
  <2>. QED  BY <2>1, <2>3, <2>4
<1>8. stack'[n + 1].at = p /\ stack'[n + 1].calls = 0
  BY <1>7
<1>9. \A i \in 1 .. n : stack'[i].at = stack[i].at
  BY <1>1, <1>7
<1>10. /\ \A i \in 1 .. n : stack[i].at \in 1 .. m + 1
       /\ \A i, j \in 1 .. n : i < j => stack[i].at < stack[j].at
       /\ \A i \in 1 .. n : stack[i].at # m + 1 => stack[i].at <= index
       /\ \A i \in 1 .. n : i < n => stack[i].calls >= 1
       /\ \A i \in 1 .. n : i = n /\ stack[i].calls = 0 /\ stack[i].at # m + 1 => stack[i].at = index
       /\ \A i \in 1 .. n :
             (\A j \in 1 .. n : j < i => stack[j].calls <= 1) => stack[i].at = i
  BY DEF FramesInOrder
<1>11. stack[n].at # m + 1 /\ stack[n].calls \in 0 .. 2
  BY <1>1 DEF Handler, Frame
<1>12. \A i \in 1 .. n : stack[i].at <= index
  BY <1>1, <1>2, <1>10, <1>11
<1>13. again' \in BOOLEAN /\ (again' \/ stack[n].calls = 0)
  <2>1. CASE stack[n].calls = 0
    <3>1. ~(Top.calls > 0)
      BY <2>1, <1>1
    <3>2. again' = again
      BY <3>1, <1>4 DEF Shapes
    <3>. QED  BY <2>1, <3>2 DEF Shapes
  <2>2. CASE stack[n].calls # 0
    <3>1. Top.calls > 0
      BY <2>2, <1>1, <1>11
    <3>. QED  BY <3>1, <1>4
  <2>. QED  BY <2>1, <2>2
<1>. HIDE DEF n, m
<1>14. p \in 1 .. m + 1 /\ index < p /\ (p # m + 1 => p = index')
  BY <1>2, <1>4
<1>. HIDE DEF p
<1>15. \A i \in 1 .. n + 1 : stack'[i].at \in 1 .. m + 1
  BY <1>1, <1>8, <1>9, <1>10, <1>14
<1>16. \A i, j \in 1 .. n + 1 : i < j => stack'[i].at < stack'[j].at
  <2>. SUFFICES ASSUME NEW i \in 1 .. n + 1, NEW j \in 1 .. n + 1, i < j
                PROVE  stack'[i].at < stack'[j].at
    OBVIOUS
  <2>1. i \in 1 .. n
    BY <1>1
  <2>2. CASE j = n + 1
    <3>1. stack[i].at \in 1 .. m + 1 /\ stack[i].at <= index
      BY <2>1, <1>10, <1>12
    <3>. QED  BY <2>1, <2>2, <3>1, <1>2, <1>8, <1>9, <1>14
  <2>3. CASE j # n + 1
    <3>1. j \in 1 .. n
      BY <2>3, <1>1
    <3>. QED  BY <2>1, <3>1, <1>9, <1>10
  <2>. QED  BY <2>2, <2>3
<1>17. \A i \in 1 .. n + 1 : stack'[i].at # m + 1 => stack'[i].at <= index'
  <2>. SUFFICES ASSUME NEW i \in 1 .. n + 1, stack'[i].at # m + 1
                PROVE  stack'[i].at <= index'
    OBVIOUS
  <2>1. CASE i = n + 1
    BY <2>1, <1>2, <1>4, <1>8, <1>14
  <2>2. CASE i \in 1 .. n
    <3>1. stack[i].at \in 1 .. m + 1 /\ stack[i].at <= index
      BY <2>2, <1>10, <1>12
    <3>. QED  BY <2>2, <3>1, <1>2, <1>4, <1>9
  <2>. QED  BY <2>1, <2>2, <1>1
<1>18. \A i \in 1 .. n + 1 : i < n + 1 => stack'[i].calls >= 1
  <2>. SUFFICES ASSUME NEW i \in 1 .. n
                PROVE  stack'[i].calls >= 1
    BY <1>1
  <2>1. CASE i = n
    BY <2>1, <1>7, <1>11
  <2>2. CASE i # n
    <3>1. i \in 1 .. n - 1 /\ i < n
      BY <2>2, <1>1
    <3>. QED  BY <3>1, <1>7, <1>10
  <2>. QED  BY <2>1, <2>2
<1>19. \A i \in 1 .. n + 1 :
          i = n + 1 /\ stack'[i].calls = 0 /\ stack'[i].at # m + 1 => stack'[i].at = index'
  BY <1>8, <1>14
<1>20. \A i \in 1 .. n + 1 :
          (\A j \in 1 .. n + 1 : j < i => stack'[j].calls <= 1) => stack'[i].at = i
  <2>. SUFFICES ASSUME NEW i \in 1 .. n + 1,
                       \A j \in 1 .. n + 1 : j < i => stack'[j].calls <= 1
                PROVE  stack'[i].at = i
    OBVIOUS
  <2>1. CASE i \in 1 .. n
    <3>1. \A j \in 1 .. n : j < i => stack[j].calls <= 1
      <4>. SUFFICES ASSUME NEW j \in 1 .. n, j < i
                    PROVE  stack[j].calls <= 1
        OBVIOUS
      <4>1. j \in 1 .. n - 1 /\ j \in 1 .. n + 1
        BY <2>1, <1>1
      <4>. QED  BY <4>1, <1>7
    <3>. QED  BY <2>1, <3>1, <1>9, <1>10
  <2>2. CASE i = n + 1
    <3>1. stack'[n].calls <= 1
      BY <2>2, <1>1
    <3>2. stack[n].calls = 0
      BY <3>1, <1>7, <1>11
    <3>3. \A j \in 1 .. n : j < n => stack[j].calls <= 1
      <4>. SUFFICES ASSUME NEW j \in 1 .. n, j < n
                    PROVE  stack[j].calls <= 1
        OBVIOUS
      <4>1. j \in 1 .. n - 1 /\ j \in 1 .. n + 1 /\ j < i
        BY <2>2, <1>1
      <4>. QED  BY <4>1, <1>7
    <3>4. stack[n].at = n /\ stack[n].at = index
      BY <3>2, <3>3, <1>1, <1>10, <1>11
    <3>5. p = n + 1
      BY <3>4, <1>2, <1>11, <1>1 DEF p
    <3>. QED  BY <2>2, <3>5, <1>8
  <2>. QED  BY <2>1, <2>2, <1>1
<1>21. FramesInOrder'
  BY <1>4, <1>7, <1>15, <1>16, <1>17, <1>18, <1>19, <1>20 DEF FramesInOrder, m
<1>22. index' \in 0 .. Len(chain')
  BY <1>2, <1>4 DEF m
<1>. QED  BY <1>1, <1>7, <1>8, <1>13, <1>21, <1>22 DEF n

(* A return takes the top frame off and leaves the others in order.        *)
LEMMA ReturnKeepsOrder ==
    ASSUME Shapes, FramesInOrder, ~Idle, Return
    PROVE  /\ stack' \in Seq(Frame) /\ FramesInOrder'
           /\ Len(stack') = Len(stack) - 1
           /\ \A i \in 1 .. Len(stack) - 1 : stack'[i] = stack[i] /\ stack[i].calls >= 1
                                              /\ stack[i].at # Len(chain) + 1
<1>. DEFINE n == Len(stack)
            m == Len(chain)
<1>1. n \in Nat \ {0} /\ \A i \in 1 .. n : stack[i] \in Frame
  BY Elements DEF Idle
<1>2. stack \in Seq(Frame) /\ stack # <<>> /\ m \in Nat
  BY Elements DEF Shapes, Idle
<1>3. stack' = Front(stack) /\ chain' = chain /\ index' = index
  BY DEF Return
<1>4. /\ stack' \in Seq(Frame) /\ Len(stack') = n - 1
      /\ \A i \in 1 .. n - 1 : stack'[i] = stack[i]
  BY <1>2, <1>3, PopProperties
<1>5. /\ \A i \in 1 .. n : stack[i].at \in 1 .. m + 1
      /\ \A i, j \in 1 .. n : i < j => stack[i].at < stack[j].at
      /\ \A i \in 1 .. n : stack[i].at # m + 1 => stack[i].at <= index
      /\ \A i \in 1 .. n : i < n => stack[i].calls >= 1
      /\ \A i \in 1 .. n :
            (\A j \in 1 .. n : j < i => stack[j].calls <= 1) => stack[i].at = i
  BY DEF FramesInOrder
<1>6. \A i \in 1 .. n - 1 : stack[i].calls >= 1 /\ stack[i].at # m + 1
  <2>. TAKE i \in 1 .. n - 1
  <2>1. i \in 1 .. n /\ n \in 1 .. n /\ i < n
    BY <1>1
  <2>2. stack[i].at < stack[n].at /\ stack[n].at \in 1 .. m + 1 /\ stack[i].at \in 1 .. m + 1
    BY <2>1, <1>5
  <2>. QED  BY <2>1, <2>2, <1>2, <1>5
<1>. HIDE DEF n, m
<1>7. \A i \in 1 .. n - 1 : i \in 1 .. n /\ stack'[i] = stack[i]
  BY <1>1, <1>4
<1>8. /\ \A i \in 1 .. n - 1 : stack'[i].at \in 1 .. m + 1
      /\ \A i, j \in 1 .. n - 1 : i < j => stack'[i].at < stack'[j].at
      /\ \A i \in 1 .. n - 1 : stack'[i].at # m + 1 => stack'[i].at <= index'
      /\ \A i \in 1 .. n - 1 : i < n - 1 => stack'[i].calls >= 1
  BY <1>3, <1>5, <1>6, <1>7
<1>9. \A i \in 1 .. n - 1 :
         i = n - 1 /\ stack'[i].calls = 0 /\ stack'[i].at # m + 1 => stack'[i].at = index'
  BY <1>6, <1>7
<1>10. \A i \in 1 .. n - 1 :
          (\A j \in 1 .. n - 1 : j < i => stack'[j].calls <= 1) => stack'[i].at = i
  <2>. SUFFICES ASSUME NEW i \in 1 .. n - 1,
                       \A j \in 1 .. n - 1 : j < i => stack'[j].calls <= 1
                PROVE  stack'[i].at = i
    OBVIOUS
  <2>1. \A j \in 1 .. n : j < i => stack[j].calls <= 1
    <3>. SUFFICES ASSUME NEW j \in 1 .. n, j < i
                  PROVE  stack[j].calls <= 1
      OBVIOUS
    <3>1. j \in 1 .. n - 1
      BY <1>1
    <3>. QED  BY <3>1, <1>7
  <2>. QED  BY <2>1, <1>5, <1>7
<1>11. FramesInOrder'
  BY <1>3, <1>4, <1>8, <1>9, <1>10 DEF FramesInOrder, m
<1>. QED  BY <1>4, <1>6, <1>11 DEF n, m

(* A chain is made of the middlewares it is given, in the order of their   *)
(* priorities.                                                             *)
LEMMA SortedProperties ==
    ASSUME NEW mws \in Seq(Middlewares), NEW c \in Sorted(mws)
    PROVE  /\ c \in Seq(Middlewares) /\ Len(c) = Len(mws)
           /\ \A i, j \in 1 .. Len(c) : i < j => c[i].priority <= c[j].priority
<1>. DEFINE n == Len(mws)
<1>1. n \in Nat /\ DOMAIN mws = 1 .. n /\ \A i \in 1 .. n : mws[i] \in Middlewares
  BY LenProperties, ElementOfSeq
<1>2. PICK p \in Rearrangements(DOMAIN mws) : c = [i \in DOMAIN mws |-> mws[p[i]]]
  BY DEF Sorted
<1>3. p \in [1 .. n -> 1 .. n]
  BY <1>1, <1>2 DEF Rearrangements
<1>4. c \in [1 .. n -> Middlewares]
  BY <1>1, <1>2, <1>3
<1>5. c \in Seq(Middlewares) /\ Len(c) = n /\ DOMAIN c = 1 .. n
  BY <1>1, <1>4, IsASeq, LenProperties
<1>6. \A i, j \in 1 .. n : i < j => ~(c[j].priority < c[i].priority)
  BY <1>5 DEF Sorted, Before
<1>7. \A i \in 1 .. n : c[i].priority \in Int
  BY <1>4 DEF Middlewares
<1>. QED  BY <1>5, <1>6, <1>7

-----------------------------------------------------------------------------
(* What a call and a return leave true, whatever else their caller does.   *)

(* Types of what calls and returns do not change or change in a way that   *)
(* is theirs.                                                              *)
StackShapes ==
    /\ globals \in Seq(Middlewares) /\ globals # <<>> /\ chain \in Seq(Middlewares)
    /\ keys \subseteq Keys
    /\ index \in 0 .. Len(chain)
    /\ stack \in Seq(Frame) /\ thrown \in Seq(Frame)
    /\ again \in BOOLEAN
    /\ raised \in {"no", "std", "other"}

DataShapes ==
    /\ req \in RequestType /\ res \in ResponseType
    /\ current \in Identifiers
    /\ generated \in Nat /\ before \in Nat /\ before <= generated

LEMMA ShapesParts == Shapes <=> StackShapes /\ DataShapes
BY DEF Shapes, StackShapes, DataShapes

LEMMA AuthorisedFor ==
    ASSUME Authorised(req), keys \subseteq keys',
           req'.scheme = req.scheme, req'.secret = req.secret
    PROVE  Authorised(req)'
BY DEF Authorised, verify, is_valid

(* Calls.                                                                  *)
LEMMA CallKeeps ==
    ASSUME IInv, NEW kind, In(kind), Top.calls < 2, CallNext,
           kind = "auth" => Authorised(req),
           req'.scheme = req.scheme, req'.secret = req.secret
    PROVE  /\ StackShapes' /\ FramesInOrder' /\ ChainInOrder' /\ Consent' /\ Exceptions'
           /\ \A i \in 1 .. Len(stack') : Ran(i, "request_id")' =>
                 kind = "request_id" \/ (i \in 1 .. Len(stack) /\ Ran(i, "request_id"))
<1>. USE DEF IInv
<1>. DEFINE n == Len(stack)
<1>1. Running /\ Top.at # Handler /\ chain[Top.at].kind = kind
  BY DEF In
<1>2. /\ stack' \in Seq(Frame) /\ index' \in 0 .. Len(chain') /\ again' \in BOOLEAN
      /\ FramesInOrder'
      /\ again' \/ \A i \in 1 .. n : i = n => stack[i].calls = 0
      /\ Len(stack') = n + 1
      /\ stack'[n + 1].calls = 0
      /\ stack'[n].at = Top.at /\ stack'[n].calls = Top.calls + 1
      /\ \A i \in 1 .. n - 1 : stack'[i] = stack[i]
  BY <1>1, CallKeepsOrder
<1>3. n \in Nat \ {0} /\ Top = stack[n]
  BY <1>1, Elements DEF Running, Idle
<1>4. /\ globals' = globals /\ keys' = keys /\ chain' = chain /\ raised' = raised
      /\ thrown' = thrown /\ (again => again')
  BY DEF CallNext
<1>5. StackShapes'
  BY <1>2, <1>4 DEF StackShapes, Shapes
<1>6. ChainInOrder'
  BY <1>4 DEF ChainInOrder
<1>7. ASSUME NEW k, NEW i \in 1 .. Len(stack'), Ran(i, k)'
      PROVE  (i = n /\ kind = k) \/ (i \in 1 .. n - 1 /\ Ran(i, k))
  <2>1. i # n + 1
    BY <1>2, <1>7 DEF Ran
  <2>2. CASE i = n
    <3>1. chain[stack'[i].at].kind = k
      BY <1>4, <1>7 DEF Ran
    <3>. QED  BY <3>1, <2>2, <1>1, <1>2
  <2>3. CASE i \in 1 .. n - 1
    <3>1. stack'[i] = stack[i]
      BY <2>3, <1>2
    <3>. QED  BY <3>1, <2>3, <1>4, <1>7 DEF Ran
  <2>. QED  BY <2>1, <2>2, <2>3, <1>2, <1>3
<1>8. Consent'
  <2>. SUFFICES ASSUME NEW i \in 1 .. Len(stack'), Ran(i, "auth")'
                PROVE  Authorised(req)'
    BY DEF Consent
  <2>1. kind = "auth" \/ (i \in 1 .. n - 1 /\ Ran(i, "auth"))
    BY <1>7
  <2>2. Authorised(req)
    BY <2>1, <1>3 DEF Consent
  <2>. QED  BY <2>2, <1>4, AuthorisedFor
<1>9. Exceptions'
  <2>1. raised = "no" /\ raised' = "no"
    BY <1>1, <1>4 DEF Running
  <2>2. ASSUME ~again'
        PROVE  \A i \in 1 .. Len(stack') : stack'[i].calls <= 1
    <3>. TAKE i \in 1 .. Len(stack')
    <3>1. stack[n].calls = 0 /\ ~again
      BY <2>2, <1>2, <1>3, <1>4
    <3>2. CASE i = n + 1
      BY <3>2, <1>2
    <3>3. CASE i = n
      BY <3>1, <3>3, <1>2, <1>3
    <3>4. CASE i \in 1 .. n - 1
      BY <3>1, <3>4, <1>2, <1>3 DEF Exceptions
    <3>. QED  BY <3>2, <3>3, <3>4, <1>2, <1>3
  <2>3. ASSUME ~again', thrown # <<>>
        PROVE  FALSE
    <3>1. stack[n].calls = 0 /\ ~again
      BY <2>3, <1>2, <1>3, <1>4
    <3>2. Reported
      BY <3>1, <2>1, <2>3 DEF Exceptions
    <3>. QED  BY <3>1, <3>2, <1>3 DEF Reported
  <2>. QED  BY <2>1, <2>2, <2>3, <1>4 DEF Exceptions
<1>10. \A i \in 1 .. Len(stack') : Ran(i, "request_id")' =>
          kind = "request_id" \/ (i \in 1 .. Len(stack) /\ Ran(i, "request_id"))
  BY <1>3, <1>7
<1>. QED  BY <1>2, <1>5, <1>6, <1>8, <1>9, <1>10

(* Returns.                                                                *)
LEMMA ReturnKeeps ==
    ASSUME IInv, ~Idle, Return, raised' \in {"no", "std", "other"}
    PROVE  /\ StackShapes' /\ FramesInOrder' /\ ChainInOrder' /\ Consent'
           /\ ~again' => \A i \in 1 .. Len(stack') : stack'[i].calls <= 1
           /\ \A i \in 1 .. Len(stack') : Ran(i, "request_id")' =>
                 i \in 1 .. Len(stack) /\ Ran(i, "request_id")
           /\ Len(stack') = Len(stack) - 1
           /\ \A i \in 1 .. Len(stack') : stack'[i].calls >= 1 /\ stack'[i].at # Len(chain') + 1
<1>. USE DEF IInv
<1>. DEFINE n == Len(stack)
<1>1. /\ stack' \in Seq(Frame) /\ FramesInOrder'
      /\ Len(stack') = n - 1
      /\ \A i \in 1 .. n - 1 : stack'[i] = stack[i] /\ stack[i].calls >= 1
                                /\ stack[i].at # Len(chain) + 1
  BY ReturnKeepsOrder
<1>2. n \in Nat \ {0}
  BY Elements DEF Idle
<1>3. /\ globals' = globals /\ keys' = keys /\ chain' = chain /\ index' = index
      /\ thrown' = thrown /\ again' = again /\ req' = req
  BY DEF Return
<1>4. StackShapes'
  BY <1>1, <1>3 DEF StackShapes, Shapes
<1>5. ChainInOrder'
  BY <1>3 DEF ChainInOrder
<1>6. \A i \in 1 .. n - 1 : i \in 1 .. n
  BY <1>2
<1>7. ASSUME NEW k, NEW i \in 1 .. Len(stack'), Ran(i, k)'
      PROVE  i \in 1 .. n /\ Ran(i, k)
  <2>1. i \in 1 .. n - 1
    BY <1>1
  <2>. QED  BY <2>1, <1>1, <1>3, <1>6, <1>7 DEF Ran
<1>8. Consent'
  <2>. SUFFICES ASSUME NEW i \in 1 .. Len(stack'), Ran(i, "auth")'
                PROVE  Authorised(req)'
    BY DEF Consent
  <2>1. Authorised(req)
    BY <1>7 DEF Consent
  <2>. QED  BY <2>1, <1>3, AuthorisedFor
<1>9. ~again' => \A i \in 1 .. Len(stack') : stack'[i].calls <= 1
  BY <1>1, <1>3, <1>6 DEF Exceptions
<1>10. \A i \in 1 .. Len(stack') : stack'[i].calls >= 1 /\ stack'[i].at # Len(chain') + 1
  BY <1>1, <1>3
<1>11. \A i \in 1 .. Len(stack') : Ran(i, "request_id")' => i \in 1 .. n /\ Ran(i, "request_id")
  BY <1>7
<1>. QED  BY <1>1, <1>4, <1>5, <1>8, <1>9, <1>10, <1>11

(* A return while nothing is being thrown, with the response as it was or  *)
(* with no exception reported in it.                                       *)
LEMMA QuietReturnKeeps ==
    ASSUME IInv, ~Idle, Return, raised = "no", raised' = "no",
           res' = res \/ stack[Len(stack)].calls = 0 \/ stack[Len(stack)].at = Handler
    PROVE  Exceptions'
<1>. USE DEF IInv
<1>1. /\ ~again' => \A i \in 1 .. Len(stack') : stack'[i].calls <= 1
      /\ \A i \in 1 .. Len(stack') : stack'[i].calls >= 1 /\ stack'[i].at # Len(chain') + 1
  BY ReturnKeeps
<1>2. thrown' = thrown /\ chain' = chain /\ again' = again /\ req' = req
  BY DEF Return
<1>3. ASSUME ~again, thrown # <<>>
      PROVE  Reported'
  <2>1. Reported
    BY <1>3 DEF Exceptions
  <2>2. Len(stack) \in 1 .. Len(stack)
    BY Elements DEF Idle
  <2>3. res' = res
    <3>1. stack[Len(stack)].calls >= 1 /\ stack[Len(stack)].at # Handler
      BY <2>1, <2>2 DEF Reported, Handler
    <3>. QED  BY <3>1
  <2>. QED  BY <2>1, <2>3, <1>1, <1>2 DEF Reported
<1>4. ASSUME ~again, thrown # <<>>
      PROVE  /\ thrown[Len(thrown)].at = Len(thrown)
             /\ Len(thrown) <= Len(chain) + 1
             /\ Len(thrown) <= Len(chain) => chain[Len(thrown)].kind # "errors"
  BY <1>4 DEF Exceptions
<1>. QED  BY <1>1, <1>2, <1>3, <1>4 DEF Exceptions

-----------------------------------------------------------------------------
(* The actions.                                                            *)

(* A request that arrives, or the one before all of them.                  *)
LEMMA RequestFits ==
    ASSUME NEW x \in Seen,
           x = [scheme |-> x.scheme, secret |-> x.secret, id |-> x.id, cookies |-> x.cookies,
                accept |-> x.accept, sessions |-> <<>>]
    PROVE  x \in RequestType /\ x.sessions = <<>>
<1>1. /\ x.scheme \in {r.scheme : r \in Seen} /\ x.secret \in {r.secret : r \in Seen}
      /\ x.id \in {r.id : r \in Seen} /\ x.cookies \in {r.cookies : r \in Seen}
      /\ x.accept \in {r.accept : r \in Seen}
  OBVIOUS
<1>2. <<>> \in Seq(Identifiers)
  OBVIOUS
<1>3. ASSUME NEW a \in {r.scheme : r \in Seen}, NEW b \in {r.secret : r \in Seen},
             NEW c \in {r.id : r \in Seen}, NEW d \in {r.cookies : r \in Seen},
             NEW e \in {r.accept : r \in Seen}
      PROVE  /\ [scheme |-> a, secret |-> b, id |-> c, cookies |-> d, accept |-> e,
                 sessions |-> <<>>] \in RequestType
             /\ [scheme |-> a, secret |-> b, id |-> c, cookies |-> d, accept |-> e,
                 sessions |-> <<>>].sessions = <<>>
  BY <1>2 DEF RequestType
<1>4. /\ [scheme |-> x.scheme, secret |-> x.secret, id |-> x.id, cookies |-> x.cookies,
          accept |-> x.accept, sessions |-> <<>>] \in RequestType
      /\ [scheme |-> x.scheme, secret |-> x.secret, id |-> x.id, cookies |-> x.cookies,
          accept |-> x.accept, sessions |-> <<>>].sessions = <<>>
  BY <1>1, <1>3
<1>. QED  BY <1>4, Zenon

LEMMA InitHolds == Init => IInv
<1>. SUFFICES ASSUME Init PROVE IInv
  OBVIOUS
<1>. USE DEF Init
<1>1. NoRequest \in Seen /\ None \in Identifiers
  <2>1. NoRequest \in Seen
    BY DEF Seen
  <2>2. NoRequest.id = None
    BY DEF NoRequest
  <2>. QED  BY <2>1, <2>2, Zenon DEF Identifiers, Carried
<1>2. ErrorHandler \in Middlewares
  BY DEF ErrorHandler, Middlewares, Kinds
<1>3. globals \in Seq(Middlewares) /\ globals # <<>>
  BY <1>2
<1>4. req \in RequestType
  <2>1. NoRequest = [scheme |-> NoRequest.scheme, secret |-> NoRequest.secret,
                     id |-> NoRequest.id, cookies |-> NoRequest.cookies,
                     accept |-> NoRequest.accept, sessions |-> <<>>]
    BY DEF NoRequest
  <2>. QED  BY <2>1, <1>1, RequestFits
<1>5. res \in ResponseType
  BY DEF ResponseType, NewResponse
<1>6. chain \in Seq(Middlewares) /\ stack \in Seq(Frame) /\ thrown \in Seq(Frame)
      /\ Len(chain) = 0 /\ Len(stack) = 0
  OBVIOUS
<1>7. Shapes
  <2>1. keys \subseteq Keys /\ current \in Identifiers /\ again \in BOOLEAN
        /\ raised \in {"no", "std", "other"}
    BY <1>1
  <2>2. generated \in Nat /\ before \in Nat /\ before <= generated /\ index \in 0 .. Len(chain)
    BY <1>6
  <2>. QED  BY <2>1, <2>2, <1>3, <1>4, <1>5, <1>6 DEF Shapes
<1>8. FramesInOrder /\ ChainInOrder /\ Consent
  BY <1>6 DEF FramesInOrder, ChainInOrder, Consent
<1>9. Exceptions
  BY <1>6 DEF Exceptions
<1>10. Identities
  <2>1. res.ids = <<>> /\ res.cookies = <<>> /\ req.sessions = <<>> /\ Len(req.sessions) = 0
    BY DEF NewResponse, NoRequest
  <2>. QED  BY <2>1, <1>6 DEF Identities
<1>. QED  BY <1>7, <1>8, <1>9, <1>10 DEF IInv

LEMMA UseKeeps ==
    ASSUME IInv, NEW mw \in Registered, Use(mw)
    PROVE  IInv'
<1>. USE DEF IInv
<1>1. mw \in Middlewares
  BY MiddlewareAssumption
<1>2. globals' \in Seq(Middlewares) /\ globals' # <<>>
  <2>1. /\ Append(globals, mw) \in Seq(Middlewares)
        /\ Len(Append(globals, mw)) = Len(globals) + 1 /\ Len(globals) \in Nat
    BY <1>1, AppendProperties, LenProperties DEF Shapes
  <2>2. Len(Append(globals, mw)) # 0
    BY <2>1
  <2>. QED  BY <2>1, <2>2, EmptySeq DEF Use
<1>3. UNCHANGED <<keys, current, generated, req, res, chain, index, stack, raised, thrown, again,
                  before>>
  BY DEF Use
<1>4. Shapes'
  BY <1>2, <1>3 DEF Shapes
<1>5. FramesInOrder' /\ ChainInOrder' /\ Consent'
  BY <1>3 DEF FramesInOrder, ChainInOrder, Consent, Ran, Authorised, verify, is_valid
<1>6. Exceptions'
  BY <1>3 DEF Exceptions, Reported, NoErrorHandlerAbove
<1>7. Identities'
  BY <1>3 DEF Identities, Ran, IdOf, OwnId
<1>. QED  BY <1>4, <1>5, <1>6, <1>7

LEMMA AddKeyKeeps ==
    ASSUME IInv, NEW key \in Keys, AddKey(key)
    PROVE  IInv'
<1>. USE DEF IInv
<1>1. UNCHANGED <<globals, current, generated, req, res, chain, index, stack, raised, thrown, again,
                  before>>
      /\ keys' = keys \cup {key}
  BY DEF AddKey
<1>2. Shapes'
  BY <1>1 DEF Shapes
<1>3. FramesInOrder' /\ ChainInOrder'
  BY <1>1 DEF FramesInOrder, ChainInOrder
<1>4. Consent'
  <2>. SUFFICES ASSUME NEW i \in 1 .. Len(stack'), Ran(i, "auth")'
                PROVE  Authorised(req)'
    BY DEF Consent
  <2>1. i \in 1 .. Len(stack) /\ Ran(i, "auth")
    BY <1>1 DEF Ran
  <2>2. Authorised(req)
    BY <2>1 DEF Consent
  <2>. QED  BY <2>2, <1>1, AuthorisedFor
<1>5. Exceptions'
  BY <1>1 DEF Exceptions, Reported, NoErrorHandlerAbove
<1>6. Identities'
  BY <1>1 DEF Identities, Ran, IdOf, OwnId
<1>. QED  BY <1>2, <1>3, <1>4, <1>5, <1>6

(* A request comes with a chain of its own, in the order of the priorities.*)
LEMMA ReceiveKeeps ==
    ASSUME IInv, NEW r \in Requests, NEW group \in Groups, NEW own \in Own, Receive(r, group, own)
    PROVE  IInv'
<1>. USE DEF IInv
<1>. DEFINE mws == globals \o RouteMiddlewares(group, own)
<1>1. group \in Seq(Middlewares) /\ own \in Seq(Middlewares)
  BY MiddlewareAssumption
<1>2. mws \in Seq(Middlewares) /\ Len(mws) \in Nat \ {0}
  <2>1. group \o own \in Seq(Middlewares)
    BY <1>1, ConcatProperties
  <2>2. mws \in Seq(Middlewares) /\ Len(mws) = Len(globals) + Len(group \o own)
    BY <2>1, ConcatProperties DEF RouteMiddlewares, Shapes
  <2>3. Len(globals) \in Nat \ {0} /\ Len(group \o own) \in Nat
    BY <2>1, LenProperties, EmptySeq DEF Shapes
  <2>. QED  BY <2>2, <2>3
<1>3. chain' \in Sorted(mws)
  BY DEF Receive
<1>. HIDE DEF mws
<1>4. /\ chain' \in Seq(Middlewares) /\ Len(chain') \in Nat \ {0}
      /\ \A i, j \in 1 .. Len(chain') : i < j => chain'[i].priority <= chain'[j].priority
  BY <1>2, <1>3, SortedProperties
<1>5. /\ req' = r /\ res' = NewResponse /\ index' = 1 /\ stack' = <<[at |-> 1, calls |-> 0]>>
      /\ raised' = "no" /\ thrown' = <<>> /\ again' = FALSE /\ before' = generated
      /\ UNCHANGED <<globals, keys, current, generated>>
  BY DEF Receive
<1>6. r \in RequestType /\ r.sessions = <<>>
  <2>1. r \in Arriving /\ r \in Seen
    BY MiddlewareAssumption DEF Seen
  <2>2. r = [scheme |-> r.scheme, secret |-> r.secret, id |-> r.id, cookies |-> r.cookies,
             accept |-> r.accept, sessions |-> <<>>]
    BY <2>1 DEF Arriving
  <2>. QED  BY <2>1, <2>2, RequestFits
<1>7. NewResponse \in ResponseType
  BY DEF ResponseType, NewResponse
<1>8. [at |-> 1, calls |-> 0] \in Frame
  BY DEF Frame
<1>9. stack' \in Seq(Frame) /\ Len(stack') = 1 /\ stack'[1].at = 1 /\ stack'[1].calls = 0
  BY <1>5, <1>8
<1>10. Shapes'
  <2>1. index' \in 0 .. Len(chain')
    BY <1>4, <1>5
  <2>3. thrown' \in Seq(Frame) /\ raised' \in {"no", "std", "other"}
    BY <1>5
  <2>4. again' \in BOOLEAN
    BY <1>5
  <2>2. /\ globals' \in Seq(Middlewares) /\ globals' # <<>> /\ keys' \subseteq Keys
        /\ current' \in Identifiers
        /\ generated' \in Nat /\ before' \in Nat /\ before' <= generated'
    BY <1>5 DEF Shapes
  <2>. QED  BY <2>1, <2>2, <2>3, <2>4, <1>4, <1>5, <1>6, <1>7, <1>9 DEF Shapes
<1>11. FramesInOrder' /\ ChainInOrder'
  BY <1>4, <1>5, <1>9 DEF FramesInOrder, ChainInOrder
<1>12. Consent' /\ \A i \in 1 .. Len(stack') : ~Ran(i, "request_id")'
  BY <1>9 DEF Consent, Ran
<1>13. Exceptions'
  BY <1>5, <1>9 DEF Exceptions
<1>14. Identities'
  <2>1. res'.ids = <<>> /\ res'.cookies = <<>> /\ req'.sessions = <<>> /\ Len(req'.sessions) = 0
    BY <1>5, <1>6 DEF NewResponse
  <2>. QED  BY <2>1, <1>12 DEF Identities
<1>. QED  BY <1>10, <1>11, <1>12, <1>13, <1>14

(* The identities when the data are unchanged, after a call or a return.   *)
LEMMA IdentitiesKept ==
    ASSUME Identities, UNCHANGED <<current, generated, req, before>>,
           res'.ids = res.ids, res'.cookies = res.cookies,
           \A i \in 1 .. Len(stack') : Ran(i, "request_id")' =>
               i \in 1 .. Len(stack) /\ Ran(i, "request_id")
    PROVE  Identities'
<1>1. res'.ids # <<>> => current' = res'.ids[Len(res'.ids)] /\ IdOf(current, req.id)'
  BY DEF Identities, IdOf, OwnId
<1>2. \A i \in 1 .. Len(stack') : Ran(i, "request_id")' => res'.ids # <<>>
  BY DEF Identities
<1>3. req'.sessions = <<>> => res'.cookies = <<>>
  BY DEF Identities
<1>4. Len(req'.sessions) = 1 =>
          IF req'.cookies # <<>>
          THEN req'.sessions[1] = Last(req'.cookies) /\ res'.cookies = <<>>
          ELSE OwnId(req.sessions[1])' /\ res'.cookies = req'.sessions
  BY DEF Identities, OwnId
<1>. QED  BY <1>1, <1>2, <1>3, <1>4 DEF Identities

(* Calls of next() that leave request and response as they are.            *)
LEMMA PlainCallKeeps ==
    ASSUME IInv, NEW kind, In(kind), Top.calls < 2, CallNext, kind # "request_id",
           kind = "auth" => Authorised(req),
           UNCHANGED <<current, generated, req, res>>
    PROVE  IInv'
<1>. USE DEF IInv
<1>1. /\ StackShapes' /\ FramesInOrder' /\ ChainInOrder' /\ Consent' /\ Exceptions'
      /\ \A i \in 1 .. Len(stack') : Ran(i, "request_id")' =>
            kind = "request_id" \/ (i \in 1 .. Len(stack) /\ Ran(i, "request_id"))
  BY CallKeeps
<1>2. before' = before
  BY DEF CallNext
<1>3. DataShapes'
  BY <1>2 DEF DataShapes, Shapes
<1>4. Shapes'
  BY <1>1, <1>3 DEF Shapes, StackShapes, DataShapes
<1>5. Identities'
  BY <1>1, <1>2, IdentitiesKept
<1>. QED  BY <1>1, <1>4, <1>5

LEMMA PlainCallsKeep ==
    ASSUME IInv, ErrorHandlerCalls \/ AuthCalls \/ UserCalls
    PROVE  IInv'
<1>1. CASE ErrorHandlerCalls
  <2>1. In("errors") /\ Top.calls < 2 /\ CallNext /\ UNCHANGED <<current, generated, req, res>>
    BY <1>1 DEF ErrorHandlerCalls
  <2>. QED  BY <2>1, PlainCallKeeps
<1>2. CASE AuthCalls
  <2>1. In("auth") /\ Top.calls < 2 /\ CallNext /\ Authorised(req)
        /\ UNCHANGED <<current, generated, req, res>>
    BY <1>2 DEF AuthCalls
  <2>. QED  BY <2>1, PlainCallKeeps
<1>3. CASE UserCalls
  <2>1. In("user") /\ Top.calls < 2 /\ CallNext /\ UNCHANGED <<current, generated, req, res>>
    BY <1>3 DEF UserCalls
  <2>. QED  BY <2>1, PlainCallKeeps
<1>. QED  BY <1>1, <1>2, <1>3

(* What the generator returns is new.                                      *)
LEMMA GeneratedIsOwn ==
    ASSUME Shapes
    PROVE  /\ Generated \in Identifiers /\ OwnId(Generated)
           /\ \A b \in BOOLEAN : Generate(b) =>
                 generated' \in Nat /\ before <= generated'
<1>1. generated \in Nat /\ before \in Nat /\ before <= generated
  BY DEF Shapes
<1>2. Generated = <<"generated", generated + 1>> /\ generated + 1 \in Nat /\ generated + 1 > before
  BY <1>1 DEF Generated
<1>3. Generated \in {"generated"} \X Nat /\ Generated[1] = "generated" /\ Generated[2] > before
  BY <1>2
<1>4. Generated \in Identifiers /\ OwnId(Generated)
  <2>1. Generated \in Identifiers
    BY <1>3 DEF Identifiers
  <2>2. OwnId(Generated)
    BY <1>3 DEF OwnId
  <2>. QED  BY <2>1, <2>2
<1>5. ASSUME NEW b \in BOOLEAN, Generate(b)
      PROVE  generated' \in Nat /\ before <= generated'
  BY <1>1, <1>5 DEF Generate
<1>. QED  BY <1>4, <1>5

LEMMA RequestIdCallsKeeps ==
    ASSUME IInv, RequestIdCalls
    PROVE  IInv'
<1>. USE DEF IInv
<1>1. /\ In("request_id") /\ Top.calls < 2 /\ CallNext /\ req' = req
      /\ current' = RequestIdOf(req) /\ Generate(req.id = None)
      /\ res' = [res EXCEPT !.ids = Append(@, current')]
  BY DEF RequestIdCalls
<1>2. StackShapes' /\ FramesInOrder' /\ ChainInOrder' /\ Consent' /\ Exceptions'
  BY <1>1, CallKeeps
<1>3. before' = before
  BY <1>1 DEF CallNext
<1>4. current' \in Identifiers /\ IdOf(current, req.id)'
  <2>1. CASE req.id # None
    <3>1. current' = req.id
      BY <1>1, <2>1 DEF RequestIdOf
    <3>2. req.id \in {r.id : r \in Seen}
      BY DEF Shapes, RequestType
    <3>. QED  BY <3>1, <3>2, <1>1, <2>1 DEF IdOf, Identifiers, Carried
  <2>2. CASE req.id = None
    <3>1. current' = Generated
      BY <1>1, <2>2 DEF RequestIdOf
    <3>2. current' \in Identifiers /\ current'[1] = "generated" /\ current'[2] > before
      BY <3>1, GeneratedIsOwn DEF OwnId
    <3>. QED  BY <3>2, <1>1, <1>3, <2>2 DEF IdOf, OwnId
  <2>. QED  BY <2>1, <2>2
<1>5. res \in ResponseType /\ res.ids \in Seq(Identifiers)
  BY DEF Shapes, ResponseType
<1>6. res' \in ResponseType /\ res'.ids = Append(res.ids, current') /\ res'.cookies = res.cookies
  <2>1. Append(res.ids, current') \in Seq(Identifiers)
    BY <1>4, <1>5, AppendProperties
  <2>. QED  BY <2>1, <1>1, <1>5 DEF ResponseType
<1>7. res'.ids # <<>> /\ res'.ids[Len(res'.ids)] = current'
  <2>1. /\ Len(res'.ids) = Len(res.ids) + 1 /\ Len(res.ids) \in Nat
        /\ res'.ids \in Seq(Identifiers)
        /\ res'.ids[Len(res.ids) + 1] = current'
    BY <1>4, <1>5, <1>6, AppendProperties, LenProperties
  <2>2. Len(res'.ids) # 0
    BY <2>1
  <2>. QED  BY <2>1, <2>2, EmptySeq
<1>8. DataShapes'
  <2>1. generated' \in Nat /\ before <= generated'
    BY <1>1, GeneratedIsOwn
  <2>. QED  BY <2>1, <1>1, <1>3, <1>4, <1>6 DEF DataShapes, Shapes
<1>9. Shapes'
  BY <1>2, <1>8 DEF Shapes, StackShapes, DataShapes
<1>10. Identities'
  <2>1. req'.sessions = <<>> => res'.cookies = <<>>
    BY <1>1, <1>6 DEF Identities
  <2>2. Len(req'.sessions) = 1 =>
          IF req'.cookies # <<>>
          THEN req'.sessions[1] = Last(req'.cookies) /\ res'.cookies = <<>>
          ELSE OwnId(req.sessions[1])' /\ res'.cookies = req'.sessions
    BY <1>1, <1>3, <1>6 DEF Identities, OwnId
  <2>. QED  BY <2>1, <2>2, <1>4, <1>7 DEF Identities
<1>. QED  BY <1>2, <1>9, <1>10

(* The last of the cookies, if the request has any.                        *)
LEMMA LastCookie ==
    ASSUME Shapes, req.cookies # <<>>
    PROVE  Last(req.cookies) \in Identifiers
<1>1. PICK x \in Seen : req.cookies = x.cookies
  BY DEF Shapes, RequestType
<1>2. x \in Requests
  <2>1. NoRequest.cookies = <<>>
    BY DEF NoRequest
  <2>2. x # NoRequest
    BY <2>1, <1>1
  <2>. QED  BY <2>2 DEF Seen
<1>3. x.cookies \in Seq(ToSet(x.cookies))
  BY <1>2, MiddlewareAssumption
<1>4. Last(x.cookies) \in ToSet(x.cookies)
  BY <1>1, <1>3, PopProperties
<1>. QED  BY <1>1, <1>4, Zenon DEF Identifiers, Carried

LEMMA SessionCallsKeeps ==
    ASSUME IInv, SessionCalls
    PROVE  IInv'
<1>. USE DEF IInv
<1>. DEFINE session == SessionOf(req)
<1>1. /\ In("session") /\ Top.calls < 2 /\ CallNext /\ current' = current
      /\ Generate(~HasSession(req))
      /\ res' = IF HasSession(req) THEN res ELSE [res EXCEPT !.cookies = Append(@, session)]
      /\ req' = [req EXCEPT !.sessions = Append(@, session)]
  BY DEF SessionCalls
<1>2. req \in RequestType /\ res \in ResponseType
      /\ req.sessions \in Seq(Identifiers) /\ res.cookies \in Seq(Identifiers)
  BY DEF Shapes, RequestType, ResponseType
<1>3. session \in Identifiers
  <2>1. CASE HasSession(req)
    BY <2>1, LastCookie DEF SessionOf, HasSession
  <2>2. CASE ~HasSession(req)
    BY <2>2, GeneratedIsOwn DEF SessionOf
  <2>. QED  BY <2>1, <2>2
<1>. HIDE DEF session
<1>4. /\ Append(req.sessions, session) \in Seq(Identifiers)
      /\ Append(res.cookies, session) \in Seq(Identifiers)
      /\ Len(Append(req.sessions, session)) = Len(req.sessions) + 1 /\ Len(req.sessions) \in Nat
      /\ Append(req.sessions, session)[Len(req.sessions) + 1] = session
  BY <1>2, <1>3, AppendProperties, LenProperties
<1>5. /\ req' \in RequestType /\ req'.sessions = Append(req.sessions, session)
      /\ req'.scheme = req.scheme /\ req'.secret = req.secret /\ req'.id = req.id
      /\ req'.cookies = req.cookies /\ req'.accept = req.accept
  BY <1>1, <1>2, <1>4 DEF RequestType
<1>6. res' \in ResponseType /\ res'.ids = res.ids
  BY <1>1, <1>2, <1>4 DEF ResponseType
<1>7. /\ StackShapes' /\ FramesInOrder' /\ ChainInOrder' /\ Consent' /\ Exceptions'
      /\ \A i \in 1 .. Len(stack') : Ran(i, "request_id")' =>
            i \in 1 .. Len(stack) /\ Ran(i, "request_id")
  BY <1>1, <1>5, CallKeeps
<1>8. before' = before
  BY <1>1 DEF CallNext
<1>9. DataShapes'
  <2>1. generated' \in Nat /\ before <= generated'
    BY <1>1, GeneratedIsOwn
  <2>. QED  BY <2>1, <1>1, <1>5, <1>6, <1>8 DEF DataShapes, Shapes
<1>10. Shapes'
  BY <1>7, <1>9 DEF Shapes, StackShapes, DataShapes
<1>11. Identities'
  <2>1. res'.ids # <<>> => current' = res'.ids[Len(res'.ids)] /\ IdOf(current, req.id)'
    BY <1>1, <1>5, <1>6, <1>8 DEF Identities, IdOf, OwnId
  <2>2. \A i \in 1 .. Len(stack') : Ran(i, "request_id")' => res'.ids # <<>>
    BY <1>6, <1>7 DEF Identities
  <2>3. req'.sessions # <<>>
    <3>1. Len(req'.sessions) # 0
      BY <1>4, <1>5
    <3>. QED  BY <3>1
  <2>4. ASSUME Len(req'.sessions) = 1
        PROVE  IF req'.cookies # <<>>
               THEN req'.sessions[1] = Last(req'.cookies) /\ res'.cookies = <<>>
               ELSE OwnId(req.sessions[1])' /\ res'.cookies = req'.sessions
    <3>1. Len(req.sessions) = 0
      BY <2>4, <1>4, <1>5
    <3>2. req.sessions = <<>> /\ res.cookies = <<>>
      BY <3>1, <1>2, EmptySeq DEF Identities
    <3>3. req'.sessions[1] = session
      <4>1. Len(req.sessions) + 1 = 1
        BY <3>1
      <4>. QED  BY <4>1, <1>4, <1>5
    <3>4. CASE req.cookies # <<>>
      <4>1. session = Last(req.cookies) /\ res' = res
        BY <3>4, <1>1 DEF session, SessionOf, HasSession
      <4>. QED  BY <4>1, <3>2, <3>3, <3>4, <1>5
    <3>5. CASE req.cookies = <<>>
      <4>1. session = Generated /\ res' = [res EXCEPT !.cookies = Append(@, session)]
        BY <3>5, <1>1 DEF session, SessionOf, HasSession
      <4>2. res'.cookies = req'.sessions
        BY <4>1, <3>2, <1>2, <1>5 DEF ResponseType
      <4>3. OwnId(Generated)
        BY GeneratedIsOwn
      <4>4. OwnId(req.sessions[1])'
        BY <4>1, <4>3, <3>3, <1>8 DEF OwnId
      <4>. QED  BY <4>2, <4>4, <3>5, <1>5
    <3>. QED  BY <3>4, <3>5
  <2>. QED  BY <2>1, <2>2, <2>3, <2>4 DEF Identities
<1>. QED  BY <1>7, <1>10, <1>11

(* Returns that are no part of an unwinding.                               *)
LEMMA QuietReturnsKeep ==
    ASSUME IInv, AuthDenies \/ Returns \/ UserStops \/ HandlerResponds
    PROVE  IInv'
<1>. USE DEF IInv
<1>1. Return /\ Running /\ raised' = raised /\ ~Idle /\ raised = "no" /\ raised' = "no"
  BY DEF AuthDenies, Returns, UserStops, HandlerResponds, In, InHandler, Running
<1>2. Top = stack[Len(stack)] /\ res \in ResponseType
  BY <1>1, Elements DEF Idle, Shapes
<1>3. /\ res' \in ResponseType /\ res'.ids = res.ids /\ res'.cookies = res.cookies
      /\ res' = res \/ stack[Len(stack)].calls = 0 \/ stack[Len(stack)].at = Handler
  <2>1. CASE AuthDenies
    BY <2>1, <1>2 DEF AuthDenies, ResponseType
  <2>2. CASE Returns \/ UserStops
    BY <2>2, <1>2 DEF Returns, UserStops
  <2>3. CASE HandlerResponds
    <3>1. res' = [res EXCEPT !.status = "ok", !.types = Append(@, "html")] /\ Top.at = Handler
      BY <2>3 DEF HandlerResponds, InHandler
    <3>2. "html" \in ContentTypes /\ res.types \in Seq(ContentTypes)
      BY <1>2 DEF ContentTypes, ResponseType
    <3>3. Append(res.types, "html") \in Seq(ContentTypes)
      BY <3>2, AppendProperties
    <3>. QED  BY <3>1, <3>3, <1>2 DEF ResponseType
  <2>. QED  BY <2>1, <2>2, <2>3
<1>4. /\ StackShapes' /\ FramesInOrder' /\ ChainInOrder' /\ Consent'
      /\ \A i \in 1 .. Len(stack') : Ran(i, "request_id")' =>
            i \in 1 .. Len(stack) /\ Ran(i, "request_id")
  BY <1>1, ReturnKeeps
<1>5. Exceptions'
  BY <1>1, <1>3, QuietReturnKeeps
<1>6. UNCHANGED <<current, generated, req, before>>
  BY <1>1 DEF Return
<1>7. Shapes'
  BY <1>3, <1>4, <1>6 DEF Shapes, StackShapes, DataShapes
<1>8. Identities'
  BY <1>3, <1>4, <1>6, IdentitiesKept
<1>. QED  BY <1>4, <1>5, <1>7, <1>8

(* An exception leaves the frames to the unwinding.  It is thrown by a     *)
(* middleware of the application or by the handler, never by the error     *)
(* handler, and if all have called next() once at most, its frame is where *)
(* it would be if every frame were that of the middleware with its number. *)
LEMMA ThrowsKeeps ==
    ASSUME IInv, NEW e \in {"std", "other"}, Throws(e)
    PROVE  IInv'
<1>. USE DEF IInv
<1>1. /\ In("user") \/ InHandler
      /\ raised' = e /\ thrown' = stack
      /\ UNCHANGED <<globals, keys, current, generated, req, res, chain, index, stack, again, before>>
  BY DEF Throws
<1>2. Running /\ stack # <<>>
  BY <1>1 DEF In, InHandler, Running, Idle
<1>3. /\ Len(stack) \in Nat \ {0} /\ Top = stack[Len(stack)] /\ Len(chain) \in Nat
  BY <1>2, Elements
<1>4. Shapes'
  BY <1>1 DEF Shapes
<1>5. FramesInOrder' /\ ChainInOrder' /\ Consent'
  BY <1>1 DEF FramesInOrder, ChainInOrder, Consent, Ran, Authorised, verify, is_valid
<1>6. Identities'
  BY <1>1 DEF Identities, Ran, IdOf, OwnId
<1>7. ASSUME ~again
      PROVE  /\ stack[Len(stack)].at = Len(stack) /\ Len(stack) <= Len(chain) + 1
             /\ Len(stack) <= Len(chain) => chain[Len(stack)].kind # "errors"
  <2>1. \A i \in 1 .. Len(stack) : stack[i].calls <= 1
    BY <1>7 DEF Exceptions
  <2>2. stack[Len(stack)].at = Len(stack) /\ stack[Len(stack)].at \in 1 .. Len(chain) + 1
    BY <2>1, <1>3 DEF FramesInOrder
  <2>3. ASSUME Len(stack) <= Len(chain)
        PROVE  chain[Len(stack)].kind # "errors"
    <3>1. Top.at # Handler
      BY <2>2, <2>3, <1>3 DEF Handler
    <3>2. chain[Top.at].kind = "user"
      BY <3>1, <1>1 DEF In, InHandler
    <3>. QED  BY <3>2, <2>2, <1>3
  <2>. QED  BY <2>2, <2>3, <1>3
<1>8. NoErrorHandlerAbove'
  BY <1>1, <1>3 DEF NoErrorHandlerAbove
<1>9. ~again' => \A i \in 1 .. Len(stack') : stack'[i].calls <= 1
  BY <1>1 DEF Exceptions
<1>10. Exceptions'
  BY <1>1, <1>2, <1>7, <1>8, <1>9 DEF Exceptions
<1>. QED  BY <1>4, <1>5, <1>6, <1>10

(* The frame on top while an exception unwinds the stack, as long as       *)
(* nobody has called next() twice.                                         *)
LEMMA UnwoundTo ==
    ASSUME IInv, ~Idle, raised # "no", ~again
    PROVE  /\ Len(stack) \in Nat \ {0} /\ Top = stack[Len(stack)] /\ Top.at = Len(stack)
           /\ thrown # <<>> /\ Len(thrown) \in Nat \ {0} /\ Len(stack) <= Len(thrown)
           /\ thrown[Len(thrown)].at = Len(thrown) /\ Len(thrown) <= Len(chain) + 1
           /\ Len(thrown) <= Len(chain) => chain[Len(thrown)].kind # "errors"
           /\ \A i \in 1 .. Len(thrown) - 1 : i > Len(stack) => chain[i].kind # "errors"
           /\ Len(chain) \in Nat
<1>. USE DEF IInv
<1>1. Len(stack) \in Nat \ {0} /\ Top = stack[Len(stack)] /\ Len(chain) \in Nat
  BY Elements DEF Idle
<1>2. thrown # <<>> /\ Len(thrown) \in Nat \ {0}
  BY Elements DEF Exceptions
<1>3. \A i \in 1 .. Len(stack) : stack[i].calls <= 1
  BY DEF Exceptions
<1>4. Top.at = Len(stack)
  BY <1>1, <1>3 DEF FramesInOrder
<1>5. /\ thrown[Len(thrown)].at = Len(thrown) /\ Len(thrown) <= Len(chain) + 1
      /\ Len(thrown) <= Len(chain) => chain[Len(thrown)].kind # "errors"
      /\ NoErrorHandlerAbove
  BY <1>2 DEF Exceptions
<1>. QED  BY <1>1, <1>2, <1>4, <1>5 DEF NoErrorHandlerAbove

(* What is unwound is no error handler.                                    *)
LEMMA UnwindKeeps ==
    ASSUME IInv, Unwind
    PROVE  IInv'
<1>. USE DEF IInv
<1>1. /\ ~Idle /\ raised # "no" /\ ~(AtErrorHandler /\ Catches(raised))
      /\ Return /\ res' = res /\ raised' = raised
  BY DEF Unwind
<1>2. raised \in {"std", "other"}
  BY <1>1 DEF Shapes
<1>3. ~AtErrorHandler
  BY <1>1, <1>2 DEF Catches
<1>4. /\ StackShapes' /\ FramesInOrder' /\ ChainInOrder' /\ Consent'
      /\ ~again' => \A i \in 1 .. Len(stack') : stack'[i].calls <= 1
      /\ \A i \in 1 .. Len(stack') : Ran(i, "request_id")' =>
            i \in 1 .. Len(stack) /\ Ran(i, "request_id")
      /\ Len(stack') = Len(stack) - 1
  BY <1>1, <1>2, ReturnKeeps
<1>5. UNCHANGED <<current, generated, req, before, chain, thrown, again>>
  BY <1>1 DEF Return
<1>6. Shapes'
  BY <1>1, <1>4, <1>5 DEF Shapes, StackShapes, DataShapes
<1>7. Identities'
  BY <1>1, <1>4, <1>5, IdentitiesKept
<1>8. ASSUME ~again
      PROVE  NoErrorHandlerAbove'
  <2>. DEFINE n == Len(stack)
              k == Len(thrown)
              m == Len(chain)
  <2>1. /\ n \in Nat \ {0} /\ Top = stack[n] /\ Top.at = n
        /\ k \in Nat \ {0} /\ n <= k /\ k <= m + 1 /\ m \in Nat
        /\ \A i \in 1 .. k - 1 : i > n => chain[i].kind # "errors"
    BY <1>1, <1>8, UnwoundTo
  <2>2. n <= m => chain[n].kind # "errors"
    BY <2>1, <1>3 DEF AtErrorHandler, Handler
  <2>. HIDE DEF n, k, m
  <2>3. \A i \in 1 .. k - 1 : i > n - 1 => chain[i].kind # "errors"
    BY <2>1, <2>2
  <2>4. n - 1 <= k
    BY <2>1
  <2>. QED  BY <2>3, <2>4, <1>4, <1>5 DEF NoErrorHandlerAbove, n, k
<1>9. Exceptions'
  <2>1. raised' # "no" => thrown' # <<>>
    BY <1>1, <1>5 DEF Exceptions
  <2>2. ASSUME ~again
        PROVE  /\ thrown'[Len(thrown')].at = Len(thrown')
               /\ Len(thrown') <= Len(chain') + 1
               /\ Len(thrown') <= Len(chain') => chain'[Len(thrown')].kind # "errors"
    BY <2>2, <1>1, <1>5, UnwoundTo
  <2>. QED  BY <2>1, <2>2, <1>1, <1>4, <1>5, <1>8 DEF Exceptions
<1>. QED  BY <1>4, <1>6, <1>7, <1>9

(* What the error handler catches was thrown by a frame above its own, and *)
(* it turns it into a response.                                            *)
LEMMA CatchKeeps ==
    ASSUME IInv, Catch
    PROVE  IInv'
<1>. USE DEF IInv
<1>1. /\ ~Idle /\ raised # "no" /\ AtErrorHandler /\ Return
      /\ res' = render(res, req.accept) /\ raised' = "no"
  BY DEF Catch
<1>2. raised' \in {"no", "std", "other"}
  BY <1>1
<1>3. /\ StackShapes' /\ FramesInOrder' /\ ChainInOrder' /\ Consent'
      /\ ~again' => \A i \in 1 .. Len(stack') : stack'[i].calls <= 1
      /\ \A i \in 1 .. Len(stack') : Ran(i, "request_id")' =>
            i \in 1 .. Len(stack) /\ Ran(i, "request_id")
      /\ \A i \in 1 .. Len(stack') : stack'[i].calls >= 1 /\ stack'[i].at # Len(chain') + 1
  BY <1>1, <1>2, ReturnKeeps
<1>4. UNCHANGED <<current, generated, req, before, chain, thrown, again>>
  BY <1>1 DEF Return
<1>5. req \in RequestType /\ res \in ResponseType
  BY DEF Shapes
<1>6. req.accept \in ContentTypes
  BY <1>5 DEF RequestType, ContentTypes
<1>. DEFINE types == Append(res.types, req.accept)
<1>7. res.types \in Seq(ContentTypes)
  BY <1>5 DEF ResponseType
<1>8. types \in Seq(ContentTypes) /\ types # <<>> /\ types[Len(types)] = req.accept
  <2>1. /\ types \in Seq(ContentTypes) /\ Len(types) = Len(res.types) + 1
        /\ types[Len(res.types) + 1] = req.accept
    BY <1>6, <1>7, AppendProperties
  <2>2. Len(res.types) \in Nat
    BY <1>7, LenProperties
  <2>3. Len(types) # 0
    BY <2>1, <2>2
  <2>. HIDE DEF types
  <2>. QED  BY <2>1, <2>3, EmptySeq
<1>9. res' = [res EXCEPT !.status = "internal_server_error", !.types = types]
  BY <1>1, <1>5 DEF render, ResponseType
<1>. HIDE DEF types
<1>10. /\ res' \in ResponseType /\ res'.ids = res.ids /\ res'.cookies = res.cookies
       /\ res'.status = "internal_server_error" /\ res'.types = types
  BY <1>5, <1>8, <1>9 DEF ResponseType
<1>11. Shapes'
  BY <1>2, <1>3, <1>4, <1>10 DEF Shapes, StackShapes, DataShapes
<1>12. Identities'
  BY <1>3, <1>4, <1>10, IdentitiesKept
<1>13. ASSUME ~again
       PROVE  \E i \in 1 .. Len(thrown) - 1 : chain[i].kind = "errors"
  <2>. DEFINE n == Len(stack)
              k == Len(thrown)
              m == Len(chain)
  <2>1. /\ n \in Nat \ {0} /\ Top = stack[n] /\ Top.at = n
        /\ k \in Nat \ {0} /\ n <= k /\ k <= m + 1 /\ m \in Nat
        /\ k <= m => chain[k].kind # "errors"
    BY <1>1, <1>13, UnwoundTo
  <2>2. n # m + 1 /\ chain[n].kind = "errors"
    BY <2>1, <1>1 DEF AtErrorHandler, Handler
  <2>. HIDE DEF n, k, m
  <2>3. n # k
    BY <2>1, <2>2
  <2>4. n \in 1 .. k - 1
    BY <2>1, <2>3
  <2>. QED  BY <2>2, <2>4 DEF k
<1>14. ~again => Reported'
  BY <1>3, <1>4, <1>8, <1>10, <1>13 DEF Reported
<1>15. Exceptions'
  <2>1. ASSUME ~again
        PROVE  /\ thrown'[Len(thrown')].at = Len(thrown')
               /\ Len(thrown') <= Len(chain') + 1
               /\ Len(thrown') <= Len(chain') => chain'[Len(thrown')].kind # "errors"
    BY <2>1, <1>1, <1>4, UnwoundTo
  <2>. QED  BY <2>1, <1>1, <1>3, <1>4, <1>14 DEF Exceptions
<1>. QED  BY <1>3, <1>11, <1>12, <1>15

LEMMA NextKeeps ==
    ASSUME IInv, [Next]_vars
    PROVE  IInv'
<1>1. CASE \E mw \in Registered : Use(mw)
  BY <1>1, UseKeeps
<1>2. CASE \E key \in Keys : AddKey(key)
  BY <1>2, AddKeyKeeps
<1>3. CASE \E r \in Requests, group \in Groups, own \in Own : Receive(r, group, own)
  BY <1>3, ReceiveKeeps
<1>4. CASE ErrorHandlerCalls \/ AuthCalls \/ UserCalls
  BY <1>4, PlainCallsKeep
<1>5. CASE RequestIdCalls
  BY <1>5, RequestIdCallsKeeps
<1>6. CASE SessionCalls
  BY <1>6, SessionCallsKeeps
<1>7. CASE AuthDenies \/ Returns \/ UserStops \/ HandlerResponds
  BY <1>7, QuietReturnsKeep
<1>8. CASE \E e \in {"std", "other"} : Throws(e)
  BY <1>8, ThrowsKeeps
<1>9. CASE Unwind
  BY <1>9, UnwindKeeps
<1>10. CASE Catch
  BY <1>10, CatchKeeps
<1>11. CASE UNCHANGED vars
  <2>1. UNCHANGED <<globals, keys, current, generated, req, res, chain, index, stack, raised,
                    thrown, again, before>>
    BY <1>11 DEF vars
  <2>2. Shapes'
    BY <2>1 DEF IInv, Shapes
  <2>3. FramesInOrder' /\ ChainInOrder' /\ Consent'
    BY <2>1 DEF IInv, FramesInOrder, ChainInOrder, Consent, Ran, Authorised, verify, is_valid
  <2>4. Exceptions'
    BY <2>1 DEF IInv, Exceptions, Reported, NoErrorHandlerAbove
  <2>5. Identities'
    BY <2>1 DEF IInv, Identities, Ran, IdOf, OwnId
  <2>. QED  BY <2>2, <2>3, <2>4, <2>5 DEF IInv
<1>. QED
  BY <1>1, <1>2, <1>3, <1>4, <1>5, <1>6, <1>7, <1>8, <1>9, <1>10, <1>11 DEF Next

LEMMA Invariance == Spec => []IInv
<1>1. IInv /\ [Next]_vars => IInv'
  BY NextKeeps
<1>. QED  BY InitHolds, <1>1, PTL DEF Spec

-----------------------------------------------------------------------------
(* The theorems.                                                           *)

(* What is on the stack, seen from the handler.                            *)
LEMMA BelowHandler ==
    ASSUME IInv, InHandler
    PROVE  /\ Len(stack) \in Nat \ {0} /\ Len(chain) \in Nat
           /\ DOMAIN stack = 1 .. Len(stack) /\ DOMAIN chain = 1 .. Len(chain)
           /\ stack[Len(stack)].at = Len(chain) + 1
           /\ \A kind : Frames(kind) # {} => \E i \in 1 .. Len(stack) : Ran(i, kind)
<1>. USE DEF IInv
<1>1. /\ Len(stack) \in Nat \ {0} /\ Len(chain) \in Nat
      /\ stack[Len(stack)].at = Len(chain) + 1
  BY Elements DEF InHandler, Running, Idle, Handler
<1>2. DOMAIN stack = 1 .. Len(stack) /\ DOMAIN chain = 1 .. Len(chain)
  BY LenProperties DEF Shapes
<1>3. ASSUME NEW kind, Frames(kind) # {}
      PROVE  \E i \in 1 .. Len(stack) : Ran(i, kind)
  <2>1. PICK i \in 1 .. Len(stack) : stack[i].at # Handler /\ chain[stack[i].at].kind = kind
    BY <1>2, <1>3 DEF Frames
  <2>2. i < Len(stack)
    BY <2>1, <1>1 DEF Handler
  <2>3. stack[i].calls >= 1
    BY <2>2 DEF FramesInOrder
  <2>4. Ran(i, kind)
    BY <2>1, <2>3 DEF Ran, Handler
  <2>. QED  BY <2>4
<1>. QED  BY <1>1, <1>2, <1>3

(* At every moment the position that all frames share is a position of the *)
(* chain, and the frames are stacked in its order, the handler last        *)
(* (MiddlewareChain::next() of middleware.h).                              *)
THEOREM TypeCorrect == Spec => []TypeOK
<1>1. ASSUME IInv PROVE TypeOK
  <2>. USE DEF IInv
  <2>1. /\ globals \in Seq(Middlewares) /\ chain \in Seq(Middlewares) /\ keys \subseteq Keys
        /\ index \in 0 .. Len(chain) /\ raised \in {"no", "std", "other"}
    BY <1>1 DEF Shapes
  <2>2. DOMAIN stack = 1 .. Len(stack)
    BY <1>1, LenProperties DEF Shapes
  <2>3. \A i \in 1 .. Len(stack) : stack[i].at \in 1 .. Handler /\ stack[i].calls \in 0 .. 2
    <3>. TAKE i \in 1 .. Len(stack)
    <3>1. stack[i].at \in 1 .. Handler
      BY <1>1 DEF FramesInOrder, Handler
    <3>2. stack[i] \in Frame
      BY <1>1, Elements
    <3>. QED  BY <3>1, <3>2 DEF Frame
  <2>4. \A i, j \in 1 .. Len(stack) : i < j => stack[i].at < stack[j].at
    BY <1>1 DEF FramesInOrder
  <2>. QED  BY <2>1, <2>2, <2>3, <2>4 DEF TypeOK
<1>. QED  BY <1>1, Invariance, PTL

(* However priorities are distributed over the application, its groups and *)
(* its routes, and whatever keys are added meanwhile, a handler runs only  *)
(* after every middleware of the chain has called next(), in the order of  *)
(* their priorities, and behind an auth middleware only with a valid       *)
(* credential.                                                             *)
THEOREM ConsentHolds == Spec => []HandlerIsGated
<1>1. ASSUME IInv PROVE HandlerIsGated
  <2>. USE DEF IInv
  <2>. SUFFICES ASSUME InHandler, \A i \in DOMAIN stack : stack[i].calls <= 1
                PROVE  /\ Len(stack) = Handler
                       /\ \A i \in DOMAIN chain :
                             i + 1 \in DOMAIN chain => chain[i].priority <= chain[i + 1].priority
                       /\ Frames("auth") # {} =>
                             \/ req.scheme = "Bearer" /\ req.secret = Token
                             \/ req.scheme = "ApiKey" /\ req.secret \in keys
    BY DEF HandlerIsGated
  <2>1. /\ Len(stack) \in Nat \ {0} /\ Len(chain) \in Nat
        /\ DOMAIN stack = 1 .. Len(stack) /\ DOMAIN chain = 1 .. Len(chain)
        /\ stack[Len(stack)].at = Len(chain) + 1
        /\ \A kind : Frames(kind) # {} => \E i \in 1 .. Len(stack) : Ran(i, kind)
    BY <1>1, BelowHandler
  <2>2. Len(stack) = Handler
    <3>1. \A i \in 1 .. Len(stack) : stack[i].calls <= 1
      BY <2>1
    <3>2. Len(stack) \in 1 .. Len(stack)
      BY <2>1
    <3>3. stack[Len(stack)].at = Len(stack)
      BY <1>1, <3>1, <3>2 DEF FramesInOrder
    <3>. QED  BY <3>3, <2>1 DEF Handler
  <2>3. \A i \in DOMAIN chain :
           i + 1 \in DOMAIN chain => chain[i].priority <= chain[i + 1].priority
    BY <1>1, <2>1 DEF ChainInOrder
  <2>4. ASSUME Frames("auth") # {}
        PROVE  \/ req.scheme = "Bearer" /\ req.secret = Token
               \/ req.scheme = "ApiKey" /\ req.secret \in keys
    <3>1. PICK i \in 1 .. Len(stack) : Ran(i, "auth")
      BY <2>1, <2>4
    <3>2. Authorised(req)
      BY <1>1, <3>1 DEF Consent
    <3>. QED  BY <3>2 DEF Authorised, verify, is_valid
  <2>. QED  BY <2>2, <2>3, <2>4
<1>. QED  BY <1>1, Invariance, PTL

(* Of an exception that a middleware or a handler throws, the error        *)
(* handler of error_handler.h makes a 500 if it is before the thrower in   *)
(* the chain; otherwise the exception leaves the route.                    *)
THEOREM ExceptionsHold == Spec => []ExceptionsAreReported
<1>1. ASSUME IInv PROVE ExceptionsAreReported
  <2>. USE DEF IInv
  <2>. SUFFICES ASSUME Idle, ~again, thrown # <<>>
                PROVE  IF Behind(Last(thrown).at)
                       THEN /\ raised = "no" /\ res.status = "internal_server_error"
                            /\ Last(res.types) = req.accept
                       ELSE raised # "no"
    BY DEF ExceptionsAreReported
  <2>. DEFINE k == Len(thrown)
  <2>1. Len(stack) = 0 /\ k \in Nat \ {0} /\ Len(chain) \in Nat
    BY <1>1, Elements DEF Idle
  <2>2. DOMAIN chain = 1 .. Len(chain)
    BY <1>1, LenProperties DEF Shapes
  <2>3. /\ thrown[k].at = k /\ k <= Len(chain) + 1
        /\ raised # "no" => NoErrorHandlerAbove
        /\ raised = "no" => Reported
    BY <1>1 DEF Exceptions
  <2>4. Last(thrown).at = k
    BY <2>3 DEF Last
  <2>. HIDE DEF k
  <2>5. Behind(k) <=> \E i \in 1 .. k - 1 : chain[i].kind = "errors"
    BY <2>1, <2>2, <2>3 DEF Behind
  <2>6. CASE raised = "no"
    <3>1. Reported
      BY <2>3, <2>6
    <3>2. Behind(k)
      BY <3>1, <2>5 DEF Reported, k
    <3>3. res.status = "internal_server_error" /\ Last(res.types) = req.accept
      BY <3>1 DEF Reported, Last
    <3>. QED  BY <3>2, <3>3, <2>4, <2>6
  <2>7. CASE raised # "no"
    <3>1. \A i \in 1 .. k - 1 : i > 0 => chain[i].kind # "errors"
      BY <2>1, <2>3, <2>7 DEF NoErrorHandlerAbove, k
    <3>2. ~Behind(k)
      BY <3>1, <2>1, <2>5
    <3>. QED  BY <3>2, <2>4, <2>7
  <2>. QED  BY <2>6, <2>7
<1>. QED  BY <1>1, Invariance, PTL

(* The request id a handler reads and the session it is told are those of  *)
(* its own request, although current_request_id is thread-local and is     *)
(* never cleared (request_id.h, session.cpp).                              *)
THEOREM IdentityHolds == Spec => []IdentityIsOwn
<1>1. ASSUME IInv PROVE IdentityIsOwn
  <2>. USE DEF IInv
  <2>. SUFFICES ASSUME InHandler
                PROVE  /\ Frames("request_id") # {} =>
                             /\ current = Last(res.ids)
                             /\ IF req.id # None THEN current = req.id ELSE OwnId(current)
                       /\ Frames("session") # {} /\ Len(req.sessions) = 1 =>
                             IF req.cookies # <<>>
                             THEN Head(req.sessions) = Last(req.cookies) /\ res.cookies = <<>>
                             ELSE OwnId(Head(req.sessions)) /\ res.cookies = req.sessions
    BY DEF IdentityIsOwn
  <2>1. ASSUME Frames("request_id") # {}
        PROVE  /\ current = Last(res.ids)
               /\ IF req.id # None THEN current = req.id ELSE OwnId(current)
    <3>1. PICK i \in 1 .. Len(stack) : Ran(i, "request_id")
      BY <1>1, <2>1, BelowHandler
    <3>2. res.ids # <<>>
      BY <1>1, <3>1 DEF Identities
    <3>. QED  BY <1>1, <3>2 DEF Identities, IdOf, Last
  <2>2. ASSUME Len(req.sessions) = 1
        PROVE  IF req.cookies # <<>>
               THEN Head(req.sessions) = Last(req.cookies) /\ res.cookies = <<>>
               ELSE OwnId(Head(req.sessions)) /\ res.cookies = req.sessions
    <3>1. req.sessions \in Seq(Identifiers)
      BY <1>1 DEF Shapes, RequestType
    <3>2. Head(req.sessions) = req.sessions[1]
      BY <3>1, <2>2
    <3>. QED  BY <1>1, <2>2, <3>2 DEF Identities
  <2>. QED  BY <2>1, <2>2
<1>. QED  BY <1>1, Invariance, PTL
=============================================================================
