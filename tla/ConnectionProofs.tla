-------------------------- MODULE ConnectionProofs --------------------------
(***************************************************************************)
(* Theorems about Connection: for any number of connections, any size of   *)
(* the pool and with or without timeouts.                                  *)
(***************************************************************************)
EXTENDS Connection, SequenceTheorems, FiniteSetTheorems, TLAPS

-----------------------------------------------------------------------------
(* A queue s of elements of E, and those of its elements that are in P.    *)
Some(P, s) == \E i \in 1..Len(s) : s[i] \in P
AtMostOne(P, s) == \A i, j \in 1..Len(s) : s[i] \in P /\ s[j] \in P => i = j

LEMMA EmptyQueue ==
    ASSUME NEW P
    PROVE  ~Some(P, <<>>) /\ AtMostOne(P, <<>>)
BY DEF Some, AtMostOne

(* What taking the head off a queue does to the elements in P.             *)
LEMMA TakeHead ==
    ASSUME NEW E, NEW s \in Seq(E), s # <<>>, NEW P
    PROVE  /\ Tail(s) \in Seq(E) /\ Head(s) \in E
           /\ Head(s) \in P => Some(P, s)
           /\ Some(P, Tail(s)) => Some(P, s)
           /\ AtMostOne(P, s) => AtMostOne(P, Tail(s))
           /\ Head(s) \in P /\ AtMostOne(P, s) => ~Some(P, Tail(s))
           /\ Head(s) \notin P /\ Some(P, s) => Some(P, Tail(s))
<1>1. /\ Tail(s) \in Seq(E) /\ Head(s) \in E
      /\ Len(Tail(s)) = Len(s) - 1
      /\ \A i \in 1..Len(Tail(s)) : Tail(s)[i] = s[i + 1]
  BY HeadTailProperties
<1>2. Len(s) \in Nat /\ Len(s) > 0 /\ Head(s) = s[1]
  BY EmptySeq, LenProperties
<1>3. \A i \in 1..Len(Tail(s)) : i + 1 \in 1..Len(s)
  BY <1>1, <1>2
<1>4. \A i \in 1..Len(s) : i # 1 => i - 1 \in 1..Len(Tail(s)) /\ (i - 1) + 1 = i
  BY <1>1, <1>2
<1>5. Head(s) \in P => Some(P, s)
  BY <1>2 DEF Some
<1>6. Some(P, Tail(s)) => Some(P, s)
  BY <1>1, <1>3 DEF Some
<1>7. ASSUME AtMostOne(P, s) PROVE AtMostOne(P, Tail(s))
  <2>. SUFFICES ASSUME NEW i \in 1..Len(Tail(s)), NEW j \in 1..Len(Tail(s)),
                       Tail(s)[i] \in P, Tail(s)[j] \in P
                PROVE  i = j
    BY DEF AtMostOne
  <2>1. s[i + 1] \in P /\ s[j + 1] \in P
    BY <1>1
  <2>2. i + 1 = j + 1
    BY <1>3, <1>7, <2>1 DEF AtMostOne
  <2>. QED  BY <2>2, <1>1, <1>2
<1>8. ASSUME Head(s) \in P, AtMostOne(P, s), Some(P, Tail(s)) PROVE FALSE
  <2>1. PICK i \in 1..Len(Tail(s)) : s[i + 1] \in P
    BY <1>1, <1>8 DEF Some
  <2>2. i + 1 = 1
    BY <2>1, <1>2, <1>3, <1>8 DEF AtMostOne
  <2>. QED  BY <2>2, <1>1, <1>2
<1>9. ASSUME Head(s) \notin P, Some(P, s) PROVE Some(P, Tail(s))
  <2>1. PICK i \in 1..Len(s) : s[i] \in P
    BY <1>9 DEF Some
  <2>2. i # 1
    BY <2>1, <1>2, <1>9
  <2>3. i - 1 \in 1..Len(Tail(s)) /\ Tail(s)[i - 1] = s[i]
    BY <2>2, <1>1, <1>4
  <2>. QED  BY <2>1, <2>3 DEF Some
<1>. QED  BY <1>1, <1>5, <1>6, <1>7, <1>8, <1>9

(* What an element at the end of a queue does to them.                     *)
LEMMA PutLast ==
    ASSUME NEW E, NEW s \in Seq(E), NEW e \in E, NEW P
    PROVE  /\ Append(s, e) \in Seq(E)
           /\ Append(s, e) # <<>>
           /\ Some(P, Append(s, e)) <=> Some(P, s) \/ e \in P
           /\ AtMostOne(P, s) /\ (e \notin P \/ ~Some(P, s)) => AtMostOne(P, Append(s, e))
<1>1. /\ Append(s, e) \in Seq(E) /\ Append(s, e) # <<>>
      /\ Len(Append(s, e)) = Len(s) + 1
      /\ \A i \in 1..Len(s) : Append(s, e)[i] = s[i]
      /\ Append(s, e)[Len(s) + 1] = e
  BY AppendProperties
<1>2. Len(s) \in Nat
  BY LenProperties
<1>3. \A i \in 1..Len(Append(s, e)) : i \in 1..Len(s) \/ i = Len(s) + 1
  BY <1>1, <1>2
<1>4. \A i \in 1..Len(s) : i \in 1..Len(Append(s, e))
  BY <1>1, <1>2
<1>5. Len(s) + 1 \in 1..Len(Append(s, e))
  BY <1>1, <1>2
<1>6. Some(P, Append(s, e)) => Some(P, s) \/ e \in P
  BY <1>1, <1>3 DEF Some
<1>7. Some(P, s) => Some(P, Append(s, e))
  BY <1>1, <1>4 DEF Some
<1>8. e \in P => Some(P, Append(s, e))
  BY <1>1, <1>5 DEF Some
<1>9. ASSUME AtMostOne(P, s), e \notin P \/ ~Some(P, s) PROVE AtMostOne(P, Append(s, e))
  BY <1>1, <1>3, <1>9 DEF Some, AtMostOne
<1>. QED  BY <1>1, <1>6, <1>7, <1>8, <1>9

-----------------------------------------------------------------------------
(* What the queue holds of connection c.                                   *)
Of(c) == OpsOf(c) \cup TimersOf(c)

(* The operation of an open connection, and what its handler may be given; *)
(* it is "aborted" only for a connection that is closed.                   *)
Current(c) == IF state[c] = "Reading" THEN "read" ELSE "write"
Expected(c) == {Completion(c, Current(c), res) : res \in ReadResults \cup WriteResults}

OpenInv(c) ==
    /\ \E b \in Buffers : held[c] = {b}
    /\ pending[c] = {} \/ pending[c] = {Current(c)}
    /\ pending[c] = {} <=> Some(OpsOf(c), ready)
    /\ ~Some(OpsOf(c) \ Expected(c), ready)
    /\ timer[c] \in {"off", Current(c)}
    /\ timer[c] = Current(c) \/ Some({Completion(c, "timer", Current(c))}, ready)

ConnInv(c) ==
    /\ AtMostOne(OpsOf(c), ready)
    /\ state[c] = "Unborn" => ~Some(Of(c), ready)
    /\ IF Open(c) THEN OpenInv(c)
                  ELSE pending[c] = {} /\ timer[c] = "off" /\ held[c] = {}

(* A change of the queue from s to t that is of no concern to c.           *)
Same(c, s, t) ==
    \A P \in SUBSET Of(c) : /\ Some(P, s) <=> Some(P, t)
                            /\ AtMostOne(P, s) => AtMostOne(P, t)

LEMMA SameTail ==
    ASSUME NEW E, NEW s \in Seq(E), s # <<>>, NEW c, Head(s) \notin Of(c)
    PROVE  Same(c, s, Tail(s))
<1>. SUFFICES ASSUME NEW P \in SUBSET Of(c)
              PROVE  /\ Some(P, s) <=> Some(P, Tail(s))
                     /\ AtMostOne(P, s) => AtMostOne(P, Tail(s))
  BY DEF Same
<1>. QED  BY TakeHead

LEMMA SameAppend ==
    ASSUME NEW E, NEW s \in Seq(E), NEW e \in E, NEW c, e \notin Of(c)
    PROVE  Same(c, s, Append(s, e))
<1>. SUFFICES ASSUME NEW P \in SUBSET Of(c)
              PROVE  /\ Some(P, s) <=> Some(P, Append(s, e))
                     /\ AtMostOne(P, s) => AtMostOne(P, Append(s, e))
  BY DEF Same
<1>. QED  BY PutLast

LEMMA SameTwice ==
    ASSUME NEW c, NEW s, NEW t, NEW u, Same(c, s, t), Same(c, t, u)
    PROVE  Same(c, s, u)
BY DEF Same

(* A connection that an action does not touch keeps its invariant.         *)
LEMMA Untouched ==
    ASSUME NEW c \in Conns, ConnInv(c), Same(c, ready, ready'),
           state'[c] = state[c], pending'[c] = pending[c],
           timer'[c] = timer[c], held'[c] = held[c]
    PROVE  ConnInv(c)'
<1>1. Current(c)' = Current(c) /\ Expected(c)' = Expected(c) /\ (Open(c)' <=> Open(c))
  BY DEF Current, Expected, Open, Completion
<1>2. Completion(c, "timer", Current(c)) \in Of(c)
  BY DEF Current, Completion, Of, TimersOf
<1>3. \A P \in SUBSET Of(c) : Some(P, ready)' <=> Some(P, ready)
  BY DEF Same, Some
<1>4. AtMostOne(OpsOf(c), ready)'
  BY DEF Same, AtMostOne, ConnInv, Of
<1>5. state'[c] = "Unborn" => ~Some(Of(c), ready)'
  BY <1>3 DEF ConnInv
<1>6. Open(c) => OpenInv(c)'
  BY <1>1, <1>2, <1>3 DEF OpenInv, ConnInv, Of
<1>. QED  BY <1>1, <1>4, <1>5, <1>6 DEF ConnInv

-----------------------------------------------------------------------------
(* The values of the members, the queue apart, which has more in it when   *)
(* the connections are part of a server.                                   *)
ConnTypes ==
    /\ state \in [Conns -> {"Unborn", "Reading", "Writing", "Closed"}]
    /\ keepAlive \in [Conns -> BOOLEAN]
    /\ parser \in [Conns -> {"start", "mid", "done"}]
    /\ response \in [Conns -> {"none", "ok", "bad"}]
    /\ pending \in [Conns -> SUBSET {"read", "write"}]
    /\ timer \in [Conns -> {"off", "read", "write"}]
    /\ managed \subseteq Conns
    /\ crashed \in BOOLEAN
    /\ held \in [Conns -> SUBSET Buffers]
    /\ pool \in Seq(Buffers)

(* A set of completions, of connections and others.                        *)
Queueable(E) ==
    /\ Completions \subseteq E
    /\ \A e \in E, c \in Conns : e.conn = c => e \in Of(c)

LEMMA OfApart ==
    ASSUME NEW c, NEW e \in Of(c)
    PROVE  e.conn = c /\ \A d : d # c => e \notin Of(d)
BY DEF Of, OpsOf, TimersOf

(* A handler of a read or a write begins.                                  *)
LEMMA TakeOp ==
    ASSUME NEW E, Queueable(E), ready \in Seq(E), NEW c \in Conns, ConnInv(c),
           NEW op \in {"read", "write"}, IsNext(c, op)
    PROVE  /\ Tail(ready) \in Seq(E) /\ ready # <<>>
           /\ Head(ready) \in OpsOf(c)
           /\ ~Some(OpsOf(c), Tail(ready))
           /\ pending[c] = {}
           /\ state[c] # "Unborn"
           /\ Open(c) => Head(ready) \in Expected(c)
           /\ \A d \in Conns : d # c => Same(d, ready, Tail(ready))
<1>1. ready # <<>> /\ Head(ready).conn = c /\ Head(ready).op = op
  BY DEF IsNext
<1>2. Head(ready) \in E /\ Tail(ready) \in Seq(E)
  BY <1>1, HeadTailProperties
<1>3. Head(ready) \in OpsOf(c)
  BY <1>1, <1>2 DEF Queueable, Of, TimersOf
<1>4. Some(OpsOf(c), ready) /\ ~Some(OpsOf(c), Tail(ready))
  BY <1>1, <1>3, TakeHead DEF ConnInv
<1>5. pending[c] = {}
  BY <1>4 DEF ConnInv, OpenInv
<1>6. state[c] # "Unborn"
  <2>1. Some(Of(c), ready)
    BY <1>1, <1>3, TakeHead DEF Of
  <2>. QED  BY <2>1 DEF ConnInv
<1>7. ASSUME Open(c), Head(ready) \notin Expected(c) PROVE FALSE
  <2>1. Some(OpsOf(c) \ Expected(c), ready)
    BY <1>1, <1>3, <1>7, TakeHead
  <2>. QED  BY <2>1, <1>7 DEF ConnInv, OpenInv
<1>8. ASSUME NEW d \in Conns, d # c PROVE Same(d, ready, Tail(ready))
  BY <1>1, <1>3, <1>8, OfApart, SameTail DEF Of
<1>. QED  BY <1>1, <1>2, <1>3, <1>4, <1>5, <1>6, <1>7, <1>8

(* ... or one of a timer.                                                  *)
LEMMA TakeTimer ==
    ASSUME NEW E, Queueable(E), ready \in Seq(E), NEW c \in Conns, ConnInv(c),
           IsNext(c, "timer")
    PROVE  /\ Tail(ready) \in Seq(E) /\ ready # <<>>
           /\ Head(ready) \in TimersOf(c)
           /\ \A P \in SUBSET OpsOf(c) : Some(P, Tail(ready)) <=> Some(P, ready)
           /\ AtMostOne(OpsOf(c), Tail(ready))
           /\ state[c] # "Unborn"
           /\ \A d \in Conns : d # c => Same(d, ready, Tail(ready))
<1>1. ready # <<>> /\ Head(ready).conn = c /\ Head(ready).op = "timer"
  BY DEF IsNext
<1>2. Head(ready) \in E /\ Tail(ready) \in Seq(E)
  BY <1>1, HeadTailProperties
<1>3. Head(ready) \in TimersOf(c) /\ Head(ready) \notin OpsOf(c)
  BY <1>1, <1>2 DEF Queueable, Of, OpsOf
<1>4. \A P \in SUBSET OpsOf(c) : Some(P, Tail(ready)) <=> Some(P, ready)
  BY <1>1, <1>3, TakeHead
<1>5. AtMostOne(OpsOf(c), Tail(ready))
  BY <1>1, TakeHead DEF ConnInv
<1>6. state[c] # "Unborn"
  <2>1. Some(Of(c), ready)
    BY <1>1, <1>3, TakeHead DEF Of
  <2>. QED  BY <2>1 DEF ConnInv
<1>7. ASSUME NEW d \in Conns, d # c PROVE Same(d, ready, Tail(ready))
  BY <1>1, <1>3, <1>7, OfApart, SameTail DEF Of
<1>. QED  BY <1>1, <1>2, <1>3, <1>4, <1>5, <1>6, <1>7

(* A completion of connection c is queued.                                 *)
LEMMA QueueOwn ==
    ASSUME NEW E, Queueable(E), NEW q \in Seq(E), NEW c \in Conns, NEW e \in Of(c)
    PROVE  /\ Append(q, e) \in Seq(E)
           /\ \A P : Some(P, Append(q, e)) <=> Some(P, q) \/ e \in P
           /\ \A P : AtMostOne(P, q) /\ (e \notin P \/ ~Some(P, q)) => AtMostOne(P, Append(q, e))
           /\ \A d \in Conns : d # c => Same(d, q, Append(q, e))
<1>1. e \in E
  BY DEF Queueable, Completions, Of
<1>2. ASSUME NEW d \in Conns, d # c PROVE Same(d, q, Append(q, e))
  BY <1>1, <1>2, OfApart, SameAppend
<1>. QED  BY <1>1, <1>2, PutLast

-----------------------------------------------------------------------------
(* The buffer that the constructor takes ...                               *)
LEMMA Taken ==
    ASSUME ConnTypes, NEW c \in Conns, held[c] = {}, Pool!Acquire(c)
    PROVE  /\ held' \in [Conns -> SUBSET Buffers] /\ pool' \in Seq(Buffers)
           /\ \E b \in Buffers : held'[c] = {b}
           /\ \A d \in Conns : d # c => held'[d] = held[d]
<1>. USE DEF ConnTypes
<1>1. CASE Pool!AcquirePooled(c)
  <2>1. Len(pool) \in Nat /\ Len(pool) > 0 /\ pool[Len(pool)] \in Buffers
    BY <1>1, EmptySeq, LenProperties, ElementOfSeq DEF Pool!AcquirePooled
  <2>2. pool' \in Seq(Buffers)
    BY <1>1, <2>1, SubSeqProperties DEF Pool!AcquirePooled, Pool!PopBack
  <2>. QED  BY <1>1, <2>1, <2>2 DEF Pool!AcquirePooled
<1>2. CASE Pool!AcquireFresh(c)
  BY <1>2 DEF Pool!AcquireFresh, Pool!Free
<1>3. ~Pool!AcquireRefused(c) /\ ~Pool!AcquireThrows(c)
  BY DEF Pool!AcquireRefused, Pool!AcquireThrows, Pool!OverLimit
<1>. QED  BY <1>1, <1>2, <1>3 DEF Pool!Acquire

(* ... and the one that shutdown() gives back.                             *)
LEMMA GivenBack ==
    ASSUME ConnTypes, NEW c \in Conns, held[c] = {} \/ \E b \in Buffers : held[c] = {b},
           GiveBack(c)
    PROVE  /\ held' \in [Conns -> SUBSET Buffers] /\ pool' \in Seq(Buffers)
           /\ held'[c] = {}
           /\ \A d \in Conns : d # c => held'[d] = held[d]
<1>. USE DEF ConnTypes
<1>1. CASE held[c] = {}
  BY <1>1 DEF GiveBack, HasBuffer, poolVars
<1>2. ASSUME NEW b \in Buffers, held[c] = {b}
      PROVE  /\ held' = [held EXCEPT ![c] = @ \ {b}]
             /\ pool' \in Seq(Buffers)
  <2>1. Pool!Release(c, b)
    BY <1>2 DEF GiveBack, HasBuffer
  <2>2. Append(pool, b) \in Seq(Buffers)
    BY AppendProperties
  <2>. QED  BY <2>1, <2>2 DEF Pool!Release, Pool!ReleaseKeep, Pool!ReleaseFree
<1>. QED  BY <1>1, <1>2

-----------------------------------------------------------------------------
(* A connection that has just started to read, or to write ...             *)
LEMMA Engaged ==
    ASSUME ConnTypes, NEW c \in Conns, NEW op \in {"read", "write"},
           state' = [state EXCEPT ![c] = IF op = "read" THEN "Reading" ELSE "Writing"],
           timer' = [timer EXCEPT ![c] = op],
           pending' = [pending EXCEPT ![c] = @ \cup {op}],
           pending[c] = {}, ~Some(OpsOf(c), ready'),
           \E b \in Buffers : held'[c] = {b}
    PROVE  ConnInv(c)'
<1>1. /\ state'[c] = IF op = "read" THEN "Reading" ELSE "Writing"
      /\ timer'[c] = op /\ pending'[c] = {op}
  BY DEF ConnTypes
<1>2. Open(c)' /\ Current(c)' = op /\ state'[c] # "Unborn"
  BY <1>1 DEF Open, Current
<1>3. /\ ~Some(OpsOf(c), ready)'
      /\ (~Some(OpsOf(c) \ Expected(c), ready))'
      /\ AtMostOne(OpsOf(c), ready)'
  BY DEF Some, AtMostOne
<1>. QED  BY <1>1, <1>2, <1>3 DEF ConnInv, OpenInv

(* ... and one that has been shut down: what was in progress is aborted.   *)
LEMMA ShutQueue ==
    ASSUME NEW E, Queueable(E), NEW c \in Conns, ConnInv(c), NEW q \in Seq(E),
           Shutdown(c, q)
    PROVE  \/ ready' = q
           \/ pending[c] # {} /\ \E e \in Of(c) : ready' = Append(q, e)
<1>1. q \o <<>> = q
  BY ConcatEmptySeq
<1>2. CASE pending[c] = {}
  BY <1>1, <1>2 DEF Shutdown, Aborted
<1>3. ASSUME NEW op \in {"read", "write"}, pending[c] = {op}
      PROVE  \E e \in Of(c) : ready' = Append(q, e)
  <2>. DEFINE e == Completion(c, op, "aborted")
  <2>1. e \in E /\ e \in Of(c)
    BY DEF Queueable, Completions, Of, OpsOf, Completion
  <2>2. q \o <<e>> = Append(q, e) /\ Append(q, e) \in Seq(E)
    BY <2>1, AppendIsConcat, AppendProperties
  <2>3. Append(q, e) \o <<>> = Append(q, e)
    BY <2>2, ConcatEmptySeq
  <2>4. ready' = Append(q, e)
    BY <1>1, <1>3, <2>2, <2>3 DEF Shutdown, Aborted, NotClosed
  <2>. QED  BY <2>1, <2>4
<1>4. pending[c] = {} \/ \E op \in {"read", "write"} : pending[c] = {op}
  BY DEF ConnInv, OpenInv, Current
<1>. QED  BY <1>2, <1>3, <1>4

LEMMA ShutDown ==
    ASSUME NEW E, Queueable(E), ConnTypes, NEW c \in Conns, ConnInv(c),
           NEW q \in Seq(E), AtMostOne(OpsOf(c), q),
           pending[c] # {} => ~Some(OpsOf(c), q),
           Shutdown(c, q)
    PROVE  /\ ready' \in Seq(E)
           /\ ConnInv(c)'
           /\ \A d \in Conns : d # c => Same(d, q, ready') /\ held'[d] = held[d]
           /\ held' \in [Conns -> SUBSET Buffers] /\ pool' \in Seq(Buffers)
<1>1. /\ state'[c] = "Closed" /\ timer'[c] = "off" /\ pending'[c] = {}
  BY DEF Shutdown, ConnTypes, NotClosed
<1>2. held[c] = {} \/ \E b \in Buffers : held[c] = {b}
  BY DEF ConnInv, OpenInv
<1>3. /\ held' \in [Conns -> SUBSET Buffers] /\ pool' \in Seq(Buffers)
      /\ held'[c] = {}
      /\ \A d \in Conns : d # c => held'[d] = held[d]
  BY <1>2, GivenBack DEF Shutdown
<1>4. /\ ready' \in Seq(E) /\ AtMostOne(OpsOf(c), ready')
      /\ \A d \in Conns : d # c => Same(d, q, ready')
  <2>1. CASE ready' = q
    BY <2>1 DEF Same
  <2>2. ASSUME NEW e \in Of(c), ready' = Append(q, e), ~Some(OpsOf(c), q)
        PROVE  <1>4
    BY <2>2, QueueOwn
  <2>. QED  BY <2>1, <2>2, ShutQueue
<1>. QED  BY <1>1, <1>3, <1>4 DEF ConnInv, Open

-----------------------------------------------------------------------------
(* What every action preserves, E being what can be queued.                *)
Good(E) ==
    /\ ConnTypes
    /\ ready \in Seq(E)
    /\ ~crashed => \A c \in Conns : ConnInv(c)

Preserved(E) == Good(E)' /\ (ManagedIffOpen => ManagedIffOpen')

(* An action on connection c ...                                           *)
OnlyOn(c) ==
    \A d \in Conns : d # c =>
        /\ Same(d, ready, ready')
        /\ state'[d] = state[d] /\ pending'[d] = pending[d]
        /\ timer'[d] = timer[d] /\ held'[d] = held[d]

(* ... has to leave that connection as it should be.                       *)
LEMMA Moved ==
    ASSUME NEW E, Good(E), ~crashed, NEW c \in Conns, OnlyOn(c),
           ConnTypes', ready' \in Seq(E), ConnInv(c)',
           managed' \ {c} = managed \ {c},
           ManagedIffOpen => (c \in managed' <=> Open(c)')
    PROVE  Preserved(E)
<1>1. ASSUME NEW d \in Conns, d # c PROVE ConnInv(d)' /\ (Open(d)' <=> Open(d))
  BY <1>1, Untouched DEF Good, OnlyOn, Open
<1>2. Good(E)'
  BY <1>1 DEF Good
<1>3. ASSUME ManagedIffOpen PROVE ManagedIffOpen'
  <2>1. managed = {d \in Conns : Open(d)}
    BY <1>3 DEF ManagedIffOpen
  <2>2. \A d \in Conns : d \in managed' <=> Open(d)'
    BY <1>1, <1>3, <2>1
  <2>. QED  BY <2>2 DEF ManagedIffOpen, ConnTypes
<1>. QED  BY <1>2, <1>3 DEF Preserved

(* A null buffer_ has been dereferenced: nothing more is asked.            *)
LEMMA Crashed ==
    ASSUME NEW E, ConnTypes', ready' \in Seq(E), crashed'
    PROVE  Preserved(E)
BY DEF Preserved, Good, ManagedIffOpen

-----------------------------------------------------------------------------
LEMMA StartPreserves ==
    ASSUME NEW E, Good(E), ~crashed, NEW c \in Conns, Start(c),
           ready' \in Seq(E), \A d \in Conns : Same(d, ready, ready')
    PROVE  Preserved(E)
<1>1. ConnTypes /\ ConnInv(c) /\ state[c] = "Unborn"
  BY DEF Good, Start
<1>2. held[c] = {} /\ pending[c] = {} /\ ~Some(OpsOf(c), ready)
  BY <1>1 DEF ConnInv, Open, Of, Some
<1>3. /\ held' \in [Conns -> SUBSET Buffers] /\ pool' \in Seq(Buffers)
      /\ \E b \in Buffers : held'[c] = {b}
      /\ \A d \in Conns : d # c => held'[d] = held[d]
  BY <1>1, <1>2, Taken DEF Start
<1>4. ~Some(OpsOf(c), ready')
  BY <1>2 DEF Same, Of
<1>5. ConnInv(c)'
  BY <1>1, <1>2, <1>3, <1>4, Engaged DEF Start, DoRead
<1>6. ConnTypes'
  BY <1>1, <1>3 DEF ConnTypes, Start, DoRead
<1>7. OnlyOn(c)
  BY <1>1, <1>3 DEF OnlyOn, ConnTypes, Start, DoRead
<1>8. Open(c)' /\ managed' = managed \cup {c}
  BY <1>1 DEF Start, DoRead, Open, ConnTypes
<1>. QED  BY <1>5, <1>6, <1>7, <1>8, Moved

LEMMA CompletePreserves ==
    ASSUME NEW E, Queueable(E), Good(E), NEW c \in Conns,
           \/ \E res \in ReadResults : CompleteRead(c, res)
           \/ \E res \in WriteResults : CompleteWrite(c, res)
    PROVE  Preserved(E)
<1>1. PICK op \in {"read", "write"}, res \in ReadResults \cup WriteResults :
         /\ ~crashed /\ op \in pending[c]
         /\ Completion(c, op, res) \in OpsOf(c)
         /\ pending' = [pending EXCEPT ![c] = @ \ {op}]
         /\ ready' = Append(ready, Completion(c, op, res))
         /\ UNCHANGED <<state, keepAlive, parser, response, timer, managed, crashed, poolVars>>
  BY DEF CompleteRead, CompleteWrite, OpsOf, Completion
<1>. DEFINE e == Completion(c, op, res)
<1>2. ConnTypes /\ ConnInv(c) /\ ready \in Seq(E)
  BY <1>1 DEF Good
<1>3. Open(c) /\ op = Current(c) /\ pending[c] = {op} /\ ~Some(OpsOf(c), ready)
  BY <1>1, <1>2 DEF ConnInv, OpenInv
<1>4. e \in OpsOf(c) /\ e \in Expected(c) /\ e \in Of(c)
  BY <1>1, <1>3 DEF Expected, Of
<1>5. ready' = Append(ready, e)
  BY <1>1
<1>. HIDE DEF e
<1>6. /\ ready' \in Seq(E)
      /\ \A P : Some(P, ready') <=> Some(P, ready) \/ e \in P
      /\ \A P : AtMostOne(P, ready) /\ (e \notin P \/ ~Some(P, ready)) => AtMostOne(P, ready')
      /\ \A d \in Conns : d # c => Same(d, ready, ready')
  BY <1>2, <1>4, <1>5, QueueOwn
<1>7. /\ ConnTypes' /\ OnlyOn(c)
      /\ pending'[c] = {} /\ state'[c] = state[c] /\ timer'[c] = timer[c] /\ held'[c] = held[c]
  BY <1>1, <1>2, <1>3, <1>6 DEF ConnTypes, OnlyOn, poolVars
<1>8. ConnInv(c)'
  <2>1. (Open(c) /\ state[c] # "Unborn")' /\ Current(c)' = Current(c) /\ Expected(c)' = Expected(c)
    BY <1>3, <1>7 DEF Open, Current, Expected, Completion
  <2>2. AtMostOne(OpsOf(c), ready)' /\ Some(OpsOf(c), ready)'
    BY <1>2, <1>3, <1>4, <1>6 DEF ConnInv, AtMostOne, Some
  <2>3. (~Some(OpsOf(c) \ Expected(c), ready))'
    <3>1. ~Some(OpsOf(c) \ Expected(c), ready')
      BY <1>2, <1>3, <1>4, <1>6 DEF ConnInv, OpenInv
    <3>. QED  BY <2>1, <3>1 DEF Some
  <2>4. timer[c] \in {"off", Current(c)}
        /\ (timer[c] = Current(c) \/ Some({Completion(c, "timer", Current(c))}, ready'))
    BY <1>2, <1>3, <1>6 DEF ConnInv, OpenInv
  <2>5. OpenInv(c)'
    BY <1>2, <1>3, <1>7, <2>1, <2>2, <2>3, <2>4 DEF ConnInv, OpenInv, Some, Completion
  <2>. QED  BY <2>1, <2>2, <2>5 DEF ConnInv
<1>9. managed' = managed /\ Open(c)' /\ (ManagedIffOpen => c \in managed)
  BY <1>1, <1>3, <1>7 DEF Open, ManagedIffOpen
<1>. QED  BY <1>1, <1>6, <1>7, <1>8, <1>9, Moved

LEMMA ExpirePreserves ==
    ASSUME NEW E, Queueable(E), Good(E), NEW c \in Conns, Expire(c)
    PROVE  Preserved(E)
<1>1. ConnTypes /\ ConnInv(c) /\ ready \in Seq(E) /\ ~crashed
  BY DEF Good, Expire
<1>. DEFINE e == Completion(c, "timer", Current(c))
<1>2. Open(c) /\ timer[c] = Current(c) /\ ready' = Append(ready, e)
  BY <1>1 DEF ConnInv, OpenInv, Expire
<1>3. e \in Of(c) /\ e \notin OpsOf(c)
  BY DEF Of, OpsOf, TimersOf, Completion, Current
<1>. HIDE DEF e
<1>4. /\ ready' \in Seq(E)
      /\ \A P : Some(P, ready') <=> Some(P, ready) \/ e \in P
      /\ \A P : AtMostOne(P, ready) /\ (e \notin P \/ ~Some(P, ready)) => AtMostOne(P, ready')
      /\ \A d \in Conns : d # c => Same(d, ready, ready')
  BY <1>1, <1>2, <1>3, QueueOwn
<1>5. /\ ConnTypes' /\ OnlyOn(c) /\ managed' = managed
      /\ pending'[c] = pending[c] /\ state'[c] = state[c] /\ timer'[c] = "off" /\ held'[c] = held[c]
  BY <1>1, <1>4 DEF Expire, ConnTypes, OnlyOn, poolVars
<1>6. (Open(c) /\ state[c] # "Unborn")' /\ Current(c)' = Current(c) /\ Expected(c)' = Expected(c)
  BY <1>2, <1>5 DEF Open, Current, Expected, Completion
<1>7. OpenInv(c)'
  <2>1. Some(OpsOf(c), ready') <=> Some(OpsOf(c), ready)
    BY <1>3, <1>4
  <2>2. ~Some(OpsOf(c) \ Expected(c), ready')
    BY <1>1, <1>2, <1>3, <1>4 DEF ConnInv, OpenInv
  <2>3. Some({e}, ready')
    BY <1>4
  <2>. QED  BY <1>1, <1>2, <1>5, <1>6, <2>1, <2>2, <2>3 DEF ConnInv, OpenInv, Some, e, Completion
<1>8. AtMostOne(OpsOf(c), ready)'
  BY <1>1, <1>3, <1>4 DEF ConnInv, AtMostOne
<1>9. ConnInv(c)'
  BY <1>6, <1>7, <1>8 DEF ConnInv
<1>10. ManagedIffOpen => c \in managed
  BY <1>1, <1>2 DEF ManagedIffOpen
<1>. QED  BY <1>1, <1>4, <1>5, <1>6, <1>9, <1>10, Moved

-----------------------------------------------------------------------------
(* A handler that stops the connection, q being what is left of the queue. *)
LEMMA StopPreserves ==
    ASSUME NEW E, Queueable(E), Good(E), ~crashed, NEW c \in Conns,
           NEW q \in Seq(E), AtMostOne(OpsOf(c), q),
           pending[c] # {} => ~Some(OpsOf(c), q),
           \A d \in Conns : d # c => Same(d, ready, q),
           Stop(c, q), UNCHANGED <<keepAlive, parser, crashed>>
    PROVE  Preserved(E)
<1>1. ConnTypes /\ ConnInv(c)
  BY DEF Good
<1>2. /\ ready' \in Seq(E)
      /\ ConnInv(c)'
      /\ \A d \in Conns : d # c => Same(d, q, ready') /\ held'[d] = held[d]
      /\ held' \in [Conns -> SUBSET Buffers] /\ pool' \in Seq(Buffers)
  BY <1>1, ShutDown DEF Stop
<1>3. ConnTypes'
  BY <1>1, <1>2 DEF ConnTypes, Stop, Shutdown, ManagedWithout, NotClosed
<1>4. OnlyOn(c)
  <2>. SUFFICES ASSUME NEW d \in Conns, d # c
                PROVE  /\ Same(d, ready, ready')
                       /\ state'[d] = state[d] /\ pending'[d] = pending[d]
                       /\ timer'[d] = timer[d] /\ held'[d] = held[d]
    BY DEF OnlyOn
  <2>1. Same(d, ready, ready')
    BY <1>2, SameTwice
  <2>. QED  BY <1>1, <1>2, <2>1 DEF ConnTypes, Stop, Shutdown
<1>5. ~Open(c)' /\ managed' = managed \ {c}
  BY <1>1 DEF Stop, Shutdown, ManagedWithout, Open, ConnTypes
<1>. QED  BY <1>2, <1>3, <1>4, <1>5, Moved

(* A handler that starts the next operation.                               *)
LEMMA EngagePreserves ==
    ASSUME NEW E, Good(E), ~crashed, NEW c \in Conns, NEW op \in {"read", "write"},
           HasBuffer(c), pending[c] = {}, ready' \in Seq(E), ~Some(OpsOf(c), ready'),
           \A d \in Conns : d # c => Same(d, ready, ready'),
           state' = [state EXCEPT ![c] = IF op = "read" THEN "Reading" ELSE "Writing"],
           timer' = [timer EXCEPT ![c] = op],
           pending' = [pending EXCEPT ![c] = @ \cup {op}],
           response' \in [Conns -> {"none", "ok", "bad"}],
           parser' \in [Conns -> {"start", "mid", "done"}],
           keepAlive' \in [Conns -> BOOLEAN],
           UNCHANGED <<managed, crashed, poolVars>>
    PROVE  Preserved(E)
<1>1. ConnTypes /\ ConnInv(c)
  BY DEF Good
<1>2. Open(c) /\ held' = held /\ pool' = pool /\ \E b \in Buffers : held[c] = {b}
  BY <1>1 DEF ConnInv, OpenInv, HasBuffer, poolVars
<1>3. ConnInv(c)'
  BY <1>1, <1>2, Engaged
<1>4. ConnTypes' /\ OnlyOn(c) /\ Open(c)'
  BY <1>1, <1>2 DEF ConnTypes, OnlyOn, Open
<1>5. ManagedIffOpen => c \in managed
  BY <1>2 DEF ManagedIffOpen
<1>. QED  BY <1>3, <1>4, <1>5, Moved

LEMMA HandleDataPreserves ==
    ASSUME NEW E, Queueable(E), Good(E), NEW c \in Conns, HandleData(c)
    PROVE  Preserved(E)
<1>1. /\ ConnTypes /\ ready \in Seq(E) /\ ConnInv(c) /\ ~crashed
      /\ IsNext(c, "read") /\ HasBuffer(c) /\ ready' = Tail(ready)
      /\ UNCHANGED <<managed, crashed, poolVars>>
  BY DEF Good, HandleData
<1>2. /\ ready' \in Seq(E) /\ ~Some(OpsOf(c), ready') /\ pending[c] = {}
      /\ \A d \in Conns : d # c => Same(d, ready, ready')
  BY <1>1, TakeOp
<1>3. PICK o \in Parsed(c, Head(ready).res) :
         /\ parser' = [parser EXCEPT ![c] = o.at]
         /\ keepAlive' = [keepAlive EXCEPT ![c] = o.keep]
         /\ DoRead(c) \/ (response' = [response EXCEPT ![c] = o.status] /\ DoWrite(c))
  BY DEF HandleData, ReadMore, Answer
<1>4. o.at \in {"start", "mid", "done"} /\ o.keep \in BOOLEAN /\ o.status \in {"ok", "bad"}
  BY <1>3 DEF Parsed, Outcomes
<1>5. /\ parser' \in [Conns -> {"start", "mid", "done"}]
      /\ keepAlive' \in [Conns -> BOOLEAN]
  BY <1>1, <1>3, <1>4 DEF ConnTypes
<1>6. CASE DoRead(c)
  <2>1. response' \in [Conns -> {"none", "ok", "bad"}]
    BY <1>1, <1>6 DEF DoRead, ConnTypes
  <2>2. /\ state' = [state EXCEPT ![c] = IF "read" = "read" THEN "Reading" ELSE "Writing"]
        /\ timer' = [timer EXCEPT ![c] = "read"]
        /\ pending' = [pending EXCEPT ![c] = @ \cup {"read"}]
    BY <1>6 DEF DoRead
  <2>. QED  BY <1>1, <1>2, <1>5, <2>1, <2>2, EngagePreserves
<1>7. CASE response' = [response EXCEPT ![c] = o.status] /\ DoWrite(c)
  <2>1. response' \in [Conns -> {"none", "ok", "bad"}]
    BY <1>1, <1>4, <1>7 DEF ConnTypes
  <2>2. /\ state' = [state EXCEPT ![c] = IF "write" = "read" THEN "Reading" ELSE "Writing"]
        /\ timer' = [timer EXCEPT ![c] = "write"]
        /\ pending' = [pending EXCEPT ![c] = @ \cup {"write"}]
    BY <1>7 DEF DoWrite
  <2>. QED  BY <1>1, <1>2, <1>5, <2>1, <2>2, EngagePreserves
<1>. QED  BY <1>3, <1>6, <1>7

LEMMA HandleReadFailPreserves ==
    ASSUME NEW E, Queueable(E), Good(E), NEW c \in Conns, HandleReadFail(c)
    PROVE  Preserved(E)
<1>1. ready \in Seq(E) /\ ConnInv(c) /\ ~crashed /\ IsNext(c, "read")
  BY DEF Good, HandleReadFail
<1>2. /\ Tail(ready) \in Seq(E) /\ ~Some(OpsOf(c), Tail(ready)) /\ pending[c] = {}
      /\ \A d \in Conns : d # c => Same(d, ready, Tail(ready))
  BY <1>1, TakeOp
<1>3. PICK res \in {"ok", "fail", "aborted"} :
         Stop(c, Append(Tail(ready), Completion(c, "write", res)))
  BY DEF HandleReadFail
<1>. DEFINE e == Completion(c, "write", res)
            q == Append(Tail(ready), e)
<1>4. e \in Of(c)
  BY DEF Of, OpsOf, WriteResults, Completion
<1>5. Stop(c, q) /\ UNCHANGED <<keepAlive, parser, crashed>>
  BY <1>3 DEF HandleReadFail
<1>. HIDE DEF e
<1>6. /\ q \in Seq(E)
      /\ AtMostOne(OpsOf(c), Tail(ready)) => AtMostOne(OpsOf(c), q)
      /\ \A d \in Conns : d # c => Same(d, Tail(ready), q)
  BY <1>2, <1>4, QueueOwn
<1>7. AtMostOne(OpsOf(c), q)
  BY <1>2, <1>6 DEF AtMostOne, Some
<1>8. \A d \in Conns : d # c => Same(d, ready, q)
  BY <1>2, <1>6, SameTwice
<1>. HIDE DEF q
<1>. QED  BY <1>1, <1>2, <1>5, <1>6, <1>7, <1>8, StopPreserves

LEMMA HandleReadAbortedPreserves ==
    ASSUME NEW E, Queueable(E), Good(E), NEW c \in Conns, HandleReadAborted(c)
    PROVE  Preserved(E)
<1>1. /\ ConnTypes /\ ready \in Seq(E) /\ ConnInv(c) /\ ~crashed
      /\ IsNext(c, "read") /\ Head(ready).res = "aborted" /\ ready' = Tail(ready)
      /\ timer' = [timer EXCEPT ![c] = "off"]
      /\ UNCHANGED <<state, keepAlive, parser, response, pending, managed, crashed, poolVars>>
  BY DEF Good, HandleReadAborted
<1>2. /\ ready' \in Seq(E) /\ ~Some(OpsOf(c), ready') /\ state[c] # "Unborn"
      /\ Open(c) => Head(ready) \in Expected(c)
      /\ \A d \in Conns : d # c => Same(d, ready, ready')
  BY <1>1, TakeOp
<1>3. ~Open(c)
  BY <1>1, <1>2 DEF Expected, Completion, ReadResults, WriteResults
<1>4. AtMostOne(OpsOf(c), ready)'
  BY <1>2 DEF AtMostOne, Some
<1>5. ConnInv(c)' /\ ~Open(c)'
  BY <1>1, <1>2, <1>3, <1>4 DEF ConnInv, Open, ConnTypes, poolVars
<1>6. ConnTypes' /\ OnlyOn(c)
  BY <1>1, <1>2 DEF ConnTypes, OnlyOn, poolVars
<1>7. managed' = managed /\ (ManagedIffOpen => c \notin managed)
  BY <1>1, <1>3 DEF ManagedIffOpen
<1>. QED  BY <1>1, <1>2, <1>5, <1>6, <1>7, Moved

LEMMA HandleWrittenPreserves ==
    ASSUME NEW E, Queueable(E), Good(E), NEW c \in Conns,
           HandleWrittenKeep(c) \/ HandleWrittenLast(c)
    PROVE  Preserved(E)
<1>1. ConnTypes /\ ready \in Seq(E) /\ ConnInv(c) /\ ~crashed /\ IsNext(c, "write")
  BY DEF Good, HandleWrittenKeep, HandleWrittenLast
<1>2. /\ Tail(ready) \in Seq(E) /\ ~Some(OpsOf(c), Tail(ready)) /\ pending[c] = {}
      /\ \A d \in Conns : d # c => Same(d, ready, Tail(ready))
  BY <1>1, TakeOp
<1>3. CASE HandleWrittenKeep(c)
  <2>1. /\ response' \in [Conns -> {"none", "ok", "bad"}]
        /\ parser' \in [Conns -> {"start", "mid", "done"}]
        /\ keepAlive' \in [Conns -> BOOLEAN]
    BY <1>1, <1>3 DEF HandleWrittenKeep, DoRead, ConnTypes
  <2>2. /\ state' = [state EXCEPT ![c] = IF "read" = "read" THEN "Reading" ELSE "Writing"]
        /\ timer' = [timer EXCEPT ![c] = "read"]
        /\ pending' = [pending EXCEPT ![c] = @ \cup {"read"}]
        /\ HasBuffer(c) /\ ready' = Tail(ready)
        /\ UNCHANGED <<managed, crashed, poolVars>>
    BY <1>3 DEF HandleWrittenKeep, DoRead
  <2>. QED  BY <1>1, <1>2, <2>1, <2>2, EngagePreserves
<1>4. CASE HandleWrittenLast(c)
  <2>1. Stop(c, Tail(ready)) /\ UNCHANGED <<keepAlive, parser, crashed>>
    BY <1>4 DEF HandleWrittenLast
  <2>2. AtMostOne(OpsOf(c), Tail(ready))
    BY <1>2 DEF AtMostOne, Some
  <2>. QED  BY <1>1, <1>2, <2>1, <2>2, StopPreserves
<1>. QED  BY <1>3, <1>4

LEMMA HandleTimerPreserves ==
    ASSUME NEW E, Queueable(E), Good(E), NEW c \in Conns,
           HandleTimeout(c) \/ HandleStaleTimeout(c)
    PROVE  Preserved(E)
<1>1. ConnTypes /\ ready \in Seq(E) /\ ConnInv(c) /\ ~crashed /\ IsNext(c, "timer")
  BY DEF Good, HandleTimeout, HandleStaleTimeout
<1>2. /\ Tail(ready) \in Seq(E) /\ ready # <<>> /\ Head(ready) \in TimersOf(c)
      /\ \A P \in SUBSET OpsOf(c) : Some(P, Tail(ready)) <=> Some(P, ready)
      /\ AtMostOne(OpsOf(c), Tail(ready)) /\ state[c] # "Unborn"
      /\ \A d \in Conns : d # c => Same(d, ready, Tail(ready))
  BY <1>1, TakeTimer
<1>3. CASE HandleTimeout(c)
  <2>1. Stop(c, Tail(ready)) /\ UNCHANGED <<keepAlive, parser, crashed>>
    BY <1>3 DEF HandleTimeout
  <2>2. pending[c] # {} => ~Some(OpsOf(c), Tail(ready))
    BY <1>1, <1>2 DEF ConnInv, OpenInv
  <2>. QED  BY <1>1, <1>2, <2>1, <2>2, StopPreserves
<1>4. CASE HandleStaleTimeout(c)
  <2>1. /\ ready' = Tail(ready) /\ ~Concerns(c, Head(ready).res)
        /\ UNCHANGED <<connVars, crashed, poolVars>>
    BY <1>4 DEF HandleStaleTimeout
  <2>2. ConnTypes' /\ OnlyOn(c) /\ (Open(c)' <=> Open(c)) /\ managed' = managed
    BY <1>1, <1>2, <2>1 DEF ConnTypes, OnlyOn, Open, connVars, poolVars
  <2>3. Current(c)' = Current(c) /\ Expected(c)' = Expected(c)
    BY <2>1 DEF Current, Expected, Completion, connVars
  <2>4. ASSUME Open(c) PROVE OpenInv(c)'
    <3>. DEFINE e == Completion(c, "timer", Current(c))
    <3>1. Head(ready) \notin {e}
      BY <2>1, <2>4 DEF Concerns, Open, Current, Completion
    <3>. HIDE DEF e
    <3>2. Some({e}, ready) => Some({e}, Tail(ready))
      BY <1>1, <1>2, <3>1, TakeHead
    <3>3. timer[c] = Current(c) \/ Some({e}, Tail(ready))
      BY <1>1, <2>4, <3>2 DEF ConnInv, OpenInv, e
    <3>4. (timer[c] = Current(c) \/ Some({Completion(c, "timer", Current(c))}, ready))'
      BY <2>1, <2>3, <3>3 DEF e, connVars, Completion, Some
    <3>5. (~Some(OpsOf(c) \ Expected(c), ready))'
      <4>1. ~Some(OpsOf(c) \ Expected(c), Tail(ready))
        BY <1>1, <1>2, <2>4 DEF ConnInv, OpenInv
      <4>. QED  BY <2>1, <2>3, <4>1 DEF Some
    <3>6. (pending[c] = {} <=> Some(OpsOf(c), ready))'
      BY <1>1, <1>2, <2>1, <2>4 DEF ConnInv, OpenInv, connVars, Some
    <3>. QED  BY <1>1, <2>1, <2>3, <2>4, <3>4, <3>5, <3>6 DEF ConnInv, OpenInv, connVars, poolVars
  <2>5. ~Open(c) => (pending[c] = {} /\ timer[c] = "off" /\ held[c] = {})'
    BY <1>1, <2>1 DEF ConnInv, connVars, poolVars
  <2>6. (AtMostOne(OpsOf(c), ready) /\ state[c] # "Unborn")'
    BY <1>2, <2>1 DEF connVars, AtMostOne
  <2>7. ConnInv(c)'
    BY <2>2, <2>4, <2>5, <2>6 DEF ConnInv
  <2>8. ManagedIffOpen => (c \in managed' <=> Open(c)')
    BY <1>1, <2>2 DEF ManagedIffOpen
  <2>. QED  BY <1>1, <1>2, <2>1, <2>2, <2>7, <2>8, Moved
<1>. QED  BY <1>3, <1>4

LEMMA HandleClosedPreserves ==
    ASSUME NEW E, Queueable(E), Good(E), NEW c \in Conns,
           HandleDataClosed(c) \/ HandleWrittenClosed(c)
    PROVE  Preserved(E)
<1>1. ConnTypes /\ ready \in Seq(E) /\ ready # <<>> /\ ready' = Tail(ready) /\ crashed'
  BY DEF Good, HandleDataClosed, HandleWrittenClosed, Crash, IsNext
<1>2. ready' \in Seq(E)
  BY <1>1, HeadTailProperties
<1>3. CASE HandleDataClosed(c)
  BY <1>1, <1>2, <1>3, Crashed DEF HandleDataClosed, ConnTypes, connVars, poolVars
<1>4. CASE HandleWrittenClosed(c)
  BY <1>1, <1>2, <1>4, Crashed DEF HandleWrittenClosed, Crash, ConnTypes, poolVars
<1>. QED  BY <1>3, <1>4

LEMMA HandlePreserves ==
    ASSUME NEW E, Queueable(E), Good(E), NEW c \in Conns, Handle(c)
    PROVE  Preserved(E)
BY HandleDataPreserves, HandleClosedPreserves, HandleReadFailPreserves,
   HandleReadAbortedPreserves, HandleWrittenPreserves, HandleTimerPreserves DEF Handle

-----------------------------------------------------------------------------
(* For the connections by themselves nothing else is queued.               *)
LEMMA OwnCompletions == Queueable(Completions)
BY DEF Queueable, Completions, Of, OpsOf, TimersOf

IInv == Good(Completions) /\ ManagedIffOpen

LEMMA GoodInit == Init => ConnTypes /\ ready = <<>> /\ ~crashed /\ \A c \in Conns : ConnInv(c)
<1>. SUFFICES ASSUME Init
              PROVE  ConnTypes /\ ready = <<>> /\ ~crashed /\ \A c \in Conns : ConnInv(c)
  OBVIOUS
<1>1. pool \in Seq(Buffers)
  <2>1. PoolSize \in Nat /\ pool \in [1..PoolSize -> Buffers]
    BY ConnectionAssumption DEF Init, Pool!Init
  <2>. QED  BY <2>1, IsASeq
<1>2. ConnTypes
  BY <1>1 DEF Init, Pool!Init, ConnTypes
<1>3. ASSUME NEW c \in Conns PROVE ConnInv(c)
  BY <1>3, EmptyQueue DEF Init, Pool!Init, ConnInv, Open
<1>. QED  BY <1>2, <1>3 DEF Init

LEMMA InitInv == Init => IInv
<1>. SUFFICES ASSUME Init PROVE IInv
  OBVIOUS
<1>1. Good(Completions)
  BY GoodInit DEF Good
<1>2. ManagedIffOpen
  BY DEF Init, ManagedIffOpen, Open
<1>. QED  BY <1>1, <1>2 DEF IInv

LEMMA NextInv == IInv /\ [Next]_vars => IInv'
<1>. SUFFICES ASSUME IInv, [Next]_vars PROVE IInv'
  OBVIOUS
<1>. DEFINE E == Completions
<1>1. Queueable(E) /\ Good(E)
  BY OwnCompletions DEF IInv
<1>2. ASSUME NEW c \in Conns, Accept(c) PROVE Preserved(E)
  <2>1. ready' = ready /\ Start(c) /\ ~crashed /\ ready' \in Seq(E)
    BY <1>1, <1>2 DEF Accept, Good
  <2>2. \A d \in Conns : Same(d, ready, ready')
    BY <2>1 DEF Same
  <2>. QED  BY <1>1, <1>2, <2>1, <2>2, StartPreserves
<1>3. ASSUME NEW c \in Conns, Expire(c) \/ Handle(c) PROVE Preserved(E)
  BY <1>1, <1>3, ExpirePreserves, HandlePreserves
<1>4. ASSUME NEW c \in Conns,
             \/ \E res \in ReadResults : CompleteRead(c, res)
             \/ \E res \in WriteResults : CompleteWrite(c, res)
      PROVE  Preserved(E)
  BY <1>1, <1>4, CompletePreserves
<1>5. Preserved(E) => IInv'
  BY DEF Preserved, IInv
<1>6. CASE UNCHANGED vars
  <2>1. ConnTypes' /\ ready' \in Seq(E) /\ ManagedIffOpen'
    BY <1>1, <1>6 DEF IInv, Good, vars, connVars, poolVars, ConnTypes, ManagedIffOpen, Open
  <2>2. ASSUME ~crashed, NEW c \in Conns PROVE ConnInv(c)'
    BY <1>1, <1>6, <2>2, Untouched DEF Good, vars, connVars, poolVars, Same
  <2>. QED  BY <1>6, <2>1, <2>2 DEF IInv, Good, vars
<1>. QED  BY <1>2, <1>3, <1>4, <1>5, <1>6 DEF Next

LEMMA InvHolds == Spec => []IInv
<1>. QED  BY InitInv, NextInv, PTL DEF Spec

(* What the queue holds of connection c, by position.                      *)
LEMMA QueuedAre ==
    ASSUME NEW E, Queueable(E), ready \in Seq(E), NEW c \in Conns
    PROVE  /\ \A i \in 1..Len(ready) : i \in QueuedOps(c) <=> ready[i] \in OpsOf(c)
           /\ AtMostOne(OpsOf(c), ready) => \A i, j \in QueuedOps(c) : i = j
           /\ Some(OpsOf(c), ready) <=> QueuedOps(c) # {}
<1>1. \A i \in 1..Len(ready) : ready[i] \in E
  BY ElementOfSeq
<1>2. ASSUME NEW i \in 1..Len(ready)
      PROVE  i \in QueuedOps(c) <=> ready[i] \in OpsOf(c)
  <2>1. ready[i].conn = c => ready[i] \in Of(c)
    BY <1>1 DEF Queueable
  <2>2. ready[i] \in OpsOf(c) => ready[i].conn = c /\ ready[i].op # "timer"
    BY DEF OpsOf
  <2>3. ready[i] \in TimersOf(c) => ready[i].op = "timer"
    BY DEF TimersOf
  <2>. QED  BY <2>1, <2>2, <2>3 DEF QueuedOps, Queued, Of
<1>3. \A i \in QueuedOps(c) : i \in 1..Len(ready)
  BY DEF QueuedOps, Queued
<1>. QED  BY <1>2, <1>3 DEF AtMostOne, Some

(* The members of every connection and the queue keep their types.         *)
THEOREM TypeCorrect == Spec => []TypeOK
<1>1. IInv => TypeOK
  BY DEF IInv, Good, ConnTypes, TypeOK
<1>. QED  BY <1>1, InvHolds, PTL

(* Whatever the peers, the timeouts and the errors do, request_, response_ *)
(* and buffer_ belong to one operation at a time, and an open connection   *)
(* always has one.                                                         *)
LEMMA GoodIsSingle ==
    ASSUME NEW E, Queueable(E), Good(E) PROVE SingleOp
<1>. SUFFICES ASSUME ~crashed, NEW c \in Conns
              PROVE  /\ \A op, other \in pending[c] : op = other
                     /\ \A i, j \in QueuedOps(c) : i = j
                     /\ pending[c] = {} \/ QueuedOps(c) = {}
                     /\ Open(c) => pending[c] # {} \/ QueuedOps(c) # {}
  BY DEF SingleOp
<1>1. ConnInv(c) /\ ready \in Seq(E)
  BY DEF Good
<1>2. /\ AtMostOne(OpsOf(c), ready) => \A i, j \in QueuedOps(c) : i = j
      /\ Some(OpsOf(c), ready) <=> QueuedOps(c) # {}
  BY <1>1, QueuedAre
<1>. QED  BY <1>1, <1>2 DEF ConnInv, OpenInv

THEOREM SingleOpHolds == Spec => []SingleOp
<1>1. IInv => SingleOp
  BY GoodIsSingle, OwnCompletions DEF IInv
<1>. QED  BY <1>1, InvHolds, PTL

(* No operation is ever without a limit: its timer is armed, or the        *)
(* handler that will close the connection is queued.                       *)
LEMMA GoodIsWatched ==
    ASSUME NEW E, Good(E) PROVE OpenIsWatched
<1>. SUFFICES ASSUME ~crashed, NEW c \in Conns, NEW op \in pending[c]
              PROVE  \/ timer[c] = op
                     \/ \E i \in Queued(c) : ready[i] = Completion(c, "timer", op)
  BY DEF OpenIsWatched
<1>1. ConnInv(c)
  BY DEF Good
<1>2. op = Current(c) /\ (timer[c] = op \/ Some({Completion(c, "timer", op)}, ready))
  BY <1>1 DEF ConnInv, OpenInv
<1>3. \A i \in 1..Len(ready) : ready[i] = Completion(c, "timer", op) => i \in Queued(c)
  BY DEF Queued, Completion
<1>. QED  BY <1>2, <1>3 DEF Some

THEOREM WatchedHolds == Spec => []OpenIsWatched
<1>1. IInv => OpenIsWatched
  BY GoodIsWatched DEF IInv
<1>. QED  BY <1>1, InvHolds, PTL

(* The manager has just the connections that are open.                     *)
THEOREM ManagedHolds == Spec => []ManagedIffOpen
<1>1. IInv => ManagedIffOpen
  BY DEF IInv
<1>. QED  BY <1>1, InvHolds, PTL

(* An open connection has one buffer, a closed one has none.               *)
LEMMA GoodHasBuffer ==
    ASSUME NEW E, Good(E) PROVE BufferIffOpen
BY DEF Good, BufferIffOpen, ConnInv, OpenInv

THEOREM BufferHolds == Spec => []BufferIffOpen
<1>1. IInv => BufferIffOpen
  BY GoodHasBuffer DEF IInv
<1>. QED  BY <1>1, InvHolds, PTL

-----------------------------------------------------------------------------
(* The pool that the connections share.                                    *)
LEMMA GiveBackStep ==
    ASSUME ConnTypes, NEW c \in Conns, GiveBack(c)
    PROVE  [Pool!Next]_(Pool!vars)
<1>1. CASE HasBuffer(c)
  <2>1. PICK b \in held[c] : Pool!Release(c, b)
    BY <1>1 DEF GiveBack
  <2>2. b \in Buffers
    BY DEF ConnTypes
  <2>. QED  BY <2>1, <2>2 DEF Pool!Next
<1>2. CASE ~HasBuffer(c)
  BY <1>2 DEF GiveBack, poolVars, Pool!vars
<1>. QED  BY <1>1, <1>2

LEMMA HandleStep ==
    ASSUME ConnTypes, NEW c \in Conns, Handle(c)
    PROVE  [Pool!Next]_(Pool!vars)
<1>1. CASE HandleReadFail(c) \/ HandleWrittenLast(c) \/ HandleTimeout(c)
  <2>1. GiveBack(c)
    BY <1>1 DEF HandleReadFail, HandleWrittenLast, HandleTimeout, Stop, Shutdown
  <2>. QED  BY <2>1, GiveBackStep
<1>2. CASE \/ HandleData(c) \/ HandleDataClosed(c) \/ HandleReadAborted(c)
           \/ HandleWrittenKeep(c) \/ HandleWrittenClosed(c) \/ HandleStaleTimeout(c)
  <2>1. UNCHANGED poolVars
    BY <1>2 DEF HandleData, HandleDataClosed, HandleReadAborted, HandleWrittenKeep,
                HandleWrittenClosed, HandleStaleTimeout
  <2>. QED  BY <2>1 DEF poolVars, Pool!vars
<1>. QED  BY <1>1, <1>2 DEF Handle

(* Seen from the pool, every step of the connections is a call of          *)
(* acquire() or release(), or none: what is proved of BufferPool is true   *)
(* of the pool of the connections.                                         *)
THEOREM PoolRefined == Spec => PoolConforms
<1>1. Init => Pool!Init
  BY DEF Init
<1>2. IInv /\ [Next]_vars => [Pool!Next]_(Pool!vars)
  <2>. SUFFICES ASSUME IInv, [Next]_vars PROVE [Pool!Next]_(Pool!vars)
    OBVIOUS
  <2>1. ASSUME NEW c \in Conns, Accept(c) PROVE Pool!Next
    BY <2>1 DEF Accept, Start, Pool!Next
  <2>2. ASSUME NEW c \in Conns, Handle(c) PROVE [Pool!Next]_(Pool!vars)
    BY <2>2, HandleStep DEF IInv, Good
  <2>3. ASSUME NEW c \in Conns,
               \/ \E res \in ReadResults : CompleteRead(c, res)
               \/ \E res \in WriteResults : CompleteWrite(c, res)
               \/ Expire(c)
        PROVE  UNCHANGED poolVars
    BY <2>3 DEF CompleteRead, CompleteWrite, Expire
  <2>4. UNCHANGED vars => UNCHANGED poolVars
    BY DEF vars
  <2>5. UNCHANGED poolVars => [Pool!Next]_(Pool!vars)
    BY DEF poolVars, Pool!vars
  <2>. QED  BY <2>1, <2>2, <2>3, <2>4, <2>5 DEF Next
<1>. QED  BY <1>1, <1>2, InvHolds, PTL DEF Spec, PoolConforms, Pool!Spec
=============================================================================
