---------------------------- MODULE ServerProofs ----------------------------
(***************************************************************************)
(* Theorems about Server: for any number of connections, any size of the   *)
(* pool and with or without timeouts.  What one connection does is         *)
(* ConnectionProofs, with more in the queue; what the pool does is         *)
(* BufferPoolProofs, instanced.                                            *)
(***************************************************************************)
EXTENDS Server, ConnectionProofs

PoolProofs == INSTANCE BufferPoolProofs
              WITH Clients <- Conns, BufferSize <- 1, InitialLimit <- 0, Limits <- {},
                   MaxFailures <- 0, maxMemory <- 0, failures <- 0

-----------------------------------------------------------------------------
(* The pool of the connections has the parameters BufferPool asks for ...  *)
LEMMA PoolParameters == PoolProofs!Parameters
<1>1. PoolSize <= Cardinality(Buffers)
  BY FS_CardinalityType, ConnectionAssumption
<1>2. PoolSize <= PoolProofs!Cardinality(Buffers)
  BY <1>1 DEF PoolProofs!Cardinality, Cardinality
<1>3. PoolProofs!IsFiniteSet(Buffers)
  BY ConnectionAssumption DEF PoolProofs!IsFiniteSet, IsFiniteSet
<1>. QED  BY <1>2, <1>3, ConnectionAssumption DEF PoolProofs!Parameters

(* ... and its steps are those of BufferPool.                              *)
LEMMA PoolSteps == Pool!Next <=> PoolProofs!Next
BY DEF Pool!Next, PoolProofs!Next, Pool!Acquire, PoolProofs!Acquire,
       Pool!Release, PoolProofs!Release, Pool!SetMaxMemoryLimit, PoolProofs!SetMaxMemoryLimit,
       Pool!AcquirePooled, PoolProofs!AcquirePooled, Pool!AcquireFresh, PoolProofs!AcquireFresh,
       Pool!AcquireThrows, PoolProofs!AcquireThrows, Pool!AcquireRefused, PoolProofs!AcquireRefused,
       Pool!ReleaseKeep, PoolProofs!ReleaseKeep, Pool!ReleaseFree, PoolProofs!ReleaseFree,
       Pool!vars, PoolProofs!vars, Pool!OverLimit, PoolProofs!OverLimit,
       Pool!HasRoom, PoolProofs!HasRoom, Pool!PopBack, PoolProofs!PopBack,
       Pool!CountAfterFree, PoolProofs!CountAfterFree, Pool!Free, PoolProofs!Free,
       Pool!Pooled, PoolProofs!Pooled, Pool!Outstanding, PoolProofs!Outstanding

LEMMA PoolInit == Pool!Init => PoolProofs!IInv
<1>1. Pool!Init => PoolProofs!Init
  BY DEF Pool!Init, PoolProofs!Init
<1>. QED  BY <1>1, PoolParameters, PoolProofs!InitInv

LEMMA PoolKept == PoolProofs!IInv /\ [Pool!Next]_(Pool!vars) => PoolProofs!IInv'
<1>1. [Pool!Next]_(Pool!vars) => [PoolProofs!Next]_(PoolProofs!vars)
  BY PoolSteps DEF Pool!vars, PoolProofs!vars
<1>. QED  BY <1>1, PoolParameters, PoolProofs!NextInv

(* With every buffer given back the pool is full.                          *)
LEMMA PoolFull ==
    ASSUME PoolProofs!IInv, \A c \in Conns : held[c] = {}
    PROVE  Len(pool) = PoolSize
<1>1. PoolProofs!QuiescentPoolFull
  BY PoolParameters, PoolProofs!StockAtRest
<1>2. PoolProofs!Outstanding = {}
  BY DEF PoolProofs!Outstanding
<1>. QED  BY <1>1, <1>2 DEF PoolProofs!QuiescentPoolFull

-----------------------------------------------------------------------------
(* All that can be queued in the server.                                   *)
All == Completions \cup ServerCompletions

Accepts == [conn : {Nobody}, op : {"accept"}, res : {"ok", "fail", "aborted"}]
Signals == [conn : {Nobody}, op : {"signal"}, res : {"HUP", "TERM"}]

LEMMA AllQueueable == Queueable(All)
<1>1. ASSUME NEW e \in All, NEW c \in Conns, e.conn = c PROVE e \in Of(c)
  <2>1. e \notin ServerCompletions
    BY <1>1, ServerAssumption DEF ServerCompletions
  <2>2. PICK d \in Conns : e \in OpsOf(d) \cup TimersOf(d)
    BY <2>1 DEF All, Completions
  <2>3. e.conn = d
    BY <2>2 DEF OpsOf, TimersOf
  <2>. QED  BY <1>1, <2>2, <2>3 DEF Of
<1>. QED  BY <1>1 DEF Queueable, All

LEMMA Apart ==
    ASSUME NEW c \in Conns
    PROVE  /\ \A e \in Of(c) : e \notin ServerCompletions
           /\ \A e \in ServerCompletions : e \notin Of(c) /\ e.conn # c
BY ServerAssumption DEF Of, OpsOf, TimersOf, ServerCompletions

(* A change of the queue from s to t that is of no concern to the acceptor *)
(* and the signal handler.                                                 *)
Beside(s, t) ==
    \A P \in SUBSET ServerCompletions : /\ Some(P, s) <=> Some(P, t)
                                        /\ AtMostOne(P, s) => AtMostOne(P, t)

LEMMA BesideTail ==
    ASSUME NEW s \in Seq(All), s # <<>>, Head(s) \notin ServerCompletions
    PROVE  Beside(s, Tail(s))
<1>. SUFFICES ASSUME NEW P \in SUBSET ServerCompletions
              PROVE  /\ Some(P, s) <=> Some(P, Tail(s))
                     /\ AtMostOne(P, s) => AtMostOne(P, Tail(s))
  BY DEF Beside
<1>. QED  BY TakeHead

LEMMA BesideAppend ==
    ASSUME NEW s \in Seq(All), NEW c \in Conns, NEW e \in Of(c)
    PROVE  Append(s, e) \in Seq(All) /\ Beside(s, Append(s, e))
<1>1. e \in All /\ e \notin ServerCompletions
  BY Apart DEF All, Completions, Of
<1>. SUFFICES ASSUME NEW P \in SUBSET ServerCompletions
              PROVE  /\ Append(s, e) \in Seq(All)
                     /\ Some(P, s) <=> Some(P, Append(s, e))
                     /\ AtMostOne(P, s) => AtMostOne(P, Append(s, e))
  BY <1>1 DEF Beside
<1>. QED  BY <1>1, PutLast

LEMMA BesideTwice ==
    ASSUME NEW s, NEW t, NEW u, Beside(s, t), Beside(t, u)
    PROVE  Beside(s, u)
BY DEF Beside

LEMMA BesideShutdown ==
    ASSUME NEW c \in Conns, ConnInv(c), NEW q \in Seq(All), Shutdown(c, q)
    PROVE  Beside(q, ready')
<1>1. CASE ready' = q
  BY <1>1 DEF Beside
<1>2. CASE \E e \in Of(c) : ready' = Append(q, e)
  BY <1>2, BesideAppend
<1>. QED  BY <1>1, <1>2, ShutQueue, AllQueueable

(* The handlers of a connection are of no concern to them.                 *)
LEMMA BesideHandle ==
    ASSUME Good(All), NEW c \in Conns, Handle(c)
    PROVE  Beside(ready, ready')
<1>1. /\ ready \in Seq(All) /\ ~crashed /\ ready # <<>> /\ Head(ready).conn = c
  BY DEF Good, Handle, HandleData, HandleDataClosed, HandleReadFail, HandleReadAborted,
         HandleWrittenKeep, HandleWrittenClosed, HandleWrittenLast, HandleTimeout,
         HandleStaleTimeout, IsNext
<1>2. ConnInv(c) /\ Tail(ready) \in Seq(All) /\ Head(ready) \notin ServerCompletions
  BY <1>1, Apart, HeadTailProperties DEF Good
<1>3. Beside(ready, Tail(ready))
  BY <1>1, <1>2, BesideTail
<1>4. CASE ready' = Tail(ready)
  BY <1>3, <1>4
<1>5. CASE HandleWrittenLast(c) \/ HandleTimeout(c)
  <2>1. Beside(Tail(ready), ready')
    BY <1>2, <1>5, BesideShutdown DEF HandleWrittenLast, HandleTimeout, Stop
  <2>. QED  BY <1>3, <2>1, BesideTwice
<1>6. CASE HandleReadFail(c)
  <2>1. PICK res \in {"ok", "fail", "aborted"} :
           Shutdown(c, Append(Tail(ready), Completion(c, "write", res)))
    BY <1>6 DEF HandleReadFail, Stop
  <2>. DEFINE e == Completion(c, "write", res)
              q == Append(Tail(ready), e)
  <2>2. e \in Of(c)
    BY DEF Of, OpsOf, WriteResults, Completion
  <2>3. Shutdown(c, q)
    BY <2>1
  <2>. HIDE DEF e
  <2>4. q \in Seq(All) /\ Beside(Tail(ready), q)
    BY <1>2, <2>2, BesideAppend
  <2>. HIDE DEF q
  <2>5. Beside(q, ready')
    BY <1>2, <2>3, <2>4, BesideShutdown
  <2>. QED  BY <1>3, <2>4, <2>5, BesideTwice
<1>. QED  BY <1>4, <1>5, <1>6
     DEF Handle, HandleData, HandleDataClosed, HandleReadAborted, HandleWrittenKeep,
         HandleWrittenClosed, HandleStaleTimeout

-----------------------------------------------------------------------------
(* The inductive invariant.  The acceptor: one accept at a time, in        *)
(* progress or queued, and one always while the acceptor is open.          *)
ServerTypes ==
    /\ mode \in {"loop", "stopping", "joining", "returned"}
    /\ acceptor \in {"open", "closed"}
    /\ accepting \in BOOLEAN /\ watching \in BOOLEAN /\ asked \in BOOLEAN
    /\ toStop \subseteq Conns
    /\ threadPool \in {"running", "joined"}

AcceptInv ==
    /\ AtMostOne(Accepts, ready)
    /\ accepting => ~Some(Accepts, ready)
    /\ acceptor = "open" /\ ~crashed => accepting \/ Some(Accepts, ready)

SignalInv == watching => ~Some(Signals, ready)

(* The shutdown runs only when the acceptor is closed, and a loop that goes*)
(* on with the acceptor closed has had its threads joined.                 *)
ModeInv ==
    /\ crashed => mode = "loop"
    /\ mode # "loop" => acceptor = "closed"
    /\ acceptor = "closed" => mode \in {"stopping", "joining"} \/ threadPool = "joined"

ServerInv ==
    /\ Good(All) /\ PoolProofs!IInv /\ ServerTypes
    /\ AcceptInv /\ SignalInv /\ ModeInv
    /\ ManagerAgrees /\ CleanReturn

LEMMA ServerInitInv == ServerInit => ServerInv
<1>. SUFFICES ASSUME ServerInit PROVE ServerInv
  OBVIOUS
<1>1. Good(All)
  BY GoodInit DEF ServerInit, Good
<1>2. PoolProofs!IInv
  BY PoolInit DEF ServerInit, Init
<1>3. ServerTypes /\ ModeInv
  BY DEF ServerInit, Init, ServerTypes, ModeInv
<1>4. AcceptInv /\ SignalInv
  BY EmptyQueue DEF ServerInit, Init, AcceptInv, SignalInv
<1>5. ManagerAgrees /\ CleanReturn
  BY DEF ServerInit, Init, ManagerAgrees, CleanReturn, Open
<1>. QED  BY <1>1, <1>2, <1>3, <1>4, <1>5 DEF ServerInv

-----------------------------------------------------------------------------
(* An action of a connection while the loop runs.                          *)
LEMMA ServedPreserves ==
    ASSUME ServerInv, InLoop, Preserved(All), [Pool!Next]_(Pool!vars),
           Beside(ready, ready'), UNCHANGED serverVars
    PROVE  ServerInv'
<1>1. Good(All)' /\ PoolProofs!IInv' /\ ServerTypes' /\ mode = "loop" /\ mode' = "loop"
  BY PoolKept DEF Preserved, ServerInv, ServerTypes, serverVars, InLoop
<1>2. /\ Some(Accepts, ready) <=> Some(Accepts, ready')
      /\ AtMostOne(Accepts, ready) => AtMostOne(Accepts, ready')
      /\ Some(Signals, ready) <=> Some(Signals, ready')
  BY DEF Beside, Accepts, Signals, ServerCompletions
<1>3. AcceptInv'
  <2>1. AtMostOne(Accepts, ready) /\ (accepting => ~Some(Accepts, ready))
        /\ (acceptor = "open" => accepting \/ Some(Accepts, ready))
    BY DEF ServerInv, AcceptInv, InLoop
  <2>. QED  BY <1>2, <2>1 DEF AcceptInv, serverVars, Some, AtMostOne
<1>4. SignalInv'
  BY <1>2 DEF ServerInv, SignalInv, serverVars, Some
<1>5. ModeInv'
  BY <1>1 DEF ServerInv, ModeInv, serverVars
<1>6. ManagerAgrees' /\ CleanReturn'
  <2>1. ManagedIffOpen
    BY <1>1 DEF ServerInv, ManagerAgrees, ManagedIffOpen
  <2>. QED  BY <1>1, <2>1 DEF Preserved, ManagerAgrees, ManagedIffOpen, CleanReturn
<1>. QED  BY <1>1, <1>3, <1>4, <1>5, <1>6 DEF ServerInv

LEMMA ServeActions ==
    ASSUME ServerInv, NEW c \in Conns,
           \/ \E res \in ReadResults : ServeCompleteRead(c, res)
           \/ \E res \in WriteResults : ServeCompleteWrite(c, res)
           \/ ServeExpire(c) \/ ServeHandle(c)
    PROVE  ServerInv'
<1>1. Good(All) /\ Queueable(All) /\ ready \in Seq(All) /\ ConnTypes
  BY AllQueueable DEF ServerInv, Good
<1>2. ASSUME \/ \E res \in ReadResults : ServeCompleteRead(c, res)
             \/ \E res \in WriteResults : ServeCompleteWrite(c, res)
             \/ ServeExpire(c)
      PROVE  ServerInv'
  <2>1. Preserved(All)
    BY <1>1, <1>2, CompletePreserves, ExpirePreserves
       DEF ServeCompleteRead, ServeCompleteWrite, ServeExpire
  <2>2. \E e \in Of(c) : ready' = Append(ready, e)
    <3>1. CASE ServeExpire(c)
      <4>1. timer[c] \in {"read", "write"}
        BY <1>1, <3>1 DEF ServeExpire, Expire, ConnTypes
      <4>. QED  BY <3>1, <4>1 DEF ServeExpire, Expire, Of, TimersOf, Completion
    <3>2. ASSUME NEW res \in ReadResults, ServeCompleteRead(c, res)
          PROVE  \E e \in Of(c) : ready' = Append(ready, e)
      BY <3>2 DEF ServeCompleteRead, CompleteRead, Of, OpsOf, Completion
    <3>3. ASSUME NEW res \in WriteResults, ServeCompleteWrite(c, res)
          PROVE  \E e \in Of(c) : ready' = Append(ready, e)
      BY <3>3 DEF ServeCompleteWrite, CompleteWrite, Of, OpsOf, Completion
    <3>. QED  BY <1>2, <3>1, <3>2, <3>3
  <2>3. Beside(ready, ready')
    BY <1>1, <2>2, BesideAppend
  <2>4. UNCHANGED poolVars /\ InLoop /\ UNCHANGED serverVars
    BY <1>2 DEF ServeCompleteRead, ServeCompleteWrite, ServeExpire, CompleteRead,
                CompleteWrite, Expire
  <2>5. [Pool!Next]_(Pool!vars)
    BY <2>4 DEF poolVars, Pool!vars
  <2>. QED  BY <2>1, <2>3, <2>4, <2>5, ServedPreserves
<1>3. ASSUME ServeHandle(c) PROVE ServerInv'
  <2>1. InLoop /\ Handle(c) /\ UNCHANGED serverVars
    BY <1>3 DEF ServeHandle
  <2>. QED  BY <1>1, <2>1, HandlePreserves, HandleStep, BesideHandle, ServedPreserves
<1>. QED  BY <1>2, <1>3

-----------------------------------------------------------------------------
(* An action that is of no concern to the connections.                     *)
LEMMA Aside ==
    ASSUME Good(All), UNCHANGED <<state, keepAlive, parser, response, pending, timer>>,
           managed' \subseteq managed, UNCHANGED <<crashed, poolVars>>, ready' \in Seq(All),
           \A c \in Conns : Same(c, ready, ready')
    PROVE  Good(All)' /\ \A c \in Conns : Open(c)' <=> Open(c)
<1>1. ConnTypes'
  BY DEF Good, ConnTypes, poolVars
<1>2. ASSUME ~crashed, NEW c \in Conns PROVE ConnInv(c)'
  BY <1>2, Untouched DEF Good, poolVars
<1>. QED  BY <1>1, <1>2 DEF Good, Open

(* A handler of the acceptor or of the signal handler begins.              *)
LEMMA TakeOther ==
    ASSUME ready \in Seq(All), NEW op \in {"accept", "signal"}, IsNext(Nobody, op)
    PROVE  /\ ready # <<>> /\ Tail(ready) \in Seq(All)
           /\ Head(ready) \in IF op = "accept" THEN Accepts ELSE Signals
           /\ \A c \in Conns : Same(c, ready, Tail(ready))
<1>1. ready # <<>> /\ Head(ready).conn = Nobody /\ Head(ready).op = op
  BY DEF IsNext
<1>2. Head(ready) \in All /\ Tail(ready) \in Seq(All)
  BY <1>1, HeadTailProperties
<1>3. Head(ready) \notin Completions
  BY <1>1, ServerAssumption DEF Completions, OpsOf, TimersOf
<1>4. Head(ready) \in IF op = "accept" THEN Accepts ELSE Signals
  BY <1>1, <1>2, <1>3 DEF All, ServerCompletions, Accepts, Signals
<1>5. ASSUME NEW c \in Conns PROVE Same(c, ready, Tail(ready))
  <2>1. Head(ready) \notin Of(c)
    BY <1>1, ServerAssumption DEF Of, OpsOf, TimersOf
  <2>. QED  BY <1>1, <2>1, SameTail
<1>. QED  BY <1>1, <1>2, <1>4, <1>5

LEMMA PutOther ==
    ASSUME NEW q \in Seq(All), NEW e \in ServerCompletions
    PROVE  /\ Append(q, e) \in Seq(All)
           /\ \A c \in Conns : Same(c, q, Append(q, e))
           /\ \A P : Some(P, Append(q, e)) <=> Some(P, q) \/ e \in P
           /\ \A P : AtMostOne(P, q) /\ (e \notin P \/ ~Some(P, q)) => AtMostOne(P, Append(q, e))
<1>1. e \in All /\ \A c \in Conns : e \notin Of(c)
  BY Apart DEF All
<1>. QED  BY <1>1, SameAppend, PutLast

LEMMA AcceptNotSignal == Accepts \cap Signals = {} /\ Accepts \cup Signals = ServerCompletions
BY DEF Accepts, Signals, ServerCompletions

LEMMA CompleteAcceptPreserves ==
    ASSUME ServerInv, NEW res \in {"ok", "fail"}, CompleteAccept(res)
    PROVE  ServerInv'
<1>. DEFINE e == Completion(Nobody, "accept", res)
<1>1. /\ Good(All) /\ ready \in Seq(All) /\ InLoop /\ accepting /\ ready' = Append(ready, e)
      /\ UNCHANGED <<state, keepAlive, parser, response, pending, timer>>
      /\ UNCHANGED <<managed, crashed, poolVars, mode, acceptor, watching, toStop, threadPool, asked>>
      /\ accepting' = FALSE
  BY DEF ServerInv, Good, CompleteAccept, connVars
<1>2. e \in Accepts /\ e \notin Signals /\ e \in ServerCompletions
  BY DEF Accepts, Signals, ServerCompletions, Completion
<1>. HIDE DEF e
<1>3. /\ ready' \in Seq(All)
      /\ \A c \in Conns : Same(c, ready, ready')
      /\ \A P : Some(P, ready') <=> Some(P, ready) \/ e \in P
      /\ \A P : AtMostOne(P, ready) /\ (e \notin P \/ ~Some(P, ready)) => AtMostOne(P, ready')
  BY <1>1, <1>2, PutOther
<1>4. Good(All)' /\ \A c \in Conns : Open(c)' <=> Open(c)
  BY <1>1, <1>3, Aside
<1>5. PoolProofs!IInv'
  BY <1>1, PoolKept DEF ServerInv, poolVars, Pool!vars
<1>6. ServerTypes' /\ ModeInv'
  BY <1>1 DEF ServerInv, ServerTypes, ModeInv
<1>7. AcceptInv'
  BY <1>1, <1>2, <1>3 DEF ServerInv, AcceptInv, Some, AtMostOne
<1>8. SignalInv'
  BY <1>1, <1>2, <1>3 DEF ServerInv, SignalInv, Some
<1>9. ManagerAgrees' /\ CleanReturn'
  BY <1>1, <1>4 DEF ServerInv, ManagerAgrees, CleanReturn, InLoop
<1>. QED  BY <1>4, <1>5, <1>6, <1>7, <1>8, <1>9 DEF ServerInv

LEMMA HandleAcceptPreserves ==
    ASSUME ServerInv, NEW c \in Conns, HandleAccept(c)
    PROVE  ServerInv'
<1>1. /\ Good(All) /\ ready \in Seq(All) /\ InLoop /\ IsNext(Nobody, "accept") /\ Start(c)
      /\ ready' = Tail(ready) /\ accepting' /\ acceptor = "open" /\ ManagedIffOpen
      /\ UNCHANGED <<mode, acceptor, watching, toStop, threadPool, asked>>
  BY DEF ServerInv, Good, HandleAccept, Rearmed, MayAccept, ManagerAgrees, ManagedIffOpen, InLoop
<1>2. /\ ready # <<>> /\ Tail(ready) \in Seq(All) /\ Head(ready) \in Accepts
      /\ \A d \in Conns : Same(d, ready, Tail(ready))
  BY <1>1, TakeOther
<1>3. Preserved(All)
  BY <1>1, <1>2, StartPreserves DEF InLoop
<1>4. PoolProofs!IInv'
  <2>1. Pool!Next
    BY <1>1 DEF Start, Pool!Next
  <2>. QED  BY <2>1, PoolKept DEF ServerInv
<1>5. ServerTypes' /\ ModeInv' /\ mode' = "loop" /\ crashed' = crashed
  BY <1>1 DEF ServerInv, ServerTypes, ModeInv, Start, InLoop
<1>6. AcceptInv'
  <2>1. AtMostOne(Accepts, ready)
    BY DEF ServerInv, AcceptInv
  <2>2. ~Some(Accepts, Tail(ready)) /\ AtMostOne(Accepts, Tail(ready))
    BY <1>1, <1>2, <2>1, TakeHead
  <2>. QED  BY <1>1, <2>2 DEF AcceptInv, Some, AtMostOne
<1>7. SignalInv'
  <2>1. Some(Signals, Tail(ready)) => Some(Signals, ready)
    BY <1>1, <1>2, TakeHead
  <2>. QED  BY <1>1, <2>1 DEF ServerInv, SignalInv, Some
<1>8. ManagerAgrees' /\ CleanReturn'
  BY <1>1, <1>3, <1>5 DEF Preserved, ManagerAgrees, ManagedIffOpen, CleanReturn
<1>. QED  BY <1>3, <1>4, <1>5, <1>6, <1>7, <1>8 DEF ServerInv, Preserved

LEMMA HandleAcceptEndPreserves ==
    ASSUME ServerInv, HandleAcceptError \/ HandleAcceptClosed
    PROVE  ServerInv'
<1>1. /\ Good(All) /\ ready \in Seq(All) /\ InLoop /\ IsNext(Nobody, "accept")
      /\ UNCHANGED <<state, keepAlive, parser, response, pending, timer>>
      /\ UNCHANGED <<managed, crashed, poolVars, mode, acceptor, watching, toStop, threadPool, asked>>
      /\ ready' = Tail(ready) /\ accepting' \in BOOLEAN
      /\ acceptor = "open" => accepting'
      /\ acceptor # "open" => accepting' = accepting
  BY DEF ServerInv, Good, ServerTypes, HandleAcceptError, HandleAcceptClosed, MayAccept, Rearmed,
         connVars, serverVars
<1>2. /\ ready # <<>> /\ Tail(ready) \in Seq(All) /\ Head(ready) \in Accepts
      /\ \A d \in Conns : Same(d, ready, Tail(ready))
  BY <1>1, TakeOther
<1>3. Good(All)' /\ \A c \in Conns : Open(c)' <=> Open(c)
  BY <1>1, <1>2, Aside
<1>4. PoolProofs!IInv'
  BY <1>1, PoolKept DEF ServerInv, poolVars, Pool!vars
<1>5. ServerTypes' /\ ModeInv'
  BY <1>1 DEF ServerInv, ServerTypes, ModeInv
<1>6. AcceptInv'
  <2>1. AtMostOne(Accepts, ready) /\ (accepting => ~Some(Accepts, ready))
    BY DEF ServerInv, AcceptInv
  <2>2. ~Some(Accepts, Tail(ready)) /\ AtMostOne(Accepts, Tail(ready))
    BY <1>1, <1>2, <2>1, TakeHead
  <2>. QED  BY <1>1, <2>2 DEF AcceptInv, Some, AtMostOne
<1>7. SignalInv'
  <2>1. Some(Signals, Tail(ready)) => Some(Signals, ready)
    BY <1>1, <1>2, TakeHead
  <2>. QED  BY <1>1, <2>1 DEF ServerInv, SignalInv, Some
<1>8. ManagerAgrees' /\ CleanReturn'
  BY <1>1, <1>3 DEF ServerInv, ManagerAgrees, CleanReturn, InLoop
<1>. QED  BY <1>3, <1>4, <1>5, <1>6, <1>7, <1>8 DEF ServerInv

LEMMA RaisePreserves ==
    ASSUME ServerInv, NEW sig \in {"HUP", "TERM"}, Raise(sig)
    PROVE  ServerInv'
<1>. DEFINE e == Completion(Nobody, "signal", sig)
<1>1. /\ Good(All) /\ ready \in Seq(All) /\ InLoop
      /\ ready' = IF watching THEN Append(ready, e) ELSE ready
      /\ UNCHANGED <<state, keepAlive, parser, response, pending, timer>>
      /\ UNCHANGED <<managed, crashed, poolVars, mode, acceptor, accepting, toStop, threadPool>>
      /\ watching' = FALSE /\ asked' \in BOOLEAN
  BY DEF ServerInv, Good, ServerTypes, Raise, WatchingAfter, connVars
<1>2. e \notin Accepts /\ e \in ServerCompletions
  BY DEF Accepts, ServerCompletions, Completion
<1>. HIDE DEF e
<1>3. /\ ready' \in Seq(All)
      /\ \A c \in Conns : Same(c, ready, ready')
      /\ Some(Accepts, ready') <=> Some(Accepts, ready)
      /\ AtMostOne(Accepts, ready) => AtMostOne(Accepts, ready')
  <2>1. CASE watching
    BY <1>1, <1>2, <2>1, PutOther
  <2>2. CASE ~watching
    BY <1>1, <2>2 DEF Same
  <2>. QED  BY <2>1, <2>2
<1>4. Good(All)' /\ \A c \in Conns : Open(c)' <=> Open(c)
  BY <1>1, <1>3, Aside
<1>5. PoolProofs!IInv'
  BY <1>1, PoolKept DEF ServerInv, poolVars, Pool!vars
<1>6. ServerTypes' /\ ModeInv' /\ SignalInv'
  BY <1>1 DEF ServerInv, ServerTypes, ModeInv, SignalInv
<1>7. AcceptInv'
  BY <1>1, <1>3 DEF ServerInv, AcceptInv, Some, AtMostOne
<1>8. ManagerAgrees' /\ CleanReturn'
  BY <1>1, <1>4 DEF ServerInv, ManagerAgrees, CleanReturn, InLoop
<1>. QED  BY <1>4, <1>5, <1>6, <1>7, <1>8 DEF ServerInv

LEMMA HandleReloadPreserves ==
    ASSUME ServerInv, HandleReload
    PROVE  ServerInv'
<1>1. /\ Good(All) /\ ready \in Seq(All) /\ InLoop /\ IsNext(Nobody, "signal")
      /\ ready' = Tail(ready)
      /\ UNCHANGED <<state, keepAlive, parser, response, pending, timer>>
      /\ UNCHANGED <<managed, crashed, poolVars>> /\ UNCHANGED serverVars
  BY DEF ServerInv, Good, HandleReload, connVars
<1>2. /\ ready # <<>> /\ Tail(ready) \in Seq(All) /\ Head(ready) \in Signals
      /\ \A d \in Conns : Same(d, ready, Tail(ready))
  BY <1>1, TakeOther
<1>3. Good(All)' /\ \A c \in Conns : Open(c)' <=> Open(c)
  BY <1>1, <1>2, Aside
<1>4. PoolProofs!IInv'
  BY <1>1, PoolKept DEF ServerInv, poolVars, Pool!vars
<1>5. ServerTypes' /\ ModeInv'
  BY <1>1 DEF ServerInv, ServerTypes, ModeInv, serverVars
<1>6. AcceptInv' /\ SignalInv'
  <2>1. /\ Some(Accepts, Tail(ready)) <=> Some(Accepts, ready)
        /\ AtMostOne(Accepts, ready) => AtMostOne(Accepts, Tail(ready))
        /\ Some(Signals, Tail(ready)) => Some(Signals, ready)
    BY <1>1, <1>2, AcceptNotSignal, TakeHead
  <2>. QED  BY <1>1, <2>1 DEF ServerInv, AcceptInv, SignalInv, serverVars, Some, AtMostOne
<1>7. ManagerAgrees' /\ CleanReturn'
  BY <1>1, <1>3 DEF ServerInv, ManagerAgrees, CleanReturn, InLoop, serverVars
<1>. QED  BY <1>3, <1>4, <1>5, <1>6, <1>7 DEF ServerInv

LEMMA HandleShutdownPreserves ==
    ASSUME ServerInv, HandleShutdown
    PROVE  ServerInv'
<1>. DEFINE e == Completion(Nobody, "accept", "aborted")
<1>1. /\ Good(All) /\ ready \in Seq(All) /\ InLoop /\ IsNext(Nobody, "signal")
      /\ ready' = IF accepting THEN Append(Tail(ready), e) ELSE Tail(ready)
      /\ UNCHANGED <<state, keepAlive, parser, response, pending, timer>>
      /\ UNCHANGED <<managed, crashed, poolVars, watching, threadPool, asked>>
      /\ mode' = "stopping" /\ acceptor' = "closed" /\ accepting' = FALSE /\ toStop' = managed
  BY DEF ServerInv, Good, HandleShutdown, StopSet, connVars
<1>2. /\ ready # <<>> /\ Tail(ready) \in Seq(All) /\ Head(ready) \in Signals
      /\ \A d \in Conns : Same(d, ready, Tail(ready))
  BY <1>1, TakeOther
<1>3. e \in Accepts /\ e \notin Signals /\ e \in ServerCompletions
  BY DEF Accepts, Signals, ServerCompletions, Completion
<1>. HIDE DEF e
<1>4. /\ Some(Accepts, Tail(ready)) <=> Some(Accepts, ready)
      /\ AtMostOne(Accepts, ready) => AtMostOne(Accepts, Tail(ready))
      /\ Some(Signals, Tail(ready)) => Some(Signals, ready)
  BY <1>1, <1>2, AcceptNotSignal, TakeHead
<1>5. /\ ready' \in Seq(All) /\ \A d \in Conns : Same(d, ready, ready')
      /\ AtMostOne(Accepts, ready) /\ (accepting => ~Some(Accepts, ready)) => AtMostOne(Accepts, ready')
      /\ Some(Signals, ready') => Some(Signals, ready)
  <2>1. CASE accepting
    <3>1. /\ ready' \in Seq(All)
          /\ \A d \in Conns : Same(d, Tail(ready), ready')
          /\ AtMostOne(Accepts, Tail(ready)) /\ ~Some(Accepts, Tail(ready)) => AtMostOne(Accepts, ready')
          /\ Some(Signals, ready') => Some(Signals, Tail(ready))
      BY <1>1, <1>2, <1>3, <2>1, PutOther
    <3>. QED  BY <1>2, <1>4, <2>1, <3>1, SameTwice
  <2>2. CASE ~accepting
    BY <1>1, <1>2, <1>4, <2>2
  <2>. QED  BY <2>1, <2>2
<1>6. Good(All)' /\ \A c \in Conns : Open(c)' <=> Open(c)
  BY <1>1, <1>5, Aside
<1>7. PoolProofs!IInv'
  BY <1>1, PoolKept DEF ServerInv, poolVars, Pool!vars
<1>8. ServerTypes' /\ ModeInv'
  <2>1. managed \subseteq Conns /\ ~crashed
    BY <1>1 DEF Good, ConnTypes, InLoop
  <2>. QED  BY <1>1, <2>1 DEF ServerInv, ServerTypes, ModeInv
<1>9. AcceptInv' /\ SignalInv'
  BY <1>1, <1>5 DEF ServerInv, AcceptInv, SignalInv, Some, AtMostOne
<1>10. ManagerAgrees' /\ CleanReturn'
  BY <1>1, <1>6 DEF ServerInv, ManagerAgrees, CleanReturn, InLoop
<1>. QED  BY <1>6, <1>7, <1>8, <1>9, <1>10 DEF ServerInv

LEMMA StopNextPreserves ==
    ASSUME ServerInv, NEW c \in Conns, StopNext(c)
    PROVE  ServerInv'
<1>1. /\ Good(All) /\ ConnTypes /\ ready \in Seq(All) /\ ~crashed /\ ConnInv(c)
      /\ mode = "stopping" /\ c \in toStop /\ Shutdown(c, ready) /\ toStop' = toStop \ {c}
      /\ UNCHANGED <<keepAlive, parser, managed, crashed, mode, acceptor, accepting, watching,
                     threadPool, asked>>
  BY DEF ServerInv, Good, ModeInv, StopNext
<1>2. /\ ready' \in Seq(All) /\ ConnInv(c)'
      /\ \A d \in Conns : d # c => Same(d, ready, ready') /\ held'[d] = held[d]
      /\ held' \in [Conns -> SUBSET Buffers] /\ pool' \in Seq(Buffers)
  <2>1. AtMostOne(OpsOf(c), ready) /\ (pending[c] # {} => ~Some(OpsOf(c), ready))
    BY <1>1 DEF ConnInv, OpenInv
  <2>. QED  BY <1>1, <2>1, ShutDown, AllQueueable
<1>3. ConnTypes'
  BY <1>1, <1>2 DEF ConnTypes, Shutdown, NotClosed
<1>4. ASSUME NEW d \in Conns, d # c PROVE ConnInv(d)' /\ (Open(d)' <=> Open(d))
  <2>1. /\ state'[d] = state[d] /\ pending'[d] = pending[d]
        /\ timer'[d] = timer[d] /\ held'[d] = held[d]
    BY <1>1, <1>2, <1>4 DEF ConnTypes, Shutdown
  <2>2. ConnInv(d) /\ Same(d, ready, ready')
    BY <1>1, <1>2, <1>4 DEF Good
  <2>. QED  BY <2>1, <2>2, Untouched DEF Open
<1>5. Good(All)' /\ ~Open(c)'
  BY <1>1, <1>2, <1>3, <1>4 DEF Good, Shutdown, ConnTypes, Open
<1>6. PoolProofs!IInv'
  BY <1>1, GiveBackStep, PoolKept DEF ServerInv, Shutdown
<1>7. ServerTypes' /\ ModeInv'
  BY <1>1 DEF ServerInv, ServerTypes, ModeInv
<1>8. Beside(ready, ready')
  BY <1>1, BesideShutdown
<1>9. AcceptInv' /\ SignalInv'
  <2>1. /\ Some(Accepts, ready) <=> Some(Accepts, ready')
        /\ AtMostOne(Accepts, ready) => AtMostOne(Accepts, ready')
        /\ Some(Signals, ready) <=> Some(Signals, ready')
    BY <1>8 DEF Beside, Accepts, Signals, ServerCompletions
  <2>. QED  BY <1>1, <2>1 DEF ServerInv, AcceptInv, SignalInv, Some, AtMostOne
<1>10. ManagerAgrees' /\ CleanReturn'
  <2>1. toStop = {d \in Conns : Open(d)} /\ toStop \subseteq managed
    BY <1>1 DEF ServerInv, ManagerAgrees
  <2>2. toStop' = {d \in Conns : Open(d)'} /\ toStop' \subseteq managed'
    BY <1>1, <1>4, <1>5, <2>1
  <2>. QED  BY <1>1, <2>2 DEF ManagerAgrees, CleanReturn
<1>. QED  BY <1>5, <1>6, <1>7, <1>9, <1>10 DEF ServerInv

LEMMA StoppedPreserves ==
    ASSUME ServerInv, StopAllReturns \/ JoinThreads
    PROVE  ServerInv'
<1>1. /\ Good(All) /\ ready' = ready /\ ready \in Seq(All)
      /\ UNCHANGED <<state, keepAlive, parser, response, pending, timer>>
      /\ UNCHANGED <<crashed, poolVars, acceptor, accepting, watching, toStop, asked>>
      /\ \/ /\ mode = "stopping" /\ toStop = {} /\ managed' = {} /\ mode' = "joining"
            /\ threadPool' = threadPool
         \/ /\ mode = "joining" /\ mode' = "loop" /\ threadPool' = "joined" /\ managed' = managed
  BY DEF ServerInv, Good, StopAllReturns, JoinThreads, Joined, connVars
<1>2. Good(All)' /\ \A c \in Conns : Open(c)' <=> Open(c)
  <2>1. \A c \in Conns : Same(c, ready, ready')
    BY <1>1 DEF Same
  <2>. QED  BY <1>1, <2>1, Aside
<1>3. PoolProofs!IInv'
  BY <1>1, PoolKept DEF ServerInv, poolVars, Pool!vars
<1>4. ServerTypes' /\ ModeInv' /\ SignalInv'
  BY <1>1 DEF ServerInv, ServerTypes, ModeInv, SignalInv, Some
<1>5. AcceptInv'
  BY <1>1 DEF ServerInv, AcceptInv, Some, AtMostOne
<1>6. ManagerAgrees' /\ CleanReturn'
  BY <1>1, <1>2 DEF ServerInv, ManagerAgrees, CleanReturn
<1>. QED  BY <1>2, <1>3, <1>4, <1>5, <1>6 DEF ServerInv

(* run() returns: no operation is in progress and no handler queued, so    *)
(* that no connection can be open, nor the acceptor.                       *)
LEMMA ReturnIsClean ==
    ASSUME ServerInv, Return
    PROVE  /\ acceptor = "closed" /\ threadPool = "joined"
           /\ \A c \in Conns : ~Open(c) /\ ~HasBuffer(c) /\ ~Referenced(c)
           /\ Len(pool) = PoolSize
<1>1. /\ Good(All) /\ ~crashed /\ mode = "loop" /\ ready = <<>> /\ ~accepting
      /\ \A c \in Conns : pending[c] = {} /\ timer[c] = "off"
  BY DEF ServerInv, Return, InLoop, NoWork
<1>2. \A P : ~Some(P, ready)
  BY <1>1, EmptyQueue
<1>3. ASSUME NEW c \in Conns PROVE ~Open(c) /\ held[c] = {}
  BY <1>1, <1>2 DEF Good, ConnInv, OpenInv
<1>4. acceptor = "closed" /\ threadPool = "joined"
  BY <1>1, <1>2 DEF ServerInv, ServerTypes, AcceptInv, ModeInv
<1>5. managed = {}
  BY <1>1, <1>3 DEF ServerInv, ManagerAgrees
<1>6. ASSUME NEW c \in Conns PROVE ~Referenced(c)
  <2>1. Queued(c) = {}
    BY <1>1 DEF Queued
  <2>. QED  BY <1>1, <1>5, <2>1 DEF Referenced
<1>7. Len(pool) = PoolSize
  BY <1>3, PoolFull DEF ServerInv
<1>. QED  BY <1>3, <1>4, <1>6, <1>7 DEF HasBuffer

LEMMA QuietPreserves ==
    ASSUME ServerInv, UNCHANGED <<vars, acceptor, accepting, watching, toStop, threadPool, asked>>,
           mode' = mode \/ Return
    PROVE  ServerInv'
<1>. USE DEF vars, connVars, poolVars
<1>1. Good(All)' /\ \A c \in Conns : Open(c)' <=> Open(c)
  <2>1. \A c \in Conns : Same(c, ready, ready')
    BY DEF Same
  <2>2. ready' \in Seq(All)
    BY DEF ServerInv, Good
  <2>. QED  BY <2>1, <2>2, Aside DEF ServerInv
<1>2. PoolProofs!IInv'
  BY PoolKept DEF ServerInv, Pool!vars
<1>3. ServerTypes' /\ ModeInv' /\ SignalInv' /\ AcceptInv'
  <2>1. Return => mode' = "returned" /\ acceptor = "closed" /\ threadPool = "joined" /\ ~crashed
    BY ReturnIsClean DEF Return, InLoop
  <2>. QED  BY <2>1 DEF ServerInv, ServerTypes, ModeInv, SignalInv, AcceptInv, Some, AtMostOne
<1>4. ManagerAgrees'
  <2>1. Return => mode = "loop" /\ mode' = "returned"
    BY DEF Return, InLoop
  <2>. QED  BY <1>1, <2>1 DEF ServerInv, ManagerAgrees
<1>5. CleanReturn'
  <2>1. CASE Return
    BY <1>1, <2>1, ReturnIsClean DEF CleanReturn, HasBuffer, Referenced, Queued
  <2>2. CASE mode' = mode
    BY <1>1, <2>2 DEF ServerInv, CleanReturn, HasBuffer, Referenced, Queued
  <2>. QED  BY <2>1, <2>2
<1>. QED  BY <1>1, <1>2, <1>3, <1>4, <1>5 DEF ServerInv

LEMMA ServerNextInv == ServerInv /\ [ServerNext]_allVars => ServerInv'
<1>. SUFFICES ASSUME ServerInv, [ServerNext]_allVars PROVE ServerInv'
  OBVIOUS
<1>1. CASE UNCHANGED allVars
  BY <1>1, QuietPreserves DEF allVars, serverVars
<1>2. CASE \E c \in Conns :
             \/ \E res \in ReadResults : ServeCompleteRead(c, res)
             \/ \E res \in WriteResults : ServeCompleteWrite(c, res)
             \/ ServeExpire(c) \/ ServeHandle(c)
  BY <1>2, ServeActions
<1>3. CASE \/ \E res \in {"ok", "fail"} : CompleteAccept(res)
           \/ \E c \in Conns : HandleAccept(c)
           \/ HandleAcceptError \/ HandleAcceptClosed
  BY <1>3, CompleteAcceptPreserves, HandleAcceptPreserves, HandleAcceptEndPreserves
<1>4. CASE \/ \E sig \in {"HUP", "TERM"} : Raise(sig)
           \/ HandleReload \/ HandleShutdown
  BY <1>4, RaisePreserves, HandleReloadPreserves, HandleShutdownPreserves
<1>5. CASE \/ \E c \in Conns : StopNext(c)
           \/ StopAllReturns \/ JoinThreads
  BY <1>5, StopNextPreserves, StoppedPreserves
<1>6. CASE Return
  BY <1>6, QuietPreserves DEF Return
<1>. QED  BY <1>1, <1>2, <1>3, <1>4, <1>5, <1>6 DEF ServerNext, ServerHandle

LEMMA ServerInvHolds == ServerSpec => []ServerInv
<1>. QED  BY ServerInitInv, ServerNextInv, PTL DEF ServerSpec

-----------------------------------------------------------------------------
(* Types; and no signal is ever queued while the SignalHandler still waits *)
(* for one.                                                                *)
THEOREM ServerTypeCorrect == ServerSpec => []ServerTypeOK
<1>1. ServerInv => ServerTypeOK
  <2>. SUFFICES ASSUME ServerInv PROVE ServerTypeOK
    OBVIOUS
  <2>1. ready \in Seq(All) /\ ServerTypes /\ SignalInv
    BY DEF ServerInv, Good
  <2>2. ASSUME watching, NEW i \in 1..Len(ready) PROVE ready[i].op # "signal"
    <3>1. ready[i] \in All /\ ready[i] \notin Signals
      BY <2>1, <2>2, ElementOfSeq DEF SignalInv, Some
    <3>. QED  BY <3>1 DEF All, Completions, OpsOf, TimersOf, ServerCompletions, Signals
  <2>. QED  BY <2>1, <2>2 DEF ServerTypeOK, ServerTypes, All
<1>. QED  BY <1>1, ServerInvHolds, PTL

(* Until the shutdown there is always an accept, in progress or with its   *)
(* handler queued, and there are never two.                                *)
THEOREM AcceptingHolds == ServerSpec => []AlwaysAccepting
<1>1. ServerInv => AlwaysAccepting
  <2>. SUFFICES ASSUME ServerInv PROVE AlwaysAccepting
    OBVIOUS
  <2>1. ready \in Seq(All) /\ AcceptInv
    BY DEF ServerInv, Good
  <2>2. ASSUME NEW i \in 1..Len(ready) PROVE i \in QueuedAccepts <=> ready[i] \in Accepts
    <3>1. ready[i] \in All
      BY <2>1, ElementOfSeq
    <3>. QED  BY <3>1 DEF QueuedAccepts, All, Completions, OpsOf, TimersOf, ServerCompletions, Accepts
  <2>3. \A i \in QueuedAccepts : i \in 1..Len(ready)
    BY DEF QueuedAccepts
  <2>4. (Some(Accepts, ready) <=> QueuedAccepts # {}) /\ \A i, j \in QueuedAccepts : i = j
    BY <2>1, <2>2, <2>3 DEF AcceptInv, Some, AtMostOne
  <2>. QED  BY <2>1, <2>4 DEF AcceptInv, AlwaysAccepting
<1>. QED  BY <1>1, ServerInvHolds, PTL

(* The manager has the open connections, and the loop of stop_all() those  *)
(* that it has not stopped yet.                                            *)
THEOREM ManagerHolds == ServerSpec => []ManagerAgrees
<1>1. ServerInv => ManagerAgrees
  BY DEF ServerInv
<1>. QED  BY <1>1, ServerInvHolds, PTL

(* Nothing is left when run() has returned.                                *)
THEOREM CleanReturnHolds == ServerSpec => []CleanReturn
<1>1. ServerInv => CleanReturn
  BY DEF ServerInv
<1>. QED  BY <1>1, ServerInvHolds, PTL

(* What each connection keeps to by itself it keeps to in the server,      *)
(* through the shutdown too.                                               *)
THEOREM ConnectionsHold == ServerSpec => [](SingleOp /\ OpenIsWatched /\ BufferIffOpen)
<1>1. ServerInv => SingleOp /\ OpenIsWatched /\ BufferIffOpen
  BY AllQueueable, GoodIsSingle, GoodIsWatched, GoodHasBuffer DEF ServerInv
<1>. QED  BY <1>1, ServerInvHolds, PTL

(* And the buffers of the pool have one owner each, the pool itself or a   *)
(* connection: a theorem of BufferPool, for the pool of the server.        *)
THEOREM BuffersAreOwned == ServerSpec => []Pool!ExclusiveOwnership
<1>1. ServerInv => Pool!ExclusiveOwnership
  BY DEF ServerInv, PoolProofs!IInv, Pool!ExclusiveOwnership, PoolProofs!ExclusiveOwnership,
         Pool!NoDuplicates, PoolProofs!NoDuplicates, Pool!PooledNotHeld, PoolProofs!PooledNotHeld,
         Pool!OneHolder, PoolProofs!OneHolder, Pool!Pooled, PoolProofs!Pooled,
         Pool!Outstanding, PoolProofs!Outstanding
<1>. QED  BY <1>1, ServerInvHolds, PTL

-----------------------------------------------------------------------------
(* What a handler of connection c means for the service: a fault, an end,  *)
(* or nothing.                                                             *)
LEMMA HandleEffect ==
    ASSUME Good(All), NEW c \in Conns, Handle(c)
    PROVE  \/ /\ crashed' /\ state[c] # "Unborn"
              /\ state' = state \/ state' = [state EXCEPT ![c] = "Reading"]
           \/ /\ crashed' = crashed /\ state[c] # "Unborn"
              /\ state' = [state EXCEPT ![c] = "Closed"]
           \/ /\ crashed' = crashed /\ Open(c)
              /\ \E s \in {"Reading", "Writing"} : state' = [state EXCEPT ![c] = s]
           \/ crashed' = crashed /\ state' = state
<1>1. /\ ConnTypes /\ ready \in Seq(All) /\ ConnInv(c)
      /\ \E op \in {"read", "write", "timer"} : IsNext(c, op)
  BY DEF Good, Handle, HandleData, HandleDataClosed, HandleReadFail, HandleReadAborted,
         HandleWrittenKeep, HandleWrittenClosed, HandleWrittenLast, HandleTimeout, HandleStaleTimeout
<1>2. state[c] # "Unborn"
  BY <1>1, TakeOp, TakeTimer, AllQueueable
<1>3. HasBuffer(c) => Open(c)
  BY <1>1 DEF ConnInv, HasBuffer
<1>4. CASE HandleDataClosed(c) \/ HandleWrittenClosed(c)
  BY <1>2, <1>4 DEF HandleDataClosed, HandleWrittenClosed, Crash, connVars
<1>5. CASE HandleReadFail(c) \/ HandleWrittenLast(c) \/ HandleTimeout(c)
  BY <1>2, <1>5 DEF HandleReadFail, HandleWrittenLast, HandleTimeout, Stop, Shutdown
<1>6. CASE HandleData(c) \/ HandleWrittenKeep(c)
  BY <1>3, <1>6 DEF HandleData, ReadMore, Answer, HandleWrittenKeep, DoRead, DoWrite
<1>7. CASE HandleReadAborted(c) \/ HandleStaleTimeout(c)
  BY <1>7 DEF HandleReadAborted, HandleStaleTimeout, connVars
<1>. QED  BY <1>4, <1>5, <1>6, <1>7 DEF Handle

Seen == {c \in Conns : state[c] # "Unborn"}
Clients == {c \in Conns : Open(c)}

LEMMA PromiseStep ==
    ASSUME ServerInv, [ServerNext]_allVars
    PROVE  [Promise!Next]_(Promise!vars)
<1>. USE DEF Promise!vars
<1>1. ConnTypes /\ Good(All) /\ ModeInv /\ ServerTypes
  BY DEF ServerInv, Good
<1>2. CASE UNCHANGED <<state, crashed, Phase>>
  BY <1>2 DEF Open
<1>3. ASSUME NEW c \in Conns, ~crashed, ~crashed', mode \in {"loop", "stopping"},
             UNCHANGED <<mode, acceptor>>, state[c] # "Unborn",
             state' = [state EXCEPT ![c] = "Closed"]
      PROVE  Promise!Disconnect(c)
  <2>1. Phase' = Phase /\ Phase \in {"serving", "draining"}
    BY <1>3 DEF Phase
  <2>2. Seen' = Seen /\ Clients' = Clients \ {c}
    BY <1>1, <1>3 DEF Seen, Clients, Open, ConnTypes
  <2>. QED  BY <2>1, <2>2 DEF Promise!Disconnect, Seen, Clients
<1>4. ASSUME NEW c \in Conns, ServeHandle(c) PROVE [Promise!Next]_(Promise!vars)
  <2>1. /\ ~crashed /\ mode = "loop" /\ Handle(c) /\ UNCHANGED <<mode, acceptor>>
    BY <1>4 DEF ServeHandle, InLoop, serverVars
  <2>2. ASSUME crashed', state[c] # "Unborn",
               state' = state \/ state' = [state EXCEPT ![c] = "Reading"]
        PROVE  Promise!Fail
    <3>1. Phase \in {"serving", "draining"} /\ Phase' = "failed"
      BY <2>1, <2>2 DEF Phase
    <3>2. Seen' = Seen /\ Clients' \subseteq Seen
      BY <1>1, <2>2 DEF Seen, Clients, Open, ConnTypes
    <3>. QED  BY <3>1, <3>2 DEF Promise!Fail, Seen, Clients
  <2>3. ASSUME crashed' = crashed, Open(c), NEW s \in {"Reading", "Writing"},
               state' = [state EXCEPT ![c] = s]
        PROVE  UNCHANGED <<Phase, Seen, Clients>>
    <3>1. Phase' = Phase
      BY <2>1, <2>3 DEF Phase
    <3>2. Seen' = Seen /\ Clients' = Clients
      BY <1>1, <2>3 DEF Seen, Clients, Open, ConnTypes
    <3>. QED  BY <3>1, <3>2
  <2>4. ASSUME crashed' = crashed, state' = state PROVE UNCHANGED <<state, crashed, Phase>>
    BY <2>1, <2>4 DEF Phase
  <2>. QED  BY <1>1, <1>2, <1>3, <2>1, <2>2, <2>3, <2>4, HandleEffect
            DEF Promise!Next, Seen, Clients
<1>5. ASSUME NEW c \in Conns, HandleAccept(c) PROVE Promise!Next
  <2>1. /\ ~crashed /\ mode = "loop" /\ acceptor = "open" /\ state[c] = "Unborn"
        /\ UNCHANGED <<mode, acceptor, crashed>> /\ state' = [state EXCEPT ![c] = "Reading"]
    BY <1>5 DEF HandleAccept, InLoop, MayAccept, Start, DoRead
  <2>2. Phase = "serving" /\ Phase' = Phase
    BY <2>1 DEF Phase
  <2>3. c \notin Seen /\ Seen' = Seen \cup {c} /\ Clients' = Clients \cup {c}
    BY <1>1, <2>1 DEF Seen, Clients, Open, ConnTypes
  <2>4. Promise!Connect(c)
    BY <2>2, <2>3 DEF Promise!Connect, Seen, Clients
  <2>. QED  BY <2>4 DEF Promise!Next
<1>6. ASSUME NEW c \in Conns, StopNext(c) PROVE Promise!Next
  <2>1. /\ ~crashed /\ ~crashed' /\ mode = "stopping" /\ UNCHANGED <<mode, acceptor>>
        /\ state' = [state EXCEPT ![c] = "Closed"] /\ c \in toStop
    BY <1>1, <1>6 DEF StopNext, Shutdown, ModeInv
  <2>2. state[c] # "Unborn"
    BY <2>1 DEF ServerInv, ManagerAgrees, Open
  <2>. QED  BY <1>3, <2>1, <2>2 DEF Promise!Next
<1>7. ASSUME HandleShutdown PROVE [Promise!Next]_(Promise!vars)
  <2>1. /\ ~crashed /\ mode = "loop" /\ mode' = "stopping" /\ acceptor' = "closed"
        /\ UNCHANGED <<state, crashed>>
    BY <1>7 DEF HandleShutdown, InLoop, connVars
  <2>2. Phase' = "draining"
    BY <2>1 DEF Phase
  <2>3. CASE acceptor = "open"
    <3>1. Phase = "serving"
      BY <2>1, <2>3 DEF Phase
    <3>2. Promise!BeginShutdown
      BY <2>1, <2>2, <3>1 DEF Promise!BeginShutdown, Open
    <3>. QED  BY <3>2 DEF Promise!Next
  <2>4. CASE acceptor # "open"
    <3>1. Phase = "draining"
      BY <2>1, <2>4 DEF Phase
    <3>. QED  BY <1>2, <2>1, <2>2, <3>1
  <2>. QED  BY <2>3, <2>4
<1>8. ASSUME Return PROVE Promise!Next
  <2>1. /\ ~crashed /\ mode = "loop" /\ mode' = "returned" /\ UNCHANGED <<state, crashed>>
    BY <1>8 DEF Return, InLoop, vars, connVars
  <2>2. acceptor = "closed" /\ Clients = {}
    BY <1>8, ReturnIsClean DEF Clients
  <2>3. Phase = "draining" /\ Phase' = "returned"
    BY <2>1, <2>2 DEF Phase
  <2>4. Promise!Return
    BY <2>1, <2>2, <2>3 DEF Promise!Return, Open, Clients
  <2>. QED  BY <2>4 DEF Promise!Next
<1>9. ASSUME \/ \E c \in Conns :
                   \/ \E res \in ReadResults : ServeCompleteRead(c, res)
                   \/ \E res \in WriteResults : ServeCompleteWrite(c, res)
                   \/ ServeExpire(c)
             \/ \E res \in {"ok", "fail"} : CompleteAccept(res)
             \/ \E sig \in {"HUP", "TERM"} : Raise(sig)
             \/ HandleAcceptError \/ HandleAcceptClosed \/ HandleReload
             \/ UNCHANGED allVars
      PROVE  UNCHANGED <<state, crashed, Phase>>
  <2>1. UNCHANGED <<state, crashed, mode, acceptor>>
    BY <1>9 DEF ServeCompleteRead, ServeCompleteWrite, ServeExpire, CompleteRead, CompleteWrite,
       Expire, CompleteAccept, Raise, HandleAcceptError, HandleAcceptClosed, HandleReload,
       allVars, serverVars, vars, connVars
  <2>. QED  BY <2>1 DEF Phase
<1>10. ASSUME StopAllReturns \/ JoinThreads PROVE UNCHANGED <<state, crashed, Phase>>
  <2>1. /\ UNCHANGED <<state, crashed, acceptor>> /\ mode # "returned" /\ mode' # "returned"
    BY <1>10 DEF StopAllReturns, JoinThreads, connVars
  <2>. QED  BY <2>1 DEF Phase
<1>. QED  BY <1>2, <1>4, <1>5, <1>6, <1>7, <1>8, <1>9, <1>10 DEF ServerNext, ServerHandle

(* The server does what Service promises: no connection is taken twice or  *)
(* after the shutdown has begun, and run() returns from a shutdown and with*)
(* nobody connected.                                                       *)
THEOREM ServiceImplemented == ServerSpec => ImplementsService
<1>1. ServerInit => Promise!Init
  BY DEF ServerInit, Init, Promise!Init, Phase, Open
<1>. QED  BY <1>1, PromiseStep, ServerInvHolds, PTL DEF ServerSpec, ImplementsService, Promise!Spec
=============================================================================
