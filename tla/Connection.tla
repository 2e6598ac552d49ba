----------------------------- MODULE Connection -----------------------------
(***************************************************************************)
(* The connections of mycppwebfw::core (core/connection.h, .tpp), the      *)
(* ConnectionManager that owns them and the BufferPool they share.         *)
(*                                                                         *)
(* One thread runs the io_context, so a completion handler is one action.  *)
(* What asio and the kernel do between handlers is modelled by asio's      *)
(* contract: an operation that has been started completes at some time     *)
(* with some result, a timer that is armed expires at some time, and the   *)
(* handler of either is then queued and cannot be withdrawn.  Closing a    *)
(* socket or cancelling a timer aborts what has not completed and nothing  *)
(* else.  Handlers run in the order in which they were queued.  The handler*)
(* of an aborted timer wait does nothing and is left out.                  *)
(*                                                                         *)
(* A read brings a "request" (one whole, well-formed request), "other"     *)
(* data (part of a request, more than one, or no request at all) or "fail";*)
(* the parser is at the "start" of its first request, in the "mid"dle of   *)
(* one, or "done" with one.                                                *)
(***************************************************************************)
EXTENDS Naturals, Sequences, FiniteSets

CONSTANTS
    Conns,      \* the connections there can be, each accepted at most once
    Buffers,    \* the buffers the allocator can produce
    PoolSize,   \* poolSize_ of Connection::buffer_pool_
    CanExpire   \* whether timers may expire

ASSUME ConnectionAssumption ==
    /\ IsFiniteSet(Conns) /\ IsFiniteSet(Buffers)
    /\ PoolSize \in Nat
    /\ PoolSize + Cardinality(Conns) <= Cardinality(Buffers)
    /\ CanExpire \in BOOLEAN

VARIABLES
    state,           \* state_; "Unborn" before the constructor
    keepAlive,       \* keep_alive_
    parser,          \* where parser_ is in the request
    response,        \* response_, by status, while it is being written
    pending,         \* pending[c]: the socket operations in progress
    timer,           \* what timer_ is armed for
    managed,         \* connections_ of the ConnectionManager
    ready,           \* the completion handlers queued
    crashed,         \* a null buffer_ has been dereferenced
    pool,            \* pool_ of Connection::buffer_pool_
    totalAllocated,  \* totalAllocated_ of Connection::buffer_pool_
    held             \* held[c]: the buffer that buffer_ points to, if any

poolVars == <<pool, totalAllocated, held>>
connVars == <<state, keepAlive, parser, response, pending, timer, managed>>
vars == <<connVars, ready, crashed, poolVars>>

\* The pool is constructed without a limit, so acquire() refuses nothing.
Pool == INSTANCE BufferPool
        WITH Clients <- Conns, BufferSize <- 1, InitialLimit <- 0, Limits <- {},
             MaxFailures <- 0, maxMemory <- 0, failures <- 0

Open(c) == state[c] \in {"Reading", "Writing"}

HasBuffer(c) == held[c] # {}

Completion(c, op, res) == [conn |-> c, op |-> op, res |-> res]

ReadResults == {"request", "other", "fail"}
WriteResults == {"ok", "fail"}

\* What can be queued for a connection.
OpsOf(c) ==
    [conn : {c}, op : {"read"}, res : ReadResults \cup {"aborted"}]
        \cup [conn : {c}, op : {"write"}, res : WriteResults \cup {"aborted"}]
TimersOf(c) == [conn : {c}, op : {"timer"}, res : {"read", "write"}]
Completions == UNION {OpsOf(c) \cup TimersOf(c) : c \in Conns}

IsNext(c, op) == ready # <<>> /\ Head(ready).conn = c /\ Head(ready).op = op

Init ==
    /\ state = [c \in Conns |-> "Unborn"]
    /\ keepAlive = [c \in Conns |-> FALSE]
    /\ parser = [c \in Conns |-> "start"]
    /\ response = [c \in Conns |-> "none"]
    /\ pending = [c \in Conns |-> {}]
    /\ timer = [c \in Conns |-> "off"]
    /\ managed = {}
    /\ ready = <<>>
    /\ crashed = FALSE
    /\ Pool!Init

-----------------------------------------------------------------------------
(* What the members of Connection do to its state, each for one caller.    *)

\* do_read().  In the handler of a write it comes after start_idle_timer():
\* setting the read timer cancels the idle timer armed a statement earlier,
\* and the state leaves Idle in the handler that entered it.
BugDoReadIdleTimer(c) ==
    /\ state' = [state EXCEPT ![c] = "Reading"]
    /\ response' = [response EXCEPT ![c] = "none"]
    /\ timer' = [timer EXCEPT ![c] = "idle"]
    /\ pending' = [pending EXCEPT ![c] = @ \cup {"read"}]

DoRead(c) ==
    /\ state' = [state EXCEPT ![c] = "Reading"]
    /\ response' = [response EXCEPT ![c] = "none"]
    /\ timer' = [timer EXCEPT ![c] = "read"]
    /\ pending' = [pending EXCEPT ![c] = @ \cup {"read"}]

BugDoWriteReads(c) ==
    /\ state' = [state EXCEPT ![c] = "Writing"]
    /\ timer' = [timer EXCEPT ![c] = "write"]
    /\ pending' = [pending EXCEPT ![c] = @ \cup {"read", "write"}]

BugDoWriteNoTimer(c) ==
    /\ state' = [state EXCEPT ![c] = "Writing"]
    /\ timer' = [timer EXCEPT ![c] = "off"]
    /\ pending' = [pending EXCEPT ![c] = @ \cup {"write"}]

DoWrite(c) ==
    /\ state' = [state EXCEPT ![c] = "Writing"]
    /\ timer' = [timer EXCEPT ![c] = "write"]
    /\ pending' = [pending EXCEPT ![c] = @ \cup {"write"}]

\* async_read_some() is given *buffer_ when buffer_ is null.
Crash(c) ==
    /\ state' = [state EXCEPT ![c] = "Reading"]
    /\ crashed' = TRUE

\* The end of shutdown(): the buffer goes back, once.
BugGiveBackReset(c) ==
    /\ held' = [held EXCEPT ![c] = {}]
    /\ UNCHANGED <<pool, totalAllocated>>

BugGiveBackNothing(c) == UNCHANGED poolVars

GiveBack(c) ==
    IF HasBuffer(c)
    THEN \E b \in held[c] : Pool!Release(c, b)
    ELSE UNCHANGED poolVars

\* What socket_.close() leaves in progress; the rest completes as aborted.
BugNotClosed(c) == pending[c]

NotClosed(c) == {}

Aborted(c, op) ==
    IF op \in pending[c] \ NotClosed(c) THEN <<Completion(c, op, "aborted")>> ELSE <<>>

BugManagedWithout(c) == managed

ManagedWithout(c) == managed \ {c}

\* shutdown(): the timer is cancelled, the socket closed, the buffer released.
\* A second call, which the timers and stop() make, finds nothing to do.
Shutdown(c, queue) ==
    /\ state' = [state EXCEPT ![c] = "Closed"]
    /\ response' = [response EXCEPT ![c] = "none"]
    /\ timer' = [timer EXCEPT ![c] = "off"]
    /\ pending' = [pending EXCEPT ![c] = NotClosed(c)]
    /\ ready' = (queue \o Aborted(c, "read")) \o Aborted(c, "write")
    /\ GiveBack(c)

\* ConnectionManager::stop().
Stop(c, queue) ==
    /\ managed' = ManagedWithout(c)
    /\ Shutdown(c, queue)

-----------------------------------------------------------------------------
\* The constructor and ConnectionManager::start().
Start(c) ==
    /\ state[c] = "Unborn"
    /\ Pool!Acquire(c)
    /\ managed' = managed \cup {c}
    /\ DoRead(c)
    /\ UNCHANGED <<keepAlive, parser, crashed>>

-----------------------------------------------------------------------------
(* The kernel and asio.                                                    *)

CompleteRead(c, res) ==
    /\ ~crashed
    /\ "read" \in pending[c]
    /\ res = "request" => parser[c] # "mid"
    /\ pending' = [pending EXCEPT ![c] = @ \ {"read"}]
    /\ ready' = Append(ready, Completion(c, "read", res))
    /\ UNCHANGED <<state, keepAlive, parser, response, timer, managed, crashed, poolVars>>

CompleteWrite(c, res) ==
    /\ ~crashed
    /\ "write" \in pending[c]
    /\ pending' = [pending EXCEPT ![c] = @ \ {"write"}]
    /\ ready' = Append(ready, Completion(c, "write", res))
    /\ UNCHANGED <<state, keepAlive, parser, response, timer, managed, crashed, poolVars>>

Expire(c) ==
    /\ ~crashed
    /\ CanExpire
    /\ timer[c] # "off"
    /\ timer' = [timer EXCEPT ![c] = "off"]
    /\ ready' = Append(ready, Completion(c, "timer", timer[c]))
    /\ UNCHANGED <<state, keepAlive, parser, response, pending, managed, crashed, poolVars>>

-----------------------------------------------------------------------------
(* The handler of a read.                                                  *)

Outcomes == [result : {"GOOD", "BAD", "INDETERMINATE"}, at : {"start", "mid", "done"},
             keep : BOOLEAN, status : {"ok", "bad"}]

\* What parse() and the code up to the response make of the data.  parser_ is
\* never reset: once it has seen the end of a request it accepts a newline and
\* nothing else, and request_, on which keep_alive_ depends, stays as it is.
\* http_version_major and _minor are read before anything has set them.
WellParsed(c, data, o) ==
    CASE parser[c] = "done" ->
           /\ o.at = "done" /\ o.keep = keepAlive[c]
           /\ IF data = "request" THEN o.result = "BAD" ELSE o.result \in {"GOOD", "BAD"}
      [] parser[c] = "start" /\ data = "request" ->
           o.result = "GOOD" /\ o.at = "done" /\ o.status = "ok"
      [] OTHER ->
           \/ o.result = "GOOD" /\ o.at = "done"
           \/ o.result = "BAD" /\ o.at \in {parser[c], "mid"}
           \/ o.result = "INDETERMINATE" /\ o.at = "mid"

Parsed(c, data) ==
    {o \in Outcomes : WellParsed(c, data, o) /\ (o.result = "BAD" => o.status = "bad")}

\* More of the request is needed.
ReadMore(c, data) ==
    \E o \in Parsed(c, data) :
        /\ o.result = "INDETERMINATE"
        /\ parser' = [parser EXCEPT ![c] = o.at]
        /\ keepAlive' = [keepAlive EXCEPT ![c] = o.keep]
        /\ DoRead(c)

\* The request is complete or broken, and is answered 200 or 400.
Answer(c, data) ==
    \E o \in Parsed(c, data) :
        /\ o.result # "INDETERMINATE"
        /\ parser' = [parser EXCEPT ![c] = o.at]
        /\ keepAlive' = [keepAlive EXCEPT ![c] = o.keep]
        /\ response' = [response EXCEPT ![c] = o.status]
        /\ DoWrite(c)

HandleData(c) ==
    /\ ~crashed
    /\ IsNext(c, "read")
    /\ Head(ready).res \in {"request", "other"}
    /\ HasBuffer(c)
    /\ ready' = Tail(ready)
    /\ ReadMore(c, Head(ready).res) \/ Answer(c, Head(ready).res)
    /\ UNCHANGED <<managed, crashed, poolVars>>

\* buffer_->data(), after stop() has reset buffer_.
HandleDataClosed(c) ==
    /\ ~crashed
    /\ IsNext(c, "read")
    /\ Head(ready).res \in {"request", "other"}
    /\ ~HasBuffer(c)
    /\ ready' = Tail(ready)
    /\ crashed' = TRUE
    /\ UNCHANGED <<connVars, poolVars>>

\* do_write() of a 500 and at once ConnectionManager::stop(): on a socket that
\* is open, the write may have completed before it can be aborted.
HandleReadFail(c) ==
    /\ ~crashed
    /\ IsNext(c, "read")
    /\ Head(ready).res = "fail"
    /\ \E res \in IF Open(c) THEN {"ok", "fail", "aborted"} ELSE {"fail"} :
          Stop(c, Append(Tail(ready), Completion(c, "write", res)))
    /\ UNCHANGED <<keepAlive, parser, crashed>>

HandleReadAborted(c) ==
    /\ ~crashed
    /\ IsNext(c, "read")
    /\ Head(ready).res = "aborted"
    /\ ready' = Tail(ready)
    /\ timer' = [timer EXCEPT ![c] = "off"]
    /\ UNCHANGED <<state, keepAlive, parser, response, pending, managed, crashed, poolVars>>

-----------------------------------------------------------------------------
(* The handler of a write.                                                 *)

HandleWrittenKeep(c) ==
    /\ ~crashed
    /\ IsNext(c, "write")
    /\ Head(ready).res = "ok" /\ keepAlive[c] /\ HasBuffer(c)
    /\ ready' = Tail(ready)
    /\ DoRead(c)
    /\ UNCHANGED <<keepAlive, parser, managed, crashed, poolVars>>

HandleWrittenClosed(c) ==
    /\ ~crashed
    /\ IsNext(c, "write")
    /\ Head(ready).res = "ok" /\ keepAlive[c] /\ ~HasBuffer(c)
    /\ ready' = Tail(ready)
    /\ Crash(c)
    /\ UNCHANGED <<keepAlive, parser, response, pending, timer, managed, poolVars>>

HandleWrittenLast(c) ==
    /\ ~crashed
    /\ IsNext(c, "write")
    /\ Head(ready).res = "ok" => ~keepAlive[c]
    /\ Stop(c, Tail(ready))
    /\ UNCHANGED <<keepAlive, parser, crashed>>

-----------------------------------------------------------------------------
(* The handler of a timer that has expired: it closes the connection if    *)
(* the connection is in the state the timer was set for.                   *)

BugConcerns(c, kind) == kind = "read" /\ state[c] = "Reading"

Concerns(c, kind) ==
    \/ kind = "read" /\ state[c] = "Reading"
    \/ kind = "write" /\ state[c] = "Writing"

HandleTimeout(c) ==
    /\ ~crashed
    /\ IsNext(c, "timer")
    /\ Concerns(c, Head(ready).res)
    /\ Stop(c, Tail(ready))
    /\ UNCHANGED <<keepAlive, parser, crashed>>

HandleStaleTimeout(c) ==
    /\ ~crashed
    /\ IsNext(c, "timer")
    /\ ~Concerns(c, Head(ready).res)
    /\ ready' = Tail(ready)
    /\ UNCHANGED <<connVars, crashed, poolVars>>

-----------------------------------------------------------------------------
Accept(c) ==
    /\ ~crashed
    /\ Start(c)
    /\ UNCHANGED ready

Handle(c) ==
    \/ HandleData(c) \/ HandleDataClosed(c)
    \/ HandleReadFail(c) \/ HandleReadAborted(c)
    \/ HandleWrittenKeep(c) \/ HandleWrittenClosed(c) \/ HandleWrittenLast(c)
    \/ HandleTimeout(c) \/ HandleStaleTimeout(c)

Next ==
    \E c \in Conns :
        \/ Accept(c)
        \/ \E res \in ReadResults : CompleteRead(c, res)
        \/ \E res \in WriteResults : CompleteWrite(c, res)
        \/ Expire(c)
        \/ Handle(c)

Spec == Init /\ [][Next]_vars

-----------------------------------------------------------------------------
Queued(c) == {i \in 1..Len(ready) : ready[i].conn = c}
QueuedOps(c) == {i \in Queued(c) : ready[i].op # "timer"}

(* Types of the members, and of what is queued.                            *)
TypeOK ==
    /\ state \in [Conns -> {"Unborn", "Reading", "Writing", "Closed"}]
    /\ keepAlive \in [Conns -> BOOLEAN]
    /\ parser \in [Conns -> {"start", "mid", "done"}]
    /\ response \in [Conns -> {"none", "ok", "bad"}]
    /\ pending \in [Conns -> SUBSET {"read", "write"}]
    /\ timer \in [Conns -> {"off", "read", "write"}]
    /\ managed \subseteq Conns
    /\ ready \in Seq(Completions)
    /\ crashed \in BOOLEAN

(* A connection never has two socket operations under way, in progress or  *)
(* completed with the handler still queued: request_, response_ and buffer_*)
(* belong to one of them at a time.  An open one always has exactly one,   *)
(* or nothing would ever happen to it again.                               *)
SingleOp ==
    ~crashed => \A c \in Conns :
        /\ \A op, other \in pending[c] : op = other
        /\ \A i, j \in QueuedOps(c) : i = j
        /\ pending[c] = {} \/ QueuedOps(c) = {}
        /\ Open(c) => pending[c] # {} \/ QueuedOps(c) # {}

(* While an operation is in progress its own timer is armed, or the handler*)
(* of the timer is queued: there is no peer a connection waits for without *)
(* a limit, whatever stale timeouts were handled on the way.               *)
OpenIsWatched ==
    ~crashed => \A c \in Conns : \A op \in pending[c] :
        \/ timer[c] = op
        \/ \E i \in Queued(c) : ready[i] = Completion(c, "timer", op)

(* The manager owns the open connections and no other: none is kept alive  *)
(* after it closed, none runs out of the reach of stop_all().              *)
ManagedIffOpen == ~crashed => managed = {c \in Conns : Open(c)}

(* A connection has a buffer, and one, exactly while it is open: the       *)
(* several calls of shutdown() that the timeouts, the errors and stop()    *)
(* make for one connection release it once.                                *)
BufferIffOpen ==
    ~crashed => \A c \in Conns :
        IF Open(c) THEN \E b \in Buffers : held[c] = {b} ELSE held[c] = {}

(* Seen from the pool, the connections are clients as BufferPool describes *)
(* them: the invariants proved of BufferPool hold of this pool.            *)
PoolConforms == Pool!Spec

(* A peer that neither sends nor receives is dropped: no operation stays   *)
(* in progress for ever.                                                   *)
OperationsEnd ==
    \A c \in Conns, op \in {"read", "write"} :
        op \in pending[c] ~> (op \notin pending[c] \/ crashed)

(* A closed connection is destroyed: the handlers that hold a shared_ptr to*)
(* it all run in the end, and the manager forgets it.                      *)
Referenced(c) == pending[c] # {} \/ timer[c] # "off" \/ Queued(c) # {} \/ c \in managed

ClosedIsFreed ==
    \A c \in Conns : state[c] = "Closed" ~> (~Referenced(c) \/ crashed)

-----------------------------------------------------------------------------
(* What tests and comments say of connections and the code does not do.    *)

(* However a connection ends, nothing uses it afterwards.                  *)
NoCrash == ~crashed

(* A whole, well-formed request is answered 200, the second one on a       *)
(* connection that was kept alive like the first.                          *)
RequestServed ==
    [][\A c \in Conns :
         IsNext(c, "read") /\ Head(ready).res = "request" /\ HasBuffer(c) /\ ready' # ready
             => response'[c] = "ok"]_vars
=============================================================================
