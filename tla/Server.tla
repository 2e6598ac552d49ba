------------------------------- MODULE Server -------------------------------
(***************************************************************************)
(* The server of mycppwebfw::core (core/server.cpp, signal_handler.cpp)    *)
(* around its connections: the acceptor, the signal handler, the graceful  *)
(* shutdown and the io_context that runs the handlers of all of them.      *)
(*                                                                         *)
(* graceful_shutdown() is one handler, but it closes connection after      *)
(* connection; its loop is modelled step by step, with no other handler    *)
(* and no completion between the steps.  The ThreadPool it joins is the    *)
(* subject of a module of its own, and no connection gives it a task.      *)
(***************************************************************************)
EXTENDS Connection

CONSTANT Nobody   \* the conn of a completion that belongs to no connection

ASSUME ServerAssumption == Nobody \notin Conns

VARIABLES
    mode,        \* where the thread of run() is
    acceptor,    \* acceptor_: "open" or "closed"
    accepting,   \* an async_accept is in progress
    watching,    \* the async_wait of the SignalHandler is in progress
    toStop,      \* the connections stop_all() has still to stop
    threadPool,  \* thread_pool_: "running", or "joined" by reset()
    asked        \* a signal that asks the server to end has been raised

serverVars == <<mode, acceptor, accepting, watching, toStop, threadPool, asked>>
allVars == <<vars, serverVars>>

ServerInit ==
    /\ Init
    /\ mode = "loop"
    /\ acceptor = "open"
    /\ accepting = TRUE
    /\ watching = TRUE
    /\ toStop = {}
    /\ threadPool = "running"
    /\ asked = FALSE

\* What can be queued for the acceptor and the signal handler.
ServerCompletions ==
    [conn : {Nobody}, op : {"accept"}, res : {"ok", "fail", "aborted"}]
        \cup [conn : {Nobody}, op : {"signal"}, res : {"HUP", "TERM"}]

InLoop == mode = "loop" /\ ~crashed

-----------------------------------------------------------------------------
(* The connections, while the loop runs.                                   *)

ServeCompleteRead(c, res) == InLoop /\ CompleteRead(c, res) /\ UNCHANGED serverVars
ServeCompleteWrite(c, res) == InLoop /\ CompleteWrite(c, res) /\ UNCHANGED serverVars
ServeExpire(c) == InLoop /\ Expire(c) /\ UNCHANGED serverVars
ServeHandle(c) == InLoop /\ Handle(c) /\ UNCHANGED serverVars

-----------------------------------------------------------------------------
(* do_accept().                                                            *)

CompleteAccept(res) ==
    /\ InLoop
    /\ accepting
    /\ res = "ok" => \E c \in Conns : state[c] = "Unborn"
    /\ accepting' = FALSE
    /\ ready' = Append(ready, Completion(Nobody, "accept", res))
    /\ UNCHANGED <<connVars, crashed, poolVars, mode, acceptor, watching, toStop,
                   threadPool, asked>>

BugRearmed == FALSE

Rearmed == TRUE

BugMayAccept == TRUE

MayAccept == acceptor = "open"

HandleAccept(c) ==
    /\ InLoop
    /\ IsNext(Nobody, "accept")
    /\ MayAccept
    /\ Head(ready).res = "ok"
    /\ Start(c)
    /\ ready' = Tail(ready)
    /\ accepting' = Rearmed
    /\ UNCHANGED <<mode, acceptor, watching, toStop, threadPool, asked>>

HandleAcceptError ==
    /\ InLoop
    /\ IsNext(Nobody, "accept")
    /\ MayAccept
    /\ Head(ready).res = "fail"
    /\ ready' = Tail(ready)
    /\ accepting' = Rearmed
    /\ UNCHANGED <<connVars, crashed, poolVars, mode, acceptor, watching, toStop,
                   threadPool, asked>>

HandleAcceptClosed ==
    /\ InLoop
    /\ IsNext(Nobody, "accept")
    /\ ~MayAccept
    /\ ready' = Tail(ready)
    /\ UNCHANGED <<connVars, crashed, poolVars, serverVars>>

-----------------------------------------------------------------------------
(* The signal handler waits once.                                          *)

\* async_wait() is not called again.
BugWatchingAfter == watching

WatchingAfter == FALSE

\* A signal with nobody waiting for it is kept by asio and never delivered.
Raise(sig) ==
    /\ InLoop
    /\ asked' = (asked \/ sig # "HUP")
    /\ watching' = WatchingAfter
    /\ ready' = IF watching THEN Append(ready, Completion(Nobody, "signal", sig)) ELSE ready
    /\ UNCHANGED <<connVars, crashed, poolVars, mode, acceptor, accepting, toStop, threadPool>>

\* reload_config(): Server::buffer_pool_ is never set, the rest is a message.
HandleReload ==
    /\ InLoop
    /\ IsNext(Nobody, "signal")
    /\ Head(ready).res = "HUP"
    /\ ready' = Tail(ready)
    /\ UNCHANGED <<connVars, crashed, poolVars, serverVars>>

\* graceful_shutdown(): the acceptor is closed, which aborts its operation ...
BugStopSet == {}

StopSet == managed

HandleShutdown ==
    /\ InLoop
    /\ IsNext(Nobody, "signal")
    /\ Head(ready).res # "HUP"
    /\ mode' = "stopping"
    /\ acceptor' = "closed"
    /\ accepting' = FALSE
    /\ ready' = IF accepting
                THEN Append(Tail(ready), Completion(Nobody, "accept", "aborted"))
                ELSE Tail(ready)
    /\ toStop' = StopSet
    /\ UNCHANGED <<connVars, crashed, poolVars, watching, threadPool, asked>>

\* ... stop_all() stops one connection after the other ...
StopNext(c) ==
    /\ mode = "stopping"
    /\ c \in toStop
    /\ Shutdown(c, ready)
    /\ toStop' = toStop \ {c}
    /\ UNCHANGED <<keepAlive, parser, managed, crashed, mode, acceptor, accepting, watching,
                   threadPool, asked>>

StopAllReturns ==
    /\ mode = "stopping"
    /\ toStop = {}
    /\ managed' = {}
    /\ mode' = "joining"
    /\ UNCHANGED <<state, keepAlive, parser, response, pending, timer, ready, crashed, poolVars,
                   acceptor, accepting, watching, toStop, threadPool, asked>>

BugJoined == threadPool

Joined == "joined"

\* ... and the threads of the pool are joined.
JoinThreads ==
    /\ mode = "joining"
    /\ threadPool' = Joined
    /\ mode' = "loop"
    /\ UNCHANGED <<connVars, ready, crashed, poolVars, acceptor, accepting, watching, toStop, asked>>

-----------------------------------------------------------------------------
\* io_context::run() returns when no operation is in progress and no handler
\* is queued.
NoWork ==
    /\ ready = <<>>
    /\ ~accepting /\ ~watching
    /\ \A c \in Conns : pending[c] = {} /\ timer[c] = "off"

Return ==
    /\ InLoop
    /\ NoWork
    /\ mode' = "returned"
    /\ UNCHANGED <<vars, acceptor, accepting, watching, toStop, threadPool, asked>>

ServerHandle ==
    \/ \E c \in Conns : ServeHandle(c) \/ HandleAccept(c) \/ StopNext(c)
    \/ HandleAcceptError \/ HandleAcceptClosed
    \/ HandleReload \/ HandleShutdown \/ StopAllReturns \/ JoinThreads
    \/ Return

ServerNext ==
    \/ \E c \in Conns :
          \/ \E res \in ReadResults : ServeCompleteRead(c, res)
          \/ \E res \in WriteResults : ServeCompleteWrite(c, res)
          \/ ServeExpire(c)
    \/ \E res \in {"ok", "fail"} : CompleteAccept(res)
    \/ \E sig \in {"HUP", "TERM"} : Raise(sig)
    \/ ServerHandle

ServerSpec == ServerInit /\ [][ServerNext]_allVars

\* The thread of run() executes what is queued, and time passes: a timer that
\* stays armed expires.  Nothing is assumed of the peers or of the signals.
\* JoinThreads is a join() that returns; when it does not is the subject of
\* JoinUnlessMissed in ThreadPool.
ServerFairSpec ==
    /\ ServerSpec
    /\ WF_allVars(ServerHandle)
    /\ \A c \in Conns : WF_allVars(ServeExpire(c))

-----------------------------------------------------------------------------
(* Types; the SignalHandler, which waits once, never has a second signal.  *)
ServerTypeOK ==
    /\ mode \in {"loop", "stopping", "joining", "returned"}
    /\ acceptor \in {"open", "closed"}
    /\ accepting \in BOOLEAN /\ watching \in BOOLEAN /\ asked \in BOOLEAN
    /\ toStop \subseteq Conns
    /\ threadPool \in {"running", "joined"}
    /\ ready \in Seq(Completions \cup ServerCompletions)
    /\ watching => \A i \in 1..Len(ready) : ready[i].op # "signal"

(* The server never stops listening, whatever accepts fail and whatever the*)
(* connections do, until the shutdown; and no two accepts are under way.   *)
QueuedAccepts == {i \in 1..Len(ready) : ready[i].op = "accept"}

AlwaysAccepting ==
    /\ accepting => QueuedAccepts = {}
    /\ \A i, j \in QueuedAccepts : i = j
    /\ acceptor = "open" /\ ~crashed => accepting \/ QueuedAccepts # {}

(* The server keeps the promises of Service: a connection is made once and *)
(* only until the shutdown, a client whose accept had completed but whose  *)
(* handler runs after it included, and run() returns from a shutdown and   *)
(* with no connection open.                                                *)
Phase ==
    CASE crashed -> "failed"
      [] ~crashed /\ mode = "returned" -> "returned"
      [] OTHER -> IF acceptor = "open" THEN "serving" ELSE "draining"

Promise == INSTANCE Service
           WITH phase <- Phase,
                seen <- {c \in Conns : state[c] # "Unborn"},
                clients <- {c \in Conns : Open(c)}

ImplementsService == Promise!Spec

(* When run() has returned nothing is left: no connection is open or       *)
(* referenced, every buffer is back in the pool, the threads are joined.   *)
CleanReturn ==
    mode = "returned" =>
        /\ acceptor = "closed" /\ threadPool = "joined"
        /\ \A c \in Conns : ~Open(c) /\ ~HasBuffer(c) /\ ~Referenced(c)
        /\ Len(pool) = PoolSize

(* While stop_all() is at work the connections it has dealt with are closed*)
(* and the others open; at all other times the manager has just the open   *)
(* ones.                                                                   *)
ManagerAgrees ==
    ~crashed =>
        IF mode = "stopping" THEN toStop = {c \in Conns : Open(c)} /\ toStop \subseteq managed
                             ELSE managed = {c \in Conns : Open(c)}

(* A shutdown that has begun ends: no peer can keep run() from returning,  *)
(* and the threads that the shutdown joins have no task to wait for.       *)
ShutdownReturns == acceptor = "closed" ~> (mode = "returned" \/ crashed)

-----------------------------------------------------------------------------
(* What the documents say of the server and the code does not do.          *)

(* SIGINT, SIGTERM or SIGQUIT start the shutdown, at any time.             *)
SignalHonoured == asked ~> (acceptor = "closed" \/ crashed)
=============================================================================
