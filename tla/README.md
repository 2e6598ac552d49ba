# A formal model of mycppwebfw

This directory is a TLA+ development of the C++ web framework in `src/mycppwebfw`: modules
that model its parts, TLC configurations that check them on small instances, and proofs that
TLAPS checks for every value of the constants. Paths below are relative to `src/mycppwebfw`,
unless they begin with `src/`.

`PROJECT.json` is the index: which definition models which lines, which run checks which
property, which change of which definition each property would notice, the hazards of the
code and where they bite.

## 1. Inventory

| Component | State | Operations | Talks to | What is hard | What makes it correct |
|---|---|---|---|---|---|
| `BufferPool` (`include/.../core/buffer_pool.h`) | `pool_`, `totalAllocated_`, `maxMemory_`, under `mutex_` | `acquire`, `release`, `setMaxMemoryLimit`, queries | every `Connection` holds one buffer of a shared pool | clients that interleave; refusals; an allocation that throws after the counter was raised; buffers beyond the pool | a buffer has one owner; the counter is what is live; nothing leaks; no growth past the limit |
| `ThreadPool` (`core/thread_pool.h`, `.cpp`) | `tasks_` under `queue_mutex_`, `condition_`, atomic `stop_`, `workers_` | constructor, `enqueue`, `worker_thread`, moves, destructor | the server's shutdown joins it | lost wake-ups; `stop_` set without the mutex; tasks that enqueue tasks; throwing tasks; a constructor that fails half-way | no task is lost or run twice; none waits while a worker does; a joined pool is drained; `join()` returns |
| `Connection`, `ConnectionManager` (`core/connection.h`, `.tpp`, `connection_manager.h`) | `state_`, `keep_alive_`, `parser_`, `request_`, `response_`, `buffer_`, `timer_`; the manager's set | `start`, `do_read`, `do_write`, three timers, `shutdown`; the manager's `start`, `stop`, `stop_all` | asio, `BufferPool`, `Parser` | completions, expiries and closes in any order; handlers that run after the close | one operation at a time, always under a timer; managed, and holding a buffer, exactly while open; freed in the end |
| `Server`, `SignalHandler` (`core/server.cpp`, `signal_handler.cpp`) | `acceptor_`, `thread_pool_`, the signal wait | `run`, `do_accept`, `graceful_shutdown`, `reload_config` | all of the above | a shutdown between a completion and its handler; failing accepts; the second signal | listens until the shutdown; nothing starts afterwards; `run()` returns with nothing left |
| `http::Parser`, `Request` (`http/parser.cpp`) | `state_` and the request under construction | `parse` | called by the read handler with what a read brought | reads cut anywhere; characters out of place; what is left behind by a verdict | accepts what is a request, and only that; loses and invents nothing |
| `Router`, `RouteGroup`, `RouteMatcher` (`routing/`) | a trie per method, `named_routes`, global middlewares | `add_route`, `add_static_route`, `group`, `match_route`, `url_for`, `use` | middleware chain, file server, `Request` | routes that overlap, share nodes, replace each other; a second walk for the parameters; a method that a header or the query overrides | the trie finds what the routes mean, whatever the order of registration; a request gets the handler, the file or the refusal it means |
| `MiddlewareChain`, error handler, request id, auth, session (`middleware/`), `ApiKeyRegistry`, `ErrorRenderer` | position in the chain; registry; thread-local request id | `next`, each middleware, `add_key` | the handlers of the application | refusals, exceptions, a second `next()`, the order | the handler runs with everybody's consent; exceptions become a 500; identities are the request's own |
| `FileServer` (`utils/`) | a base directory | `handle_request` | called by the router for a folder | URL and directory that differ | the file that the path names, nothing outside, or 404 |
| `SessionStore`, `TokenBucket`, `ServerConfig` (`utils/`) | a map; tokens; settings | see section 7 | nothing but tests calls them | narrowing of the port; rounding | not modelled, see section 7 |
| Logging, compression, CORS, JWT, content negotiation, stub headers, `devtools/`, `src/src` | – | – | – | – | not modelled, see section 7 |

How they interact: one thread runs the `io_context` (`Server::run`). `do_accept`, the signal
handler and the handlers of the connections are callbacks on it. A connection takes a buffer
from the static pool when it is constructed, gives it back in `shutdown()`, and feeds its
parser from its read handler. At this commit the read handler answers with a stock response
and does **not** call the router, no connection enqueues a task, and `Server::buffer_pool_` is
never set: routing with middlewares, and the thread pool, are subsystems of their own that
meet the server only in the shutdown. The modules are cut the same way.

## 2. Plan

Order, with the most consequential behaviour first, and where each stands:

1. `BufferPool`: done, safety proved.
2. `ThreadPool`: done, safety proved, liveness checked.
3. `Connection`, which uses `BufferPool` through `INSTANCE`: done, safety and the refinement of `BufferPool` proved.
4. `Server`, which EXTENDS `Connection`: done, safety proved, liveness checked.
5. `Service`, what the server promises, without its handlers and queues; `Server` implements it: done, proved.
6. `HttpParser`, and that `Connection`'s summary of the parser covers it: done, proved.
7. `Router`, against a definition of what routes mean that knows no trie: done, proved.
8. `Dispatch`, which EXTENDS `Router`: `match_route()` from a request to its answer: done, proved.
9. `Middleware`: done, safety proved.

What would come next depends on the code: a specification "one request, one answer" for
connection, router and chain together once the read handler calls the router; `ServerConfig`,
`TokenBucket` and `SessionStore` once something other than a test calls them. Of what is there
already, only the liveness properties have no proof.

## 3. Modules and the code

| Module | Models | State ↔ code | Actions ↔ code |
|---|---|---|---|
| `BufferPool` | `buffer_pool.h` | `pool`, `totalAllocated`, `maxMemory` are the members; `held[c]` is who has been lent what; `failures` bounds exceptions | every public operation holds `mutex_` throughout and is one action: `AcquirePooled/Refused/Fresh/Throws`, `ReleaseKeep/Free`, `SetMaxMemoryLimit` |
| `ThreadPool` | `thread_pool.h`, `.cpp` | `tasks`, `stop` are the members; `pc[w]` the place in `worker_thread`; `mutex` who holds `queue_mutex_`; `notifier` who is between the unlock and `notify_one()` | a step is what a thread does between two points where another can see a difference: `Lock`, `Test` (the predicate), `Block`, `Rest`, take and run, `Enqueue` and `Notify`, `DestructorStops` and `DestructorNotifies` apart, `SpuriousWakeup` |
| `Connection` | `connection.tpp`, `connection_manager.h` | the members, one per connection; `pending` and `ready` are asio's: operations in progress, handlers queued | `Complete*`, `Expire` are asio; each `Handle*` is one way through a completion handler, from its first statement to its last |
| `Server` | `server.cpp`, `signal_handler.cpp` | `acceptor`, `accepting`, `watching`, `threadPool` | `HandleAccept*`, `Raise`, `HandleReload`, `HandleShutdown`; the loop of `stop_all()` is `StopNext` step by step with nothing in between |
| `Service` | what `Server` promises | `phase` is what of `mode`, `acceptor` and `crashed` a client can tell; `seen` and `clients` are the connections made and open | `Connect`, `Disconnect`, `BeginShutdown`, `Return`, `Fail` are each one or several handlers of the server |
| `HttpParser` | `parser.cpp`, the read handler | `state`, `req` are the members; `input`, `verdict` remember what was parsed | `Read(chunk)` is one completed read: `parse()` over its characters up to a verdict (a recursive function, over one rule per way out of a state), then `keep_alive_` and the response |
| `Router` | `router.cpp`, `route_matcher.cpp` | `trees[m]` maps the path of parts that leads to a node to the node; `named` is `named_routes`; `table` remembers the registrations | `AddGroupRoute`, `AddRouteThrows`, `AddStaticRoute`; `Best`, `Params`, `Allowed`, `UrlFor` are the search of `match_route`, its parameters, its list of other methods, and `url_for` as functions |
| `Dispatch` | `router.cpp:279-374`, `request.cpp`, `file_server.cpp` | none beside `Router`'s: a request is a constant | `get_query_params`, `OverrideHeader`, `EffectiveMethod`, `FilePath`, `Served`, `match_route` are the functions of the code, each over the data the next one reads |
| `Middleware` | `middleware/*.cpp`, `router.cpp:323-335`, `api_key_registry.cpp`, `error_renderer.cpp` | `chain`, `index` are the members of the chain, `stack` the frames of the calls, `raised` an exception on its way | `CallNext` is `next()`; one action for each way through a middleware; `Unwind` and `Catch` for exceptions |

`MC*` modules and their `.cfg` files are instances. The modules ending in
`Proofs` hold theorems. Operators named `Bug...` are variations of the definition that follows them, with a
plausible mistake in it; no specification uses them, and PROJECT.json says which property
notices which.

Abstractions that matter:

* **asio** is modelled by its contract. An operation completes at some time with some result and
  its handler is then queued, first in first out, and cannot be withdrawn; `close()` and `cancel()`
  abort only what has not completed. A handler of an aborted timer wait does nothing and is left
  out. That a shutdown runs between a completion and its handler is ordinary with a reactor, which
  fetches several events at once.
* `response` is kept only while it is being written; the state `Idle` is never seen between
  handlers, because the handler that enters it calls `do_read()` two statements later, which also
  replaces the idle timer by the read timer (`connection.tpp:116-118`). So the idle timeout is never
  in force, and a connection that is kept alive is timed by the read timer.
* In `Connection`, the data of a read is a whole well-formed request or something else, and the
  parser is at the start, in the middle, or done. `ReadConforms` in `HttpParser` is what makes this
  more than a guess: every read of the automaton ends as `Connection` allows.
* A **character** is a member of a class; a word that only the handler compares (`Host`,
  `keep-alive`) is one character, so its letters and their case are not modelled.
* A **path** is the sequence of its non-empty segments, which is how both `add_route` and
  `match` split it; a regular expression is the set of segments it accepts. The pattern written
  `/` is the empty sequence; the pattern written as an empty string is not modelled. `FileServer` sees the
  path as it is written; it is taken to be written with one slash before each segment, and no segment of the
  instance begins with the text of another, so that taking off a prefix is taking off segments.
* A **query** is a sequence of `=`, `&` and the words between them; a word is compared as a whole. A **folder**
  is the set of paths an `ifstream` can be opened for, directories included, as on POSIX.
* Of the **Cookie** header the values of its pairs named `session_id` are kept, in their order; of several
  `X-HTTP-Method-Override` headers all values are.
* **Identifiers** are generated without repetition; `request_id_generator.cpp:13` calls its own
  random ones "unique enough".
* Undefined values are any value: `http_version_minor` before the parser sets it makes
  `keep_alive_` any Boolean (`connection.tpp:65`).

## 4. Runs

| Run | Instance | What it shows |
|---|---|---|
| `buffer_pool` | 2 clients, 4 buffers, a pool of 2, limits 0, 4 and 6 bytes at 2 per buffer, up to 2 failed allocations | ownership, the account, the limit, and that a pool whose buffers are all back is full, through every interleaving |
| `thread_pool` | 3 workers, 2 clients, 4 tasks (one enqueues another, one throws), destruction or move at any time, a constructor that may fail | no task lost, doubled or left while a worker sleeps; everything enqueued is done; the destructor returns unless a worker was caught between its predicate and its wait |
| `thread_pool_join` (violation) | 2 workers | the destructor can wait for ever: `stop_` and `notify_all()` fall into that gap |
| `connection` | 2 connections, 3 buffers, a pool of 1 | one operation per connection, always timed; manager and buffer agree with the state; the pool is used as `BufferPool` says |
| `connection_crash` (violation) | 1 connection | a client answered on a kept-alive connection disconnects; the 500 for the failed read completes after `stop()` took the buffer, and the write handler reads into a null buffer |
| `connection_reuse` (violation) | 1 connection | the second good request on a kept-alive connection is answered 400: the parser is never reset |
| `server` | 2 connections, signals and failing accepts at any time | always listening before the shutdown, a clean return, and `Service` implemented: nothing is started after the shutdown, an accept completed before it included |
| `server_live` | 1 connection whose peer may stall | operations end, closed connections are freed, a shutdown that began returns |
| `server_signal` (violation) | 1 connection | after a SIGHUP no signal is heard any more |
| `http_parser` | up to 4 reads out of some 40 chunks: single characters of every class, pieces of lines, whole requests, two at once | what is accepted was written, what is written is accepted, `headers.back()` always exists, and `Connection`'s view of the parser holds |
| `router` | every two registrations of 10 patterns (with 2 group prefixes, a name or none, a priority or none, 2 methods) and 3 folders, one of them under another name than its directory's; 11 paths, 51 requests | search, parameters and URLs agree with what the routes mean; every request gets the handler, file or refusal that its method (or the one a header or the query asks for) and its path mean |
| `middleware` | 2 requests out of 5 through chains of up to 5 | consent, exceptions, identities |

**Bounds.** A pool of one buffer with two connections makes the second buffer one beyond the
pool, so both branches of `release()` are taken. Three workers are the least number where a
`notify_one()` can wake one worker while a second is between predicate and wait and a third has
exited. Each task is enqueued, and each connection accepted, at most once: a second life of either
begins in the same state. The number of reads of a connection is not bounded in `Connection`, which
is finite without; in `HttpParser` four reads reach a verdict, another request after it, and a header cut twice.
Two routes are enough for each way in which one route can be in another's way (same node,
one above the other, same priority); three would show only pairs of pairs. Two requests are enough
for a thread-local value to be stale. The requests of `router` have each method on each path, and on one path every way of
overriding: one header, two, an empty one, `_method` alone, before and after another pair, twice, as a value, and queries that are no list of pairs.

The `server` run has no timers (`CanExpire = FALSE`); `server_live` has them, with one connection. Buffers and
connections are symmetric in the safety runs; no run that checks liveness uses symmetry.
`CHECK_DEADLOCK FALSE` is set where the system really ends: a server that has returned, a pool that has been destroyed,
connections that are all closed, a bound that is reached.

**Properties with a precondition.** They are stated where the code has no meaning to be right
about, and each is a hazard of its own in PROJECT.json:

* `Orderly`: routes that share a node and are spelled differently up to it (`:id` and `*id`; children are kept by part
  alone, `router.cpp:174`) or lie below a folder of files. What the code does then is in the model.
* `Substitutable`, of the URLs: routes of literals and plain parameters, of which only the last may be optional. `url_for()`
  replaces the name and nothing else (`router.cpp:268`).
* `Plain`: no segment of the path is the name of a parameter. With one, `recalculate_params`
  takes the node for a literal child and binds nothing (`route_matcher.cpp:139`).
* `WellFormed`: queries that are lists of pairs. In another, text without a `=` before it replaces the value of the name before
  (`request.cpp:56`), be it `_method`.
* `InPlace`: folders whose URL is the name of their directory. Below another URL the file server looks for the whole path in
  the directory (`file_server.cpp:18`).
* `ParamsAgree` leaves out a missing optional last segment behind other parameters: those are lost
  (`route_matcher.cpp:133`).
* `HandlerIsGated` and `ExceptionsAreReported` are about requests in which nobody calls `next()` twice. The
  position is shared by all frames (`middleware_chain.cpp:17`), so that a second call resumes behind a middleware that had
  refused.

`LookupAgrees` compares sets: `std::sort` is not stable, and between equal priorities any
match may win. A regular expression without a priority of its own ranks 0, below a wildcard
(`router.cpp:213-227`); the reference ranks it so too, since nothing in the repository orders the two.

`error_handler.cpp:18` says "High priority to run first" of priority 100, and
`request_id.cpp:20` "after error handler" of 90; the sort is ascending (`router.cpp:331`, and
`MiddlewareOrdering` in `tests/middleware_tests` wants it so), so the error handler runs last of the
framework's middlewares. `ExceptionsAreReported` says what follows: an exception of a middleware of lower priority
leaves the route, and only one thrown behind the error handler is a 500.

## 5. Fairness

* `ThreadPool`: weak fairness of each worker's `Work`, of each `notify_one()` that an `enqueue()` still owes, and
  of the owner's `notify_all()` and its returns from `join()`. None for spurious wake-ups, for calls of
  `enqueue()`, for construction or for the owner's decision to destroy the pool or move from it. Weak
  fairness of `Lock` is all that is asked of the mutex: a worker may lose it to the others again and
  again. A task that is run returns or throws.
* `Server`: weak fairness of the handlers together, since one thread takes them off a queue, and of each armed
  timer, since time passes. None for peers, accepts or signals: a peer may stall for ever.
* `JoinThreads` in `Server` is a `join()` that returns. When it does not is what `JoinUnlessMissed` and
  `ShutdownJoins` say of `ThreadPool`.

The other modules have no fairness; their properties are safety.

## 6. Proofs

Assumptions are the `ASSUME`s of the modules, all of them: finite sets, disjoint names and classes of characters, sizes in
`Nat`, the shape of patterns, requests and what a read brings (something: a read that succeeds is not empty). TLC
evaluates them on every run.

`BufferPoolProofs`: `TypeCorrect`, `OwnershipHolds`, `AccountingHolds`, `QuiescenceHolds`, `LimitHolds`.
The inductive invariant `IInv` is type, exclusive ownership, `Accounting` (the counter is the number of
live buffers plus the failed allocations) and `StockKept`: the pool and the buffers lent make up
at least the initial stock. Without `StockKept` the return of the last buffer lent could not be
seen to leave a full pool, which is what `QuiescentPoolFull` says. `PopBackProperties`, `LendBuffer` and `ReturnBuffer` say what taking
the last element and moving a buffer do to the sets and to their cardinalities. `LimitHolds` is an action
property: no step counts a buffer past a limit that is set.

`ThreadPoolProofs`: `TypeCorrect`, `SafeTakes`, `TasksAccounted`, `WorkConserved`, `PoolDrained`, for any number of
workers, clients and tasks. `Base` (type, mutual exclusion, `TakeIsSafe`, and that a worker about to
wait has seen the queue empty under the mutex) is inductive by itself. On top of it each of three accounts is:
where a task is (`TaskAccounted`: queued once, in one hand, or done); wake-ups against queued tasks
(`WorkConserving`: while a worker waits, each queued task has a worker on its way to it or a
`notify_one()` still to come); and who is gone (`StopKnown`, `EmptyWhenExited`: only a pool that is being stopped
loses workers, and when the last has left the queue is empty). `BlockedOnEmpty`, that a worker about to wait has seen
the queue empty and still holds the mutex, is what `WorkConserving` needs when it begins to wait. `Drained`
follows from the last two with `TaskAccounted`.

`ConnectionProofs`: `TypeCorrect`, `SingleOpHolds`, `WatchedHolds`, `ManagedHolds`, `BufferHolds`, `PoolRefined`, for any number
of connections and buffers, with or without timeouts. The invariants of the runs are not inductive: that a handler will find
its connection as it left it depends on what is queued. `ConnInv(c)` says of each connection that its operation is in progress or
its completion is queued, never both and never twice; that an open connection is never given an aborted completion; and that
its timer is armed or the expiry of that very timer is queued. The queue is unbounded, so it is described by `Some` and
`AtMostOne` (whether, and how often, it holds an element of a set), and `TakeHead` and `PutLast` are the
only facts about sequences that the rest needs. `Untouched` is why one connection's handlers leave the others' invariants alone. All
lemmas about handlers are stated for a queue that may hold more than connections know of (`Good(E)`,
`Queueable(E)`). `PoolRefined` maps each step to a step of `BufferPool` or to none.

`ServerProofs`: `ServerTypeCorrect`, `AcceptingHolds`, `ManagerHolds`, `CleanReturnHolds`, `ConnectionsHold`,
`BuffersAreOwned`, `ServiceImplemented`. `Good(All)` takes the lemmas of the connections over to the server's queue; `Beside` says the
converse, that connections do not touch what is queued for the acceptor and the signal handler. `ServerInv` adds who is being
stopped in which mode. That the pool is full when `run()` has returned is the theorem of `BufferPoolProofs`,
instanced for the server's pool: `PoolParameters` proves its assumptions, `PoolSteps` that the steps are the
same. `ServiceImplemented` is the refinement: initial states map to initial states (`ServerInit`), steps to steps or stutters
(`PromiseStep`), along `Phase`.

`MiddlewareProofs`: `TypeCorrect`, `ConsentHolds`, `ExceptionsHold`, `IdentityHolds`, for any middlewares, groups, requests and
number of either. The invariant `FramesInOrder` is about a stack of any height over a chain of any length: a frame that has not
called `next()` is where the shared position is, and as long as nobody has called twice the i-th frame is
the i-th middleware's. From it follows that the handler has everybody below it (`Consent`: an auth
middleware below has seen a credential that is still valid, since keys are only added) and that an exception, thrown by frame k and unwound to
frame n, has met no error handler between the two (`Exceptions`). `SortedProperties` is about every order `std::sort` may produce.

`RouterProofs`: `TypeCorrect`, for any patterns and any number of registrations. The inductive invariant adds to
`TypeOK` what the nodes and the entries of the table are: a trie is a function on sequences of parts with the
parent of each in its domain (`Rooted`), and a handler is an entry of the table for the trie's method and the node's
path (`Handlers`). `LineProperties` says that the nodes of a pattern are the beginnings of its path, each reached from the one
before; `GrownProperties`, `HandledProperties` and `FolderProperties` say what making these nodes, setting the handler and
setting the directory do to a trie; and `RegistrationProperties` that a trie which only continues the old one by the new
registration keeps the invariant. That is where the search starts from. Maps are written with `Single` and `Over`, which
are `:>` and `@@` of module TLC spelled out: of those the provers know nothing.

`DispatchProofs`: `LookupIsRight`, `ParamsAreRight`, `UrlsAreRight`, `AnswersAreRight`, for any patterns, folders, paths and
requests, and any number of registrations. The invariant `Agreement` is what a trie knows of the table as long as the routes of
its method are not in each other's way: its nodes are the beginnings of the live patterns; each node has the type, and
what goes with it, that the segment of every pattern through it spells; and the handler, the directory and the priority at a node
are those of the live route that ends there, or none. `RegistrationAgrees` shows that one more registration keeps it, with
the cases that make registration hard: a node that exists and is given a second life, a route replaced by its equal, a
regular expression that inherits a priority. From there on the argument is about a trie that stands still. `LevelIs`:
the nodes the search visits level by level are those a walk leads to. `EntersIsFits` and `MatchesMean`: on a path without
the names of parameters, walks are beginnings of patterns that fit, so that the matches are the routes that are meant, and
`BestIsMeant`: the best of one are the best of the other, ranks being priorities. `ParamsAre` compares the second walk
with the pattern, `UrlProperties` what `url_for()` puts at each place. `ScannedStep` is the invariant of the scan
of a query, position by position: a name, a word, and the pairs seen so far as a map in which the last of a name
counts; `AnswersAreRight` puts method, search and file server together.

`HttpParserProofs`: `TypeCorrect`, `BackHolds`, `WrittenAccepted`, `AcceptedWritten`, `ReadsConform`, for any characters, requests and number of
reads. Four invariants carry them. `Typed` adds to the types that a header is under way in the states of a header
line (`Open`), which is `BackIsSafe`. `Tracking` says that the cuts between reads do not matter: up to the first verdict the
parser is where one call of `parse()` over everything read so far would have left it (`AfterConcat`: reading two texts is
reading one; `Decided`: a verdict is final; `GoodIsLast` and `LastStays`: behind GOOD only the verdict can change).
`WrittenAccepted` then only has to follow the text of one request through the automaton, and does it a
piece at a time (`MethodRead`, `UriRead`, `VersionTextRead`, `NumbersRead`, `HeaderRead`, `EndRead`), each by `Spelled`: a word is
read if each of its characters leads on. `Accepts` puts the pieces together; a beginning that was BAD would make the whole BAD.
`Conforming` says that nothing returns to the first state and that the version is known wherever the end of
the header can be reached, so that behind the end of a request there is only one value for `keep_alive_`; with it
`ReadIsParsed` compares each read with `Parsed` of `Connection`.

`AcceptedWritten` is the converse of `WrittenAccepted`, and is about texts nobody has written down beforehand, so that it follows
the automaton and not the text. `Traced` says that what was read, without what folding added to it, is the beginning of the text
of the request built so far (`Shaped`, which says of each state how far that beginning goes; kept by `MethodGrows`, `VersionGrows`,
`StartGrows` and `LineGrows`, one for each group of states), that the version's numbers are the last digits read or
stand somewhere in front of them (`Tracked`), and how what was read ends (`Ended`). The last is what the strengthening is needed for: whether a
space adds to the text, or takes the line break in front of it away, is a matter of all that was read, and the automaton decides it by its
state alone. `UnfoldedMore` and `UnfoldedBreak` are what one more character does to an unfolded text. The
fourth invariant, `Ending`, places the first verdict: it falls on the last character of `input`, and all
in front of it is undecided. So `GoodIsWritten` has one step to look at, the line feed in `EXPECTING_NEWLINE_3`. That
property is stated with recursive functions and names the numerals among what was read, so that neither the number of digits
nor that of reads is bounded.

Where these proofs need what a recursive function computes, or what holds along a sequence, they use
`Induction`: among the numbers up to n that lack a property there would be a least one, which is an instance of the
well-foundedness of `<` on naturals for one set. The induction theorems of the library take an operator as
parameter, which the provers cannot instantiate.

Only model-checked: all liveness (`EnqueuedIsDone`, `ShutdownReturns`, `OperationsEnd`,
`ClosedIsFreed`, `JoinUnlessMissed`), which is out of the prover's reach, as is `ENABLED`. Every invariant and
every action property of a passing run is a theorem.

## 7. Not modelled

* Server: IPv6 and TLS, address resolution, `max_connections` (`ServerConfig` reads and validates it, the server does not ask for it), more than one thread in `run()`.
* Thread pool: `queue_size`, `max_threads`, `idle_timeout_ms` and `auto_scaling`, which nothing reads, and `resize()`, which
  has no body; the target of a move assignment, for which a second pool is needed; `min_threads = 0`.
* Parser: bytes above 127 (`isalpha` of a negative `char` is undefined), versions of more digits than an `int` holds.
* Request: percent-encoding, which the code does not decode.
* Response: buffers and status lines, which are formatting.
* `FileServer`: reading the file, and what `rdbuf()` of a directory gives.
* `ServerConfig` is read by its tests and by nothing else; each of its functions converts text to numbers, once. The one
  interesting point, the port narrowed to sixteen bits before `validate()` sees it, is listed as a hazard, and no server depends on it yet.
* `TokenBucket` and `SessionStore` are called by nothing (the session middleware is given a store and does not use it): each operation is
  short and, of the store, under one mutex, and without a caller there is no sequence of operations to be right about. Rate limiter, CORS and compression have headers and no
  implementation that the build uses.
* Logging, formatters, sinks: output without state that anything reads back.
* `jwt_parser.cpp` compares with one constant, which is `Token` in `Middleware`.
* `src/src` and `src/include` are an alternative tree that no CMakeLists builds. `third_party` is vendored.
