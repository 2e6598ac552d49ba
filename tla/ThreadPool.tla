----------------------------- MODULE ThreadPool -----------------------------
(***************************************************************************)
(* The worker pool of mycppwebfw::core (core/thread_pool.h, .cpp): a queue *)
(* of tasks under queue_mutex_, a condition variable, an atomic stop_ that *)
(* the destructor and the move operations set without the mutex, and       *)
(* min_threads workers that are joined at the end.                         *)
(*                                                                         *)
(* The owner constructs the pool and destroys it or moves from it; clients *)
(* call enqueue(); workers run worker_thread(), and the task a worker is   *)
(* running may itself call enqueue().  A step is what one thread does      *)
(* between two points where another thread can see a difference.           *)
(*                                                                         *)
(* worker_thread() also polls a stop flag of its own, which nothing sets;  *)
(* max_threads, idle_timeout_ms, auto_scaling and queue_size of the        *)
(* configuration are read by nothing, and resize() has no body.            *)
(***************************************************************************)
EXTENDS Naturals, Sequences, FiniteSets

CONSTANTS
    Workers,       \* one per config_.min_threads
    Clients,       \* the threads outside the pool that call enqueue()
    Tasks,         \* the tasks there can be, each enqueued at most once
    Spawns,        \* Spawns[t]: the tasks that running t may enqueue
    Throwing,      \* the tasks whose call throws
    NoTask,        \* what a worker has in hand when it runs nothing
    NoThread,      \* the owner of a mutex that is free
    CanMove,       \* whether the owner may move from the pool
    SpawnMayFail   \* whether the constructor of a std::thread may throw

ASSUME ThreadPoolAssumption ==
    /\ IsFiniteSet(Workers) /\ Workers # {}
    /\ IsFiniteSet(Clients) /\ Clients \cap Workers = {}
    /\ Spawns \in [Tasks -> SUBSET Tasks]
    /\ Throwing \subseteq Tasks
    /\ NoTask \notin Tasks
    /\ NoThread \notin Workers \cup Clients
    /\ CanMove \in BOOLEAN /\ SpawnMayFail \in BOOLEAN

VARIABLES
    owner,     \* where the owner is in the life of the pool
    pc,        \* pc[w]: where worker w is in worker_thread()
    mutex,     \* the worker that holds queue_mutex_ from one step to another
    stop,      \* stop_
    tasks,     \* tasks_
    hand,      \* hand[w]: the task that w took off the queue and runs
    notifier,  \* the threads in enqueue() between unlock and notify_one()
    enqueued,  \* the tasks enqueue() was called with
    done       \* the tasks whose call has returned

vars == <<owner, pc, mutex, stop, tasks, hand, notifier, enqueued, done>>

Threads == Workers \cup Clients

\* The process has not been terminated.
Up == owner # "terminated"

Init ==
    /\ owner = "constructing"
    /\ pc = [w \in Workers |-> "unborn"]
    /\ mutex = NoThread
    /\ stop = FALSE
    /\ tasks = <<>>
    /\ hand = [w \in Workers |-> NoTask]
    /\ notifier = {}
    /\ enqueued = {}
    /\ done = {}

-----------------------------------------------------------------------------
(* The owner.                                                              *)

AllExited == \A w \in Workers : pc[w] = "exited"

\* The constructor starts its workers one by one; the first ones run while
\* it is still starting the others.
SpawnWorker(w) ==
    /\ owner = "constructing"
    /\ pc[w] = "unborn"
    /\ pc' = [pc EXCEPT ![w] = "lock"]
    /\ UNCHANGED <<owner, mutex, stop, tasks, hand, notifier, enqueued, done>>

ConstructorReturns ==
    /\ owner = "constructing"
    /\ \A w \in Workers : pc[w] # "unborn"
    /\ owner' = "alive"
    /\ UNCHANGED <<pc, mutex, stop, tasks, hand, notifier, enqueued, done>>

\* std::thread throws while workers_ is filled: the vector is destroyed, and
\* with it every joinable thread in it, which terminates the process.
ConstructorThrows ==
    /\ SpawnMayFail
    /\ owner = "constructing"
    /\ \E w \in Workers : pc[w] = "unborn"
    /\ owner' = IF \A w \in Workers : pc[w] = "unborn" THEN "failed" ELSE "terminated"
    /\ UNCHANGED <<pc, mutex, stop, tasks, hand, notifier, enqueued, done>>

\* ~ThreadPool: the flag is set without queue_mutex_.  To destroy the pool
\* while a client is inside enqueue() is a use after free of the caller's.
DestructorStops ==
    /\ owner = "alive"
    /\ notifier \cap Clients = {}
    /\ stop' = TRUE
    /\ owner' = "stopping"
    /\ UNCHANGED <<pc, mutex, tasks, hand, notifier, enqueued, done>>

Waiting == {w \in Workers : pc[w] = "waiting"}

\* notify_all(): only the workers that wait at this moment are woken.
BugWakeOne ==
    IF Waiting = {} THEN pc ELSE [pc EXCEPT ![CHOOSE w \in Waiting : TRUE] = "lock"]

WakeAll == [w \in Workers |-> IF pc[w] = "waiting" THEN "lock" ELSE pc[w]]

DestructorNotifies ==
    /\ owner = "stopping"
    /\ pc' = WakeAll
    /\ owner' = "joining"
    /\ UNCHANGED <<mutex, stop, tasks, hand, notifier, enqueued, done>>

DestructorReturns ==
    /\ owner = "joining"
    /\ AllExited
    /\ owner' = "destroyed"
    /\ UNCHANGED <<pc, mutex, stop, tasks, hand, notifier, enqueued, done>>

\* The move constructor and the move assignment treat the pool they move
\* from alike: stop it and join its workers, without notify_all().
MoveStops ==
    /\ CanMove
    /\ owner = "alive"
    /\ notifier \cap Clients = {}
    /\ stop' = TRUE
    /\ owner' = "moving"
    /\ UNCHANGED <<pc, mutex, tasks, hand, notifier, enqueued, done>>

MoveReturns ==
    /\ owner = "moving"
    /\ AllExited
    /\ owner' = "moved"
    /\ UNCHANGED <<pc, mutex, stop, tasks, hand, notifier, enqueued, done>>

\* The destructor of the moved-from pool calls join() on threads that have
\* been joined: std::system_error leaves a destructor.
DestroyMoved ==
    /\ owner = "moved"
    /\ owner' = "terminated"
    /\ UNCHANGED <<pc, mutex, stop, tasks, hand, notifier, enqueued, done>>

Owner ==
    \/ \E w \in Workers : SpawnWorker(w)
    \/ ConstructorReturns \/ ConstructorThrows
    \/ DestructorStops \/ DestructorNotifies \/ DestructorReturns
    \/ MoveStops \/ MoveReturns \/ DestroyMoved

-----------------------------------------------------------------------------
(* enqueue().                                                              *)

\* A client has the pool only while it is alive; a running task has it until
\* its worker is joined.
MayEnqueue(th, t) ==
    \/ th \in Clients /\ owner = "alive"
    \/ th \in Workers /\ pc[th] = "run" /\ t \in Spawns[hand[th]]

BugNotifiersWith(th) == IF tasks = <<>> THEN notifier \cup {th} ELSE notifier

NotifiersWith(th) == notifier \cup {th}

\* The critical section.
Enqueue(th, t) ==
    /\ Up
    /\ MayEnqueue(th, t)
    /\ th \notin notifier
    /\ t \notin enqueued
    /\ mutex = NoThread
    /\ tasks' = Append(tasks, t)
    /\ enqueued' = enqueued \cup {t}
    /\ notifier' = NotifiersWith(th)
    /\ UNCHANGED <<owner, pc, mutex, stop, hand, done>>

\* notify_one(): one of the workers that wait, or nobody.
Notify(th) ==
    /\ Up
    /\ th \in notifier
    /\ notifier' = notifier \ {th}
    /\ \/ \E w \in Waiting : pc' = [pc EXCEPT ![w] = "lock"]
       \/ Waiting = {} /\ pc' = pc
    /\ UNCHANGED <<owner, mutex, stop, tasks, hand, enqueued, done>>

-----------------------------------------------------------------------------
(* worker_thread().                                                        *)

\* The mutex is taken, on entry or after a wake-up.
Lock(w) ==
    /\ Up
    /\ pc[w] = "lock"
    /\ mutex = NoThread
    /\ mutex' = w
    /\ pc' = [pc EXCEPT ![w] = "test"]
    /\ UNCHANGED <<owner, stop, tasks, hand, notifier, enqueued, done>>

\* The predicate of condition_.wait().
BugReadyAlways == TRUE
BugReadyNoTask == stop

Ready == stop \/ tasks # <<>>

Test(w) ==
    /\ Up
    /\ pc[w] = "test"
    /\ pc' = [pc EXCEPT ![w] = IF Ready THEN "take" ELSE "block"]
    /\ UNCHANGED <<owner, mutex, stop, tasks, hand, notifier, enqueued, done>>

\* wait() gives the mutex up and starts to listen, in one step.
Block(w) ==
    /\ Up
    /\ pc[w] = "block"
    /\ pc' = [pc EXCEPT ![w] = "waiting"]
    /\ mutex' = NoThread
    /\ UNCHANGED <<owner, stop, tasks, hand, notifier, enqueued, done>>

SpuriousWakeup(w) ==
    /\ Up
    /\ pc[w] = "waiting"
    /\ pc' = [pc EXCEPT ![w] = "lock"]
    /\ UNCHANGED <<owner, mutex, stop, tasks, hand, notifier, enqueued, done>>

BugMustReturn == stop

MustReturn == stop /\ tasks = <<>>

Return(w) ==
    /\ Up
    /\ pc[w] = "take"
    /\ MustReturn
    /\ pc' = [pc EXCEPT ![w] = "exited"]
    /\ mutex' = NoThread
    /\ UNCHANGED <<owner, stop, tasks, hand, notifier, enqueued, done>>

BugRest == tasks

Rest == Tail(tasks)

Take(w) ==
    /\ Up
    /\ pc[w] = "take"
    /\ ~MustReturn
    /\ hand' = [hand EXCEPT ![w] = Head(tasks)]
    /\ tasks' = Rest
    /\ pc' = [pc EXCEPT ![w] = "run"]
    /\ mutex' = NoThread
    /\ UNCHANGED <<owner, stop, notifier, enqueued, done>>

BugHandsFreed(w) == hand

HandsFreed(w) == [hand EXCEPT ![w] = NoTask]

Finish(w) ==
    /\ Up
    /\ pc[w] = "run"
    /\ w \notin notifier
    /\ hand[w] \notin Throwing
    /\ done' = done \cup {hand[w]}
    /\ hand' = HandsFreed(w)
    /\ pc' = [pc EXCEPT ![w] = "lock"]
    /\ UNCHANGED <<owner, mutex, stop, tasks, notifier, enqueued>>

\* An exception that leaves task() leaves the thread's function.
Throw(w) ==
    /\ Up
    /\ pc[w] = "run"
    /\ w \notin notifier
    /\ hand[w] \in Throwing
    /\ owner' = "terminated"
    /\ UNCHANGED <<pc, mutex, stop, tasks, hand, notifier, enqueued, done>>

Work(w) ==
    \/ Lock(w) \/ Test(w) \/ Block(w)
    \/ Return(w) \/ Take(w) \/ Finish(w) \/ Throw(w)

-----------------------------------------------------------------------------
Next ==
    \/ Owner
    \/ \E th \in Threads, t \in Tasks : Enqueue(th, t)
    \/ \E th \in Threads : Notify(th)
    \/ \E w \in Workers : Work(w) \/ SpuriousWakeup(w)

Spec == Init /\ [][Next]_vars

\* A thread that can run does run; a join() whose threads are gone returns.
\* Nobody has to enqueue, to destroy the pool, or to wake up spuriously.
Fairness ==
    /\ \A w \in Workers : WF_vars(Work(w))
    /\ \A th \in Threads : WF_vars(Notify(th))
    /\ WF_vars(DestructorNotifies \/ DestructorReturns \/ MoveReturns)

FairSpec == Spec /\ Fairness

-----------------------------------------------------------------------------
Queued == {tasks[i] : i \in 1..Len(tasks)}
Running == {w \in Workers : pc[w] = "run"}
InHand == {hand[w] : w \in Running}

(* Types; a worker has a task in hand just while it runs one.              *)
TypeOK ==
    /\ owner \in {"constructing", "failed", "alive", "stopping", "joining",
                  "destroyed", "moving", "moved", "terminated"}
    /\ pc \in [Workers -> {"unborn", "lock", "test", "block", "waiting",
                           "take", "run", "exited"}]
    /\ mutex \in Workers \cup {NoThread}
    /\ stop \in BOOLEAN
    /\ tasks \in Seq(Tasks)
    /\ hand \in [Workers -> Tasks \cup {NoTask}]
    /\ \A w \in Workers : hand[w] # NoTask <=> pc[w] = "run"
    /\ notifier \subseteq Threads
    /\ enqueued \subseteq Tasks
    /\ done \subseteq Tasks

(* A worker past the condition finds a task or returns: front() and pop()  *)
(* are never called on an empty queue, although stop_ changes without the  *)
(* mutex between the two tests that make it so.                            *)
TakeIsSafe == \A w \in Workers : pc[w] = "take" => MustReturn \/ tasks # <<>>

(* Each task given to enqueue() is in exactly one place, and there once:   *)
(* in the queue, in the hands of one worker, or run to its end.            *)
QueuedOnce == \A i, j \in 1..Len(tasks) : tasks[i] = tasks[j] => i = j
OneRunner == \A v, w \in Running : hand[v] = hand[w] => v = w
Apart ==
    /\ Queued \cap InHand = {}
    /\ Queued \cap done = {}
    /\ InHand \cap done = {}

TaskAccounted ==
    /\ enqueued = Queued \cup InHand \cup done
    /\ QueuedOnce /\ OneRunner /\ Apart

(* The condition variable loses no work: while a worker waits, every queued*)
(* task has a worker on its way to the queue or a notify_one() still to    *)
(* come.  A wake-up taken by another worker, a notification sent when      *)
(* nobody waited and a spurious one must all add up.                       *)
OnTheWay == {w \in Workers : pc[w] \in {"lock", "test", "take"}}

WorkConserving ==
    Waiting # {} => Len(tasks) <= Cardinality(OnTheWay) + Cardinality(notifier)

(* The pool is drained before it goes: when the destructor or a move has   *)
(* joined the workers, every task ever enqueued has been run, those that   *)
(* running tasks enqueued during the shutdown included.                    *)
Drained == owner \in {"destroyed", "moved"} => enqueued = done

(* Every task is run in the end, whatever the order of enqueue(), wake-ups *)
(* and shutdown, unless a worker's exception ends the process.             *)
EnqueuedIsDone ==
    \A t \in Tasks : t \in enqueued ~> (t \in done \/ owner = "terminated")

(* The destructor returns unless a worker had seen stop_ unset and did not *)
(* wait yet when it was set: that worker can miss notify_all(), and is the *)
(* only reason for join() to hang.                                         *)
JoinUnlessMissed ==
    (owner = "stopping" /\ \A w \in Workers : pc[w] # "block")
        ~> owner \in {"destroyed", "terminated"}

-----------------------------------------------------------------------------
(* What the documents say of the pool and the code does not do.            *)

(* A shutdown that has begun comes to its end: the workers are joined.     *)
ShutdownJoins == owner = "stopping" ~> owner \in {"destroyed", "terminated"}
=============================================================================
