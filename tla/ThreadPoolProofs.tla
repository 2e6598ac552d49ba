-------------------------- MODULE ThreadPoolProofs --------------------------
(***************************************************************************)
(* Proofs that the safety invariants of ThreadPool hold for any number of  *)
(* workers, clients and tasks.  Base is inductive by itself; the accounts  *)
(* of tasks and of wake-ups and the draining are inductive on top of it.   *)
(***************************************************************************)
EXTENDS ThreadPool, FiniteSetTheorems, SequenceTheorems, TLAPS

(* The critical section of worker_thread() (lines 49 to 54) is one.        *)
InCritical == {w \in Workers : pc[w] \in {"test", "block", "take"}}

MutexHeld == \A w \in Workers : w \in InCritical <=> mutex = w

(* A worker about to wait has seen the queue empty, under the mutex.       *)
BlockedOnEmpty == \A w \in Workers : pc[w] = "block" => tasks = <<>>

Base == TypeOK /\ MutexHeld /\ TakeIsSafe /\ BlockedOnEmpty

(* Only a pool that is being stopped has workers that are gone, and the    *)
(* last of them left the queue empty.                                      *)
StopKnown ==
    /\ owner \in {"constructing", "failed", "alive"} => ~stop
    /\ \A w \in Workers : pc[w] = "exited" => stop
    /\ owner \in {"destroyed", "moved"} => AllExited

EmptyWhenExited == AllExited => tasks = <<>>

IInv == Base /\ TaskAccounted /\ WorkConserving /\ StopKnown /\ EmptyWhenExited

-----------------------------------------------------------------------------
(* front() and pop() on a non-empty queue.                                 *)
LEMMA HeadTailTasks ==
    ASSUME tasks \in Seq(Tasks), tasks # <<>>
    PROVE  /\ Len(tasks) \in Nat \ {0}
           /\ Head(tasks) \in Tasks /\ Head(tasks) = tasks[1]
           /\ Tail(tasks) \in Seq(Tasks)
           /\ Len(Tail(tasks)) = Len(tasks) - 1
           /\ \A i \in 1 .. Len(Tail(tasks)) : Tail(tasks)[i] = tasks[i + 1]
<1>1. Len(tasks) \in Nat /\ Len(tasks) # 0
  BY EmptySeq, LenProperties
<1>2. Head(tasks) \in Tasks
  BY HeadTailProperties
<1>. QED  BY <1>1, <1>2, HeadTailProperties

(* The critical section is one, front() and pop() find a task: initially.  *)
LEMMA InitBase == Init => Base
<1>. SUFFICES ASSUME Init PROVE Base
  OBVIOUS
<1>. USE ThreadPoolAssumption DEF Init
<1>1. tasks \in Seq(Tasks)
  BY EmptySeq
<1>2. TypeOK
  BY <1>1 DEF TypeOK
<1>. QED  BY <1>2 DEF Base, MutexHeld, InCritical, TakeIsSafe, BlockedOnEmpty

(* ... and after each step.                                                *)
LEMMA NextBase == Base /\ [Next]_vars => Base'
<1>. SUFFICES ASSUME Base, [Next]_vars PROVE Base'
  OBVIOUS
<1>. USE ThreadPoolAssumption
         DEF Base, TypeOK, MutexHeld, InCritical, TakeIsSafe, BlockedOnEmpty, MustReturn, Threads
<1>1. CASE Owner
  <2>1. ASSUME NEW w \in Workers, SpawnWorker(w) PROVE Base'
    BY <2>1 DEF SpawnWorker
  <2>2. CASE ConstructorReturns \/ ConstructorThrows
    BY <2>2 DEF ConstructorReturns, ConstructorThrows
  <2>3. CASE DestructorStops \/ MoveStops
    BY <2>3 DEF DestructorStops, MoveStops
  <2>4. CASE DestructorNotifies
    BY <2>4 DEF DestructorNotifies, WakeAll
  <2>5. CASE DestructorReturns \/ MoveReturns \/ DestroyMoved
    BY <2>5 DEF DestructorReturns, MoveReturns, DestroyMoved
  <2>. QED  BY <1>1, <2>1, <2>2, <2>3, <2>4, <2>5 DEF Owner
<1>2. ASSUME NEW th \in Threads, NEW t \in Tasks, Enqueue(th, t) PROVE Base'
  <2>1. tasks' \in Seq(Tasks) /\ tasks' # <<>>
    BY <1>2, AppendProperties DEF Enqueue
  <2>. QED  BY <1>2, <2>1 DEF Enqueue, NotifiersWith
<1>3. ASSUME NEW th \in Threads, Notify(th) PROVE Base'
  BY <1>3 DEF Notify, Waiting
<1>4. ASSUME NEW w \in Workers, Lock(w) PROVE Base'
  BY <1>4 DEF Lock
<1>5. ASSUME NEW w \in Workers, Test(w) PROVE Base'
  BY <1>5 DEF Test, Ready
<1>6. ASSUME NEW w \in Workers, Block(w) PROVE Base'
  BY <1>6 DEF Block
<1>7. ASSUME NEW w \in Workers, Return(w) PROVE Base'
  BY <1>7 DEF Return
<1>8. ASSUME NEW w \in Workers, Take(w) PROVE Base'
  <2>1. tasks # <<>>
    BY <1>8 DEF Take
  <2>2. Head(tasks) \in Tasks /\ tasks' \in Seq(Tasks)
    BY <1>8, <2>1, HeadTailTasks DEF Take, Rest
  <2>3. \A v \in Workers : v # w => pc[v] \notin {"test", "block", "take"}
    BY <1>8 DEF Take
  <2>. QED  BY <1>8, <2>2, <2>3 DEF Take
<1>9. ASSUME NEW w \in Workers, Finish(w) \/ Throw(w) PROVE Base'
  BY <1>9 DEF Finish, Throw, HandsFreed
<1>10. ASSUME NEW w \in Workers, SpuriousWakeup(w) PROVE Base'
  BY <1>10 DEF SpuriousWakeup
<1>11. CASE UNCHANGED vars
  BY <1>11 DEF vars
<1>. QED
  BY <1>1, <1>2, <1>3, <1>4, <1>5, <1>6, <1>7, <1>8, <1>9, <1>10, <1>11 DEF Next, Work

-----------------------------------------------------------------------------
(* What a step leaves alone keeps the account of the tasks.                *)
LEMMA AccountFrame ==
    ASSUME TaskAccounted, Running' = Running,
           UNCHANGED <<tasks, hand, enqueued, done>>
    PROVE  TaskAccounted'
BY DEF TaskAccounted, QueuedOnce, OneRunner, Apart, Queued, InHand

(* The account of the tasks balances after each step.                      *)
LEMMA NextAccounted == Base /\ TaskAccounted /\ [Next]_vars => TaskAccounted'
<1>. SUFFICES ASSUME Base, TaskAccounted, [Next]_vars PROVE TaskAccounted'
  OBVIOUS
<1>. USE ThreadPoolAssumption
<1>0. TypeOK /\ Len(tasks) \in Nat
  BY LenProperties DEF Base, TypeOK
<1>1. CASE Owner
  <2>1. Running' = Running
    BY <1>0, <1>1 DEF Owner, SpawnWorker, ConstructorReturns, ConstructorThrows,
          DestructorStops, DestructorNotifies, DestructorReturns, MoveStops, MoveReturns,
          DestroyMoved, WakeAll, Running, TypeOK
  <2>2. UNCHANGED <<tasks, hand, enqueued, done>>
    BY <1>1 DEF Owner, SpawnWorker, ConstructorReturns, ConstructorThrows,
          DestructorStops, DestructorNotifies, DestructorReturns, MoveStops, MoveReturns,
          DestroyMoved
  <2>. QED  BY <2>1, <2>2, AccountFrame
<1>2. ASSUME NEW th \in Threads, NEW t \in Tasks, Enqueue(th, t) PROVE TaskAccounted'
  <2>1. /\ Len(tasks') = Len(tasks) + 1
        /\ \A i \in 1 .. Len(tasks) : tasks'[i] = tasks[i]
        /\ tasks'[Len(tasks) + 1] = t
    BY <1>0, <1>2, AppendProperties DEF Enqueue, TypeOK
  <2>2. Queued' = Queued \cup {t}
    BY <1>0, <2>1 DEF Queued
  <2>3. t \notin Queued /\ t \notin InHand /\ t \notin done
    BY <1>2 DEF Enqueue, TaskAccounted
  <2>4. InHand' = InHand /\ Running' = Running
    BY <1>2 DEF Enqueue, InHand, Running
  <2>5. QueuedOnce'
    BY <1>0, <2>1, <2>3 DEF TaskAccounted, QueuedOnce, Queued
  <2>6. OneRunner'
    BY <1>2, <2>4 DEF TaskAccounted, OneRunner, Enqueue
  <2>7. Apart' /\ enqueued' = Queued' \cup InHand' \cup done'
    BY <1>2, <2>2, <2>3, <2>4 DEF TaskAccounted, Apart, Enqueue
  <2>. QED  BY <2>5, <2>6, <2>7 DEF TaskAccounted
<1>3. ASSUME NEW th \in Threads, Notify(th) PROVE TaskAccounted'
  <2>1. Running' = Running
    BY <1>0, <1>3 DEF Notify, Waiting, Running, TypeOK
  <2>. QED  BY <1>3, <2>1, AccountFrame DEF Notify
<1>4. ASSUME NEW w \in Workers,
             Lock(w) \/ Test(w) \/ Block(w) \/ Return(w) \/ Throw(w) \/ SpuriousWakeup(w)
      PROVE  TaskAccounted'
  <2>1. Running' = Running
    BY <1>0, <1>4 DEF Lock, Test, Block, Return, Throw, SpuriousWakeup, Running, TypeOK
  <2>2. UNCHANGED <<tasks, hand, enqueued, done>>
    BY <1>4 DEF Lock, Test, Block, Return, Throw, SpuriousWakeup
  <2>. QED  BY <2>1, <2>2, AccountFrame
<1>5. ASSUME NEW w \in Workers, Take(w) PROVE TaskAccounted'
  <2>. DEFINE t == Head(tasks)
  <2>1. tasks # <<>>
    BY <1>5 DEF Take, Base, TakeIsSafe
  <2>2. /\ Len(tasks) \in Nat \ {0} /\ t = tasks[1]
        /\ Len(tasks') = Len(tasks) - 1
        /\ \A i \in 1 .. Len(tasks') : tasks'[i] = tasks[i + 1]
    BY <1>0, <1>5, <2>1, HeadTailTasks DEF Take, Rest, TypeOK
  <2>. HIDE DEF t
  <2>3. Queued' = Queued \ {t}
    <3>1. \A i \in 1 .. Len(tasks) - 1 : tasks'[i] # t
      BY <2>2 DEF TaskAccounted, QueuedOnce
    <3>2. \A i \in 1 .. Len(tasks) : i # 1 => i - 1 \in 1 .. Len(tasks') /\ tasks'[i - 1] = tasks[i]
      BY <2>2
    <3>. QED  BY <2>2, <3>1, <3>2 DEF Queued
  <2>4. t \in Queued
    BY <2>2 DEF Queued
  <2>5. /\ Running' = Running \cup {w} /\ w \notin Running
        /\ \A v \in Workers : hand'[v] = IF v = w THEN t ELSE hand[v]
    BY <1>0, <1>5 DEF Take, Running, TypeOK, t
  <2>6. InHand' = InHand \cup {t}
    BY <2>5 DEF InHand, Running
  <2>7. OneRunner'
    BY <2>4, <2>5 DEF TaskAccounted, OneRunner, Apart, InHand, Running
  <2>8. QueuedOnce'
    BY <2>2 DEF TaskAccounted, QueuedOnce
  <2>9. Apart' /\ enqueued' = Queued' \cup InHand' \cup done'
    BY <1>5, <2>3, <2>4, <2>6 DEF Take, TaskAccounted, Apart
  <2>. QED  BY <2>7, <2>8, <2>9 DEF TaskAccounted
<1>6. ASSUME NEW w \in Workers, Finish(w) PROVE TaskAccounted'
  <2>1. /\ Running' = Running \ {w} /\ w \in Running
        /\ \A v \in Workers : v # w => hand'[v] = hand[v]
    BY <1>0, <1>6 DEF Finish, HandsFreed, Running, TypeOK
  <2>2. InHand' = InHand \ {hand[w]}
    BY <2>1 DEF InHand, TaskAccounted, OneRunner, Running
  <2>3. hand[w] \in InHand
    BY <2>1 DEF InHand
  <2>4. Queued' = Queued /\ QueuedOnce'
    BY <1>6 DEF Finish, Queued, TaskAccounted, QueuedOnce
  <2>5. OneRunner'
    BY <2>1 DEF TaskAccounted, OneRunner, Running
  <2>6. Apart' /\ enqueued' = Queued' \cup InHand' \cup done'
    BY <1>6, <2>2, <2>3, <2>4 DEF Finish, TaskAccounted, Apart
  <2>. QED  BY <2>4, <2>5, <2>6 DEF TaskAccounted
<1>7. CASE UNCHANGED vars
  BY <1>7, AccountFrame DEF vars, Running
<1>. QED
  BY <1>1, <1>2, <1>3, <1>4, <1>5, <1>6, <1>7 DEF Next, Work

-----------------------------------------------------------------------------
(* The workers on their way and the notifications to come can be counted.  *)
LEMMA CountsFinite ==
    ASSUME TypeOK
    PROVE  /\ IsFiniteSet(OnTheWay) /\ Cardinality(OnTheWay) \in Nat
           /\ IsFiniteSet(notifier) /\ Cardinality(notifier) \in Nat
           /\ Len(tasks) \in Nat
<1>1. IsFiniteSet(Threads)
  BY ThreadPoolAssumption, FS_Union DEF Threads
<1>2. OnTheWay \subseteq Workers /\ notifier \subseteq Threads
  BY DEF OnTheWay, TypeOK
<1>. QED
  BY <1>1, <1>2, ThreadPoolAssumption, FS_Subset, FS_CardinalityType, LenProperties DEF TypeOK

(* A worker that sets out is one more on its way; nobody starts to wait.   *)
LEMMA SetOut ==
    ASSUME TypeOK, NEW w \in Workers, w \notin OnTheWay,
           pc' = [pc EXCEPT ![w] = "lock"]
    PROVE  /\ Cardinality(OnTheWay') = Cardinality(OnTheWay) + 1
           /\ Waiting' \subseteq Waiting
<1>1. OnTheWay' = OnTheWay \cup {w} /\ Waiting' \subseteq Waiting
  BY DEF OnTheWay, Waiting, TypeOK
<1>. QED  BY <1>1, CountsFinite, FS_AddElement

(* With nothing queued there is nothing to strand.                         *)
LEMMA NothingQueued ==
    ASSUME TypeOK, tasks' = <<>>, notifier' = notifier
    PROVE  WorkConserving'
<1>1. OnTheWay' \subseteq Workers
  BY DEF OnTheWay
<1>2. Cardinality(OnTheWay') \in Nat
  BY <1>1, ThreadPoolAssumption, FS_Subset, FS_CardinalityType
<1>3. Cardinality(notifier') \in Nat
  BY CountsFinite
<1>4. Len(tasks') = 0
  BY EmptySeq
<1>. QED  BY <1>2, <1>3, <1>4 DEF WorkConserving

(* No queued task is stranded while a worker waits, after each step.       *)
LEMMA NextConserving == Base /\ WorkConserving /\ [Next]_vars => WorkConserving'
<1>. SUFFICES ASSUME Base, WorkConserving, [Next]_vars PROVE WorkConserving'
  OBVIOUS
<1>. USE ThreadPoolAssumption
<1>0. /\ TypeOK
      /\ IsFiniteSet(OnTheWay) /\ Cardinality(OnTheWay) \in Nat
      /\ IsFiniteSet(notifier) /\ Cardinality(notifier) \in Nat
      /\ Len(tasks) \in Nat
  BY CountsFinite DEF Base
<1>1. ASSUME OnTheWay' = OnTheWay, Waiting' = Waiting, UNCHANGED <<tasks, notifier>>
      PROVE  WorkConserving'
  BY <1>1 DEF WorkConserving
<1>2. ASSUME NEW w \in Workers, SpawnWorker(w) \/ SpuriousWakeup(w) \/ Finish(w)
      PROVE  WorkConserving'
  <2>1. w \notin OnTheWay /\ pc' = [pc EXCEPT ![w] = "lock"]
    BY <1>2 DEF SpawnWorker, SpuriousWakeup, Finish, OnTheWay
  <2>2. Cardinality(OnTheWay') = Cardinality(OnTheWay) + 1 /\ Waiting' \subseteq Waiting
    BY <1>0, <2>1, SetOut
  <2>3. UNCHANGED <<tasks, notifier>>
    BY <1>2 DEF SpawnWorker, SpuriousWakeup, Finish
  <2>. QED  BY <1>0, <2>2, <2>3 DEF WorkConserving
<1>3. CASE DestructorNotifies
  BY <1>3 DEF DestructorNotifies, WakeAll, Waiting, WorkConserving
<1>4. CASE Owner
  <2>1. ASSUME \/ ConstructorReturns \/ ConstructorThrows \/ DestructorStops
               \/ DestructorReturns \/ MoveStops \/ MoveReturns \/ DestroyMoved
        PROVE  WorkConserving'
    BY <1>1, <2>1 DEF ConstructorReturns, ConstructorThrows, DestructorStops,
       DestructorReturns, MoveStops, MoveReturns, DestroyMoved, OnTheWay, Waiting
  <2>. QED  BY <1>2, <1>3, <1>4, <2>1 DEF Owner
<1>5. ASSUME NEW th \in Threads, NEW t \in Tasks, Enqueue(th, t) PROVE WorkConserving'
  <2>1. Len(tasks') = Len(tasks) + 1
    BY <1>0, <1>5, AppendProperties DEF Enqueue, TypeOK
  <2>2. Cardinality(notifier') = Cardinality(notifier) + 1
    BY <1>0, <1>5, FS_AddElement DEF Enqueue, NotifiersWith
  <2>3. OnTheWay' = OnTheWay /\ Waiting' = Waiting
    BY <1>5 DEF Enqueue, OnTheWay, Waiting
  <2>. QED  BY <1>0, <2>1, <2>2, <2>3 DEF WorkConserving
<1>6. ASSUME NEW th \in Threads, Notify(th) PROVE WorkConserving'
  <2>1. Cardinality(notifier') = Cardinality(notifier) - 1 /\ tasks' = tasks
    BY <1>0, <1>6, FS_RemoveElement DEF Notify
  <2>2. ASSUME NEW w \in Waiting, pc' = [pc EXCEPT ![w] = "lock"] PROVE WorkConserving'
    <3>1. w \in Workers /\ w \notin OnTheWay
      BY DEF Waiting, OnTheWay
    <3>2. Cardinality(OnTheWay') = Cardinality(OnTheWay) + 1
      BY <1>0, <2>2, <3>1, SetOut
    <3>. QED  BY <1>0, <2>1, <3>2 DEF WorkConserving
  <2>3. CASE Waiting = {} /\ pc' = pc
    BY <2>3 DEF Waiting, WorkConserving
  <2>. QED  BY <1>6, <2>2, <2>3 DEF Notify
<1>7. ASSUME NEW w \in Workers, Lock(w) PROVE WorkConserving'
  <2>1. OnTheWay' = OnTheWay /\ Waiting' = Waiting
    BY <1>0, <1>7 DEF Lock, OnTheWay, Waiting, TypeOK
  <2>. QED  BY <1>1, <1>7, <2>1 DEF Lock
<1>8. ASSUME NEW w \in Workers, Test(w) PROVE WorkConserving'
  <2>1. CASE Ready
    <3>1. OnTheWay' = OnTheWay /\ Waiting' = Waiting
      BY <1>0, <1>8, <2>1 DEF Test, OnTheWay, Waiting, TypeOK
    <3>. QED  BY <1>1, <1>8, <3>1 DEF Test
  <2>2. CASE ~Ready
    <3>1. tasks' = <<>> /\ notifier' = notifier
      BY <1>8, <2>2 DEF Test, Ready
    <3>. QED  BY <1>0, <3>1, NothingQueued
  <2>. QED  BY <2>1, <2>2
<1>9. ASSUME NEW w \in Workers, Block(w) \/ Return(w) PROVE WorkConserving'
  <2>1. tasks' = <<>> /\ notifier' = notifier
    BY <1>9 DEF Block, Return, MustReturn, Base, BlockedOnEmpty
  <2>. QED  BY <1>0, <2>1, NothingQueued
<1>10. ASSUME NEW w \in Workers, Take(w) PROVE WorkConserving'
  <2>1. OnTheWay' = OnTheWay \ {w} /\ w \in OnTheWay /\ Waiting' = Waiting
    BY <1>0, <1>10 DEF Take, OnTheWay, Waiting, TypeOK
  <2>2. Cardinality(OnTheWay') = Cardinality(OnTheWay) - 1
    BY <1>0, <2>1, FS_RemoveElement
  <2>3. tasks # <<>>
    BY <1>10 DEF Take, Base, TakeIsSafe
  <2>4. Len(tasks') = Len(tasks) - 1 /\ notifier' = notifier
    BY <1>0, <1>10, <2>3, HeadTailTasks DEF Take, Rest, TypeOK
  <2>. QED  BY <1>0, <2>1, <2>2, <2>4 DEF WorkConserving
<1>11. ASSUME NEW w \in Workers, Throw(w) PROVE WorkConserving'
  BY <1>1, <1>11 DEF Throw, OnTheWay, Waiting
<1>12. CASE UNCHANGED vars
  BY <1>1, <1>12 DEF vars, OnTheWay, Waiting
<1>. QED
  BY <1>2, <1>4, <1>5, <1>6, <1>7, <1>8, <1>9, <1>10, <1>11, <1>12 DEF Next, Work

-----------------------------------------------------------------------------
(* stop_ and the exits of the workers, after each step.                    *)
LEMMA NextStopKnown == Base /\ StopKnown /\ [Next]_vars => StopKnown'
<1>. SUFFICES ASSUME Base, StopKnown, [Next]_vars PROVE StopKnown'
  OBVIOUS
<1>. USE DEF StopKnown, AllExited
<1>0. TypeOK
  BY DEF Base
<1>1. CASE Owner
  BY <1>0, <1>1 DEF Owner, SpawnWorker, ConstructorReturns, ConstructorThrows,
     DestructorStops, DestructorNotifies, DestructorReturns, MoveStops, MoveReturns,
     DestroyMoved, WakeAll, TypeOK
<1>2. ASSUME NEW th \in Threads, Notify(th) PROVE StopKnown'
  BY <1>0, <1>2 DEF Notify, Waiting, TypeOK
<1>3. ASSUME NEW w \in Workers, Work(w) \/ SpuriousWakeup(w) PROVE StopKnown'
  BY <1>0, <1>3 DEF Work, SpuriousWakeup, Lock, Test, Block, Return, Take, Finish, Throw,
     MustReturn, TypeOK
<1>4. CASE UNCHANGED vars
  BY <1>4 DEF vars
<1>. QED  BY <1>1, <1>2, <1>3, <1>4 DEF Next, Enqueue

(* When the last worker has gone the queue is empty, and stays so: a client*)
(* may enqueue only in a pool that is not stopped, a task only while its   *)
(* worker runs it.                                                         *)
LEMMA NextEmptyWhenExited ==
    Base /\ StopKnown /\ EmptyWhenExited /\ [Next]_vars => EmptyWhenExited'
<1>. SUFFICES ASSUME Base, StopKnown, EmptyWhenExited, [Next]_vars, AllExited'
              PROVE  tasks' = <<>>
  BY DEF EmptyWhenExited
<1>. USE ThreadPoolAssumption DEF AllExited, EmptyWhenExited
<1>0. TypeOK
  BY DEF Base
<1>1. CASE Owner
  BY <1>0, <1>1 DEF Owner, SpawnWorker, ConstructorReturns, ConstructorThrows,
     DestructorStops, DestructorNotifies, DestructorReturns, MoveStops, MoveReturns,
     DestroyMoved, WakeAll, TypeOK
<1>2. ASSUME NEW th \in Threads, NEW t \in Tasks, Enqueue(th, t) PROVE FALSE
  BY <1>2 DEF Enqueue, MayEnqueue, StopKnown
<1>3. ASSUME NEW th \in Threads, Notify(th) PROVE tasks' = <<>>
  BY <1>0, <1>3 DEF Notify, Waiting, TypeOK
<1>4. ASSUME NEW w \in Workers, Return(w) PROVE tasks' = <<>>
  BY <1>4 DEF Return, MustReturn
<1>5. ASSUME NEW w \in Workers,
             \/ Lock(w) \/ Test(w) \/ Block(w) \/ Take(w) \/ Finish(w)
             \/ SpuriousWakeup(w)
      PROVE  FALSE
  BY <1>0, <1>5 DEF Lock, Test, Block, Take, Finish, SpuriousWakeup, TypeOK
<1>6. ASSUME NEW w \in Workers, Throw(w) PROVE FALSE
  BY <1>6 DEF Throw
<1>7. CASE UNCHANGED vars
  BY <1>7 DEF vars
<1>. QED  BY <1>1, <1>2, <1>3, <1>4, <1>5, <1>6, <1>7 DEF Next, Work

-----------------------------------------------------------------------------
LEMMA InitInv == Init => IInv
<1>. SUFFICES ASSUME Init PROVE IInv
  OBVIOUS
<1>. USE ThreadPoolAssumption
<1>1. TaskAccounted
  <2>1. Running = {} /\ Queued = {}
    BY EmptySeq DEF Init, Running, Queued
  <2>. QED  BY <2>1 DEF Init, TaskAccounted, QueuedOnce, OneRunner, Apart, Queued, InHand
<1>2. WorkConserving
  BY DEF Init, WorkConserving, Waiting
<1>3. StopKnown /\ EmptyWhenExited
  BY DEF Init, StopKnown, EmptyWhenExited, AllExited
<1>. QED  BY <1>1, <1>2, <1>3, InitBase DEF IInv

(* Every reachable state of the pool satisfies the inductive invariant.    *)
LEMMA InvHolds == Spec => []IInv
<1>1. IInv /\ [Next]_vars => IInv'
  BY NextBase, NextAccounted, NextConserving, NextStopKnown, NextEmptyWhenExited DEF IInv
<1>. QED  BY InitInv, <1>1, PTL DEF Spec

(* Types; a worker has a task in hand just while it runs one.              *)
THEOREM TypeCorrect == Spec => []TypeOK
<1>1. IInv => TypeOK
  BY DEF IInv, Base
<1>. QED  BY <1>1, InvHolds, PTL

(* worker_thread() never pops an empty queue, and its critical section is  *)
(* never in two threads.                                                   *)
THEOREM SafeTakes == Spec => [](TypeOK /\ MutexHeld /\ TakeIsSafe)
<1>1. IInv => TypeOK /\ MutexHeld /\ TakeIsSafe
  BY DEF IInv, Base
<1>. QED  BY <1>1, InvHolds, PTL

(* No task is lost, run twice, or run by two workers.                      *)
THEOREM TasksAccounted == Spec => []TaskAccounted
<1>1. IInv => TaskAccounted
  BY DEF IInv
<1>. QED  BY <1>1, InvHolds, PTL

(* No wake-up is lost to a queued task: while a worker waits, as many      *)
(* workers and notifications as there are tasks are on their way.          *)
THEOREM WorkConserved == Spec => []WorkConserving
<1>1. IInv => WorkConserving
  BY DEF IInv
<1>. QED  BY <1>1, InvHolds, PTL

(* A pool that has been joined has run every task it was given.            *)
THEOREM PoolDrained == Spec => []Drained
<1>1. IInv => Drained
  <2>. SUFFICES ASSUME IInv, owner \in {"destroyed", "moved"} PROVE enqueued = done
    BY DEF Drained
  <2>1. AllExited /\ tasks = <<>>
    BY DEF IInv, StopKnown, EmptyWhenExited
  <2>2. Running = {}
    BY <2>1 DEF AllExited, Running
  <2>3. InHand = {}
    BY <2>2 DEF InHand
  <2>4. Queued = {}
    BY <2>1, EmptySeq DEF Queued
  <2>. QED  BY <2>3, <2>4 DEF IInv, TaskAccounted
<1>. QED  BY <1>1, InvHolds, PTL
=============================================================================
