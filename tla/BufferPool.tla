----------------------------- MODULE BufferPool -----------------------------
(***************************************************************************)
(* The pool of I/O buffers of mycppwebfw::core (core/buffer_pool.h).       *)
(*                                                                         *)
(* Every public operation of BufferPool holds mutex_ from its first to its *)
(* last statement, so each is one atomic action here.  A buffer is an      *)
(* element of Buffers; what is in it is not modelled.  The shared_ptr that *)
(* acquire() returns is an element of held[c] until client c gives it back *)
(* with release().  A buffer that is neither pooled nor held is memory     *)
(* that has not been allocated, or has been freed.                         *)
(***************************************************************************)
EXTENDS Naturals, Sequences, FiniteSets

CONSTANTS
    Buffers,       \* the buffers the allocator can ever produce
    Clients,       \* the callers of acquire() and release()
    BufferSize,    \* bufferSize_: bytes in one buffer
    PoolSize,      \* poolSize_: buffers the pool keeps
    InitialLimit,  \* maxMemory: the limit the constructor gets, 0 for none
    Limits,        \* the values setMaxMemoryLimit() is called with
    MaxFailures    \* bound: how many allocations may throw bad_alloc

Parameters ==
    /\ IsFiniteSet(Buffers)
    /\ BufferSize \in Nat \ {0}
    /\ PoolSize \in Nat
    /\ PoolSize <= Cardinality(Buffers)
    /\ InitialLimit \in Nat
    /\ Limits \subseteq Nat
    /\ MaxFailures \in Nat

ASSUME BufferPoolAssumption == Parameters

VARIABLES
    pool,            \* pool_: the buffers at rest, last in first out
    totalAllocated,  \* totalAllocated_: the pool's count of live buffers
    maxMemory,       \* maxMemory_: the limit in bytes, 0 for none
    held,            \* held[c]: the buffers client c has acquired
    failures         \* allocations that have thrown so far

vars == <<pool, totalAllocated, maxMemory, held, failures>>

-----------------------------------------------------------------------------
Pooled == {pool[i] : i \in 1..Len(pool)}

Outstanding == UNION {held[c] : c \in Clients}

\* What the allocator may return: memory that nobody refers to.
Free == Buffers \ (Pooled \cup Outstanding)

\* getCurrentMemoryUsage(), and what the process has really allocated.
CurrentMemoryUsage == totalAllocated * BufferSize
LiveBuffers == Len(pool) + Cardinality(Outstanding)

Init ==
    /\ pool \in {s \in [1..PoolSize -> Buffers] :
                    \A i, j \in 1..PoolSize : s[i] = s[j] => i = j}
    /\ totalAllocated = PoolSize
    /\ maxMemory = InitialLimit
    /\ held = [c \in Clients |-> {}]
    /\ failures = 0

-----------------------------------------------------------------------------
(* The two conditions and the two updates that acquire() and release() are *)
(* made of.  Each definition whose name begins with Bug is a variant of    *)
(* the one after it that no action uses: the run's properties must tell    *)
(* the two apart.                                                          *)

BugOverLimit == maxMemory > 0 /\ totalAllocated * BufferSize > maxMemory

OverLimit == maxMemory > 0 /\ (totalAllocated + 1) * BufferSize > maxMemory

BugPopBack == pool

PopBack == SubSeq(pool, 1, Len(pool) - 1)

BugHasRoomUnder == Len(pool) + 1 < PoolSize
BugHasRoomOver  == Len(pool) <= PoolSize

HasRoom == Len(pool) < PoolSize

BugCountAfterFree == totalAllocated

CountAfterFree == IF totalAllocated > 0 THEN totalAllocated - 1
                                        ELSE totalAllocated

-----------------------------------------------------------------------------
\* acquire() with a buffer at rest: the one released last is handed out.
AcquirePooled(c) ==
    /\ pool # <<>>
    /\ held' = [held EXCEPT ![c] = @ \cup {pool[Len(pool)]}]
    /\ pool' = PopBack
    /\ UNCHANGED <<totalAllocated, maxMemory, failures>>

\* acquire() returning nullptr: nothing at rest, and one more buffer would
\* pass the limit.
AcquireRefused(c) ==
    /\ pool = <<>>
    /\ OverLimit
    /\ UNCHANGED vars

\* acquire() allocating a buffer of its own for the caller.
AcquireFresh(c) ==
    /\ pool = <<>>
    /\ ~OverLimit
    /\ \E b \in Free : held' = [held EXCEPT ![c] = @ \cup {b}]
    /\ totalAllocated' = totalAllocated + 1
    /\ UNCHANGED <<pool, maxMemory, failures>>

\* acquire() when make_shared throws bad_alloc: the counter has already been
\* incremented and the exception leaves it so.
AcquireThrows(c) ==
    /\ pool = <<>>
    /\ ~OverLimit
    /\ failures < MaxFailures
    /\ failures' = failures + 1
    /\ totalAllocated' = totalAllocated + 1
    /\ UNCHANGED <<pool, maxMemory, held>>

Acquire(c) ==
    \/ AcquirePooled(c)
    \/ AcquireRefused(c)
    \/ AcquireFresh(c)
    \/ AcquireThrows(c)

\* release(b) with room in the pool: the buffer is kept.
ReleaseKeep(c, b) ==
    /\ b \in held[c]
    /\ HasRoom
    /\ held' = [held EXCEPT ![c] = @ \ {b}]
    /\ pool' = Append(pool, b)
    /\ UNCHANGED <<totalAllocated, maxMemory, failures>>

\* release(b) with the pool full: the last reference goes, the buffer is freed.
ReleaseFree(c, b) ==
    /\ b \in held[c]
    /\ ~HasRoom
    /\ held' = [held EXCEPT ![c] = @ \ {b}]
    /\ totalAllocated' = CountAfterFree
    /\ UNCHANGED <<pool, maxMemory, failures>>

Release(c, b) == ReleaseKeep(c, b) \/ ReleaseFree(c, b)

SetMaxMemoryLimit(m) ==
    /\ maxMemory' = m
    /\ UNCHANGED <<pool, totalAllocated, held, failures>>

Next ==
    \/ \E c \in Clients : Acquire(c)
    \/ \E c \in Clients, b \in Buffers : Release(c, b)
    \/ \E m \in Limits : SetMaxMemoryLimit(m)

Spec == Init /\ [][Next]_vars

-----------------------------------------------------------------------------
(* Types; the pool never keeps more than poolSize_ buffers.                *)
TypeOK ==
    /\ pool \in Seq(Buffers)
    /\ Len(pool) <= PoolSize
    /\ totalAllocated \in Nat
    /\ maxMemory \in Nat
    /\ held \in [Clients -> SUBSET Buffers]
    /\ failures \in Nat

(* A buffer has one owner: it is at rest once, or with one client.  Two    *)
(* connections sharing a buffer would read each other's requests, and no   *)
(* test of the pool compares the buffers it gets.                          *)
NoDuplicates == \A i, j \in 1..Len(pool) : pool[i] = pool[j] => i = j
PooledNotHeld == Pooled \cap Outstanding = {}
OneHolder == \A c, d \in Clients : c # d => held[c] \cap held[d] = {}

ExclusiveOwnership == NoDuplicates /\ PooledNotHeld /\ OneHolder

(* However many buffers were handed out beyond the pool, refused or freed  *)
(* on the way, once every client has released what it held the pool has    *)
(* all its poolSize_ buffers back: none has leaked through the branches of *)
(* acquire() and release().                                                *)
QuiescentPoolFull == Outstanding = {} => Len(pool) = PoolSize

(* The counter behind getTotalAllocated(), which decides every refusal, is *)
(* above the number of live buffers by the number of allocations that      *)
(* threw after it was incremented, and by nothing else.                    *)
Accounting == totalAllocated = LiveBuffers + failures

(* acquire() never takes the accounted memory past the limit in force; it  *)
(* may be past it already, because the constructor fills the pool and      *)
(* setMaxMemoryLimit() lowers the limit without looking at the usage.      *)
GrowthWithinLimit ==
    CurrentMemoryUsage' > CurrentMemoryUsage =>
        \/ maxMemory = 0
        \/ CurrentMemoryUsage' <= maxMemory

LimitRespected == [][GrowthWithinLimit]_vars
=============================================================================
