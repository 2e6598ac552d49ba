-------------------------- MODULE BufferPoolProofs --------------------------
(***************************************************************************)
(* Proofs that the invariants of BufferPool hold for every set of buffers  *)
(* and clients, every size and every limit.                                *)
(***************************************************************************)
EXTENDS BufferPool, FiniteSetTheorems, SequenceTheorems, TLAPS

(* The pool and the buffers lent make up at least the initial stock.  It   *)
(* is what QuiescentPoolFull needs to be inductive: a buffer is freed only *)
(* when the pool is full without it.                                       *)
StockKept == LiveBuffers >= PoolSize

IInv == TypeOK /\ ExclusiveOwnership /\ Accounting /\ StockKept

-----------------------------------------------------------------------------
(* pop_back() on a non-empty deque: one shorter, the rest in place.        *)
LEMMA PopBackProperties ==
    ASSUME NEW S, NEW s \in Seq(S), s # <<>>
    PROVE  /\ Len(s) \in Nat \ {0}
           /\ s[Len(s)] \in S
           /\ SubSeq(s, 1, Len(s) - 1) \in Seq(S)
           /\ Len(SubSeq(s, 1, Len(s) - 1)) = Len(s) - 1
           /\ \A i \in 1 .. Len(s) - 1 : SubSeq(s, 1, Len(s) - 1)[i] = s[i]
<1>1. Len(s) \in Nat /\ Len(s) # 0
  BY EmptySeq, LenProperties
<1>2. s[Len(s)] \in S
  BY <1>1, ElementOfSeq
<1>3. \A i \in 1 .. Len(s) - 1 : s[i] \in S
  BY <1>1, ElementOfSeq
<1>4. /\ SubSeq(s, 1, Len(s) - 1) \in Seq(S)
      /\ Len(SubSeq(s, 1, Len(s) - 1)) =
            IF 1 <= Len(s) - 1 THEN (Len(s) - 1) - 1 + 1 ELSE 0
      /\ \A i \in 1 .. ((Len(s) - 1) - 1 + 1) :
            SubSeq(s, 1, Len(s) - 1)[i] = s[1 + i - 1]
  <2>1. 1 \in Int /\ Len(s) - 1 \in Int
    BY <1>1
  <2>. QED  BY <2>1, <1>3, SubSeqProperties
<1>5. Len(SubSeq(s, 1, Len(s) - 1)) = Len(s) - 1
  <2>. DEFINE m == Len(SubSeq(s, 1, Len(s) - 1))
              n == Len(s)
  <2>1. m = IF 1 <= n - 1 THEN (n - 1) - 1 + 1 ELSE 0
    BY <1>4
  <2>2. n \in Nat /\ n # 0
    BY <1>1
  <2>. HIDE DEF m, n
  <2>3. m = n - 1
    BY <2>1, <2>2
  <2>. QED  BY <2>3 DEF m, n
<1>6. \A i \in 1 .. Len(s) - 1 : SubSeq(s, 1, Len(s) - 1)[i] = s[i]
  <2>. TAKE i \in 1 .. Len(s) - 1
  <2>1. 1 + i - 1 = i /\ i \in 1 .. ((Len(s) - 1) - 1 + 1)
    BY <1>1
  <2>. QED  BY <2>1, <1>4
<1>. QED  BY <1>1, <1>2, <1>4, <1>5, <1>6

(* The set of lent buffers is finite, and its size is a number.            *)
LEMMA OutstandingFinite ==
    ASSUME TypeOK
    PROVE  /\ Outstanding \subseteq Buffers
           /\ IsFiniteSet(Outstanding)
           /\ Cardinality(Outstanding) \in Nat
<1>1. Outstanding \subseteq Buffers
  BY DEF TypeOK, Outstanding
<1>. QED  BY <1>1, BufferPoolAssumption, FS_Subset, FS_CardinalityType DEF Parameters

(* Lending a buffer that nobody holds makes one more lent buffer.          *)
LEMMA LendBuffer ==
    ASSUME TypeOK, NEW c \in Clients, NEW b \in Buffers, b \notin Outstanding,
           held' = [held EXCEPT ![c] = @ \cup {b}]
    PROVE  /\ Outstanding' = Outstanding \cup {b}
           /\ Cardinality(Outstanding') = Cardinality(Outstanding) + 1
           /\ held' \in [Clients -> SUBSET Buffers]
           /\ OneHolder => OneHolder'
<1>1. held' \in [Clients -> SUBSET Buffers]
  BY DEF TypeOK
<1>2. \A d \in Clients : held'[d] = IF d = c THEN held[c] \cup {b} ELSE held[d]
  BY DEF TypeOK
<1>3. Outstanding' = Outstanding \cup {b}
  BY <1>2 DEF Outstanding
<1>4. Cardinality(Outstanding') = Cardinality(Outstanding) + 1
  BY <1>3, OutstandingFinite, FS_AddElement
<1>5. OneHolder => OneHolder'
  BY <1>2 DEF OneHolder, Outstanding
<1>. QED  BY <1>1, <1>3, <1>4, <1>5

(* Giving a buffer back makes one fewer, if it had no second holder.       *)
LEMMA ReturnBuffer ==
    ASSUME TypeOK, OneHolder, NEW c \in Clients, NEW b \in held[c],
           held' = [held EXCEPT ![c] = @ \ {b}]
    PROVE  /\ b \in Buffers /\ b \in Outstanding
           /\ Outstanding' = Outstanding \ {b}
           /\ Cardinality(Outstanding') = Cardinality(Outstanding) - 1
           /\ held' \in [Clients -> SUBSET Buffers]
           /\ OneHolder'
<1>1. held' \in [Clients -> SUBSET Buffers]
  BY DEF TypeOK
<1>2. \A d \in Clients : held'[d] = IF d = c THEN held[c] \ {b} ELSE held[d]
  BY DEF TypeOK
<1>3. b \in Buffers /\ b \in Outstanding
  BY DEF TypeOK, Outstanding
<1>4. \A d \in Clients : d # c => b \notin held[d]
  BY DEF OneHolder
<1>5. Outstanding' = Outstanding \ {b}
  BY <1>2, <1>4 DEF Outstanding
<1>6. Cardinality(Outstanding') = Cardinality(Outstanding) - 1
  BY <1>3, <1>5, OutstandingFinite, FS_RemoveElement
<1>7. OneHolder'
  BY <1>2 DEF OneHolder
<1>. QED  BY <1>1, <1>3, <1>5, <1>6, <1>7

-----------------------------------------------------------------------------
LEMMA InitInv == Init => IInv
<1>. SUFFICES ASSUME Init PROVE IInv
  OBVIOUS
<1>. USE BufferPoolAssumption DEF Parameters
<1>1. pool \in [1..PoolSize -> Buffers] /\ PoolSize \in Nat
  BY DEF Init
<1>2. pool \in Seq(Buffers) /\ Len(pool) = PoolSize
  BY <1>1, IsASeq, LenProperties
<1>3. Outstanding = {}
  BY DEF Init, Outstanding
<1>4. Cardinality(Outstanding) = 0
  BY <1>3, FS_EmptySet
<1>5. TypeOK
  BY <1>2 DEF Init, TypeOK
<1>6. ExclusiveOwnership
  BY <1>2, <1>3 DEF Init, ExclusiveOwnership, NoDuplicates, PooledNotHeld, OneHolder
<1>. QED  BY <1>2, <1>4, <1>5, <1>6 DEF Init, IInv, Accounting, StockKept, LiveBuffers

LEMMA NextInv == IInv /\ [Next]_vars => IInv'
<1>. SUFFICES ASSUME IInv, [Next]_vars PROVE IInv'
  OBVIOUS
<1>. USE BufferPoolAssumption DEF Parameters
<1>0. /\ TypeOK /\ NoDuplicates /\ PooledNotHeld /\ OneHolder
      /\ Len(pool) \in Nat /\ Cardinality(Outstanding) \in Nat
  BY OutstandingFinite, LenProperties DEF IInv, TypeOK, ExclusiveOwnership
<1>1. ASSUME NEW c \in Clients, AcquirePooled(c) PROVE IInv'
  <2>. DEFINE b == pool[Len(pool)]
  <2>1. /\ Len(pool) \in Nat \ {0} /\ b \in Buffers
        /\ pool' \in Seq(Buffers) /\ Len(pool') = Len(pool) - 1
        /\ \A i \in 1 .. Len(pool) - 1 : pool'[i] = pool[i]
    BY <1>0, <1>1, PopBackProperties DEF AcquirePooled, PopBack, TypeOK
  <2>2. b \in Pooled
    BY <2>1 DEF Pooled
  <2>3. b \notin Outstanding
    BY <1>0, <2>2 DEF PooledNotHeld
  <2>4. /\ Outstanding' = Outstanding \cup {b}
        /\ Cardinality(Outstanding') = Cardinality(Outstanding) + 1
        /\ held' \in [Clients -> SUBSET Buffers]
        /\ OneHolder'
    BY <1>0, <1>1, <2>1, <2>3, LendBuffer DEF AcquirePooled
  <2>5. b \notin Pooled' /\ Pooled' \subseteq Pooled
    BY <1>0, <2>1 DEF Pooled, NoDuplicates
  <2>6. PooledNotHeld'
    BY <1>0, <2>4, <2>5 DEF PooledNotHeld
  <2>9. NoDuplicates'
    BY <1>0, <2>1 DEF NoDuplicates
  <2>7. TypeOK'
    BY <1>0, <1>1, <2>1, <2>4 DEF AcquirePooled, TypeOK
  <2>8. LiveBuffers' = LiveBuffers
    BY <1>0, <2>1, <2>4 DEF LiveBuffers
  <2>. QED
    BY <1>1, <2>4, <2>6, <2>7, <2>8, <2>9
       DEF IInv, ExclusiveOwnership, Accounting, StockKept, AcquirePooled
<1>2. ASSUME NEW c \in Clients, AcquireRefused(c) PROVE IInv'
  BY <1>2 DEF AcquireRefused, vars, IInv, TypeOK, ExclusiveOwnership, NoDuplicates,
              PooledNotHeld, OneHolder, Accounting, StockKept, LiveBuffers, Pooled, Outstanding
<1>3. ASSUME NEW c \in Clients, AcquireFresh(c) PROVE IInv'
  <2>1. PICK b \in Free : held' = [held EXCEPT ![c] = @ \cup {b}]
    BY <1>3 DEF AcquireFresh
  <2>2. b \in Buffers /\ b \notin Outstanding /\ b \notin Pooled
    BY DEF Free
  <2>3. /\ Outstanding' = Outstanding \cup {b}
        /\ Cardinality(Outstanding') = Cardinality(Outstanding) + 1
        /\ held' \in [Clients -> SUBSET Buffers]
        /\ OneHolder'
    BY <1>0, <2>1, <2>2, LendBuffer
  <2>4. PooledNotHeld' /\ NoDuplicates'
    BY <1>0, <1>3, <2>2, <2>3 DEF PooledNotHeld, NoDuplicates, Pooled, AcquireFresh
  <2>5. TypeOK'
    BY <1>0, <1>3, <2>3 DEF AcquireFresh, TypeOK
  <2>6. LiveBuffers' = LiveBuffers + 1 /\ LiveBuffers \in Nat
    BY <1>0, <1>3, <2>3 DEF LiveBuffers, AcquireFresh
  <2>. QED
    BY <1>0, <1>3, <2>3, <2>4, <2>5, <2>6
       DEF IInv, ExclusiveOwnership, Accounting, StockKept, AcquireFresh, TypeOK
<1>4. ASSUME NEW c \in Clients, AcquireThrows(c) PROVE IInv'
  <2>1. TypeOK' /\ ExclusiveOwnership' /\ LiveBuffers' = LiveBuffers
    BY <1>0, <1>4 DEF AcquireThrows, TypeOK, ExclusiveOwnership, NoDuplicates,
                      PooledNotHeld, OneHolder, LiveBuffers, Pooled, Outstanding
  <2>2. LiveBuffers \in Nat
    BY <1>0 DEF LiveBuffers
  <2>. QED
    BY <1>0, <1>4, <2>1, <2>2 DEF IInv, Accounting, StockKept, AcquireThrows, TypeOK
<1>5. ASSUME NEW c \in Clients, NEW b \in Buffers, ReleaseKeep(c, b) PROVE IInv'
  <2>1. /\ b \in Outstanding
        /\ Outstanding' = Outstanding \ {b}
        /\ Cardinality(Outstanding') = Cardinality(Outstanding) - 1
        /\ held' \in [Clients -> SUBSET Buffers]
        /\ OneHolder'
    BY <1>0, <1>5, ReturnBuffer DEF ReleaseKeep
  <2>2. /\ pool' \in Seq(Buffers) /\ Len(pool') = Len(pool) + 1
        /\ \A i \in 1 .. Len(pool) : pool'[i] = pool[i]
        /\ pool'[Len(pool) + 1] = b
    BY <1>0, <1>5, AppendProperties DEF ReleaseKeep, TypeOK
  <2>3. Pooled' = Pooled \cup {b}
    BY <1>0, <2>2 DEF Pooled
  <2>4. b \notin Pooled
    BY <1>0, <2>1 DEF PooledNotHeld
  <2>5. PooledNotHeld'
    BY <1>0, <2>1, <2>3 DEF PooledNotHeld
  <2>6. NoDuplicates'
    BY <1>0, <2>2, <2>4 DEF NoDuplicates, Pooled
  <2>7. TypeOK'
    BY <1>0, <1>5, <2>1, <2>2 DEF ReleaseKeep, HasRoom, TypeOK
  <2>8. LiveBuffers' = LiveBuffers
    BY <1>0, <2>1, <2>2 DEF LiveBuffers
  <2>. QED
    BY <1>5, <2>1, <2>5, <2>6, <2>7, <2>8
       DEF IInv, ExclusiveOwnership, Accounting, StockKept, ReleaseKeep
<1>6. ASSUME NEW c \in Clients, NEW b \in Buffers, ReleaseFree(c, b) PROVE IInv'
  <2>1. /\ b \in Outstanding
        /\ Outstanding' = Outstanding \ {b}
        /\ Cardinality(Outstanding') = Cardinality(Outstanding) - 1
        /\ held' \in [Clients -> SUBSET Buffers]
        /\ OneHolder'
    BY <1>0, <1>6, ReturnBuffer DEF ReleaseFree
  <2>2. Cardinality(Outstanding') \in Nat
    BY <1>0, <2>1, OutstandingFinite, FS_Subset, FS_CardinalityType
  <2>3. Cardinality(Outstanding) >= 1
    BY <1>0, <2>1, <2>2
  <2>4. totalAllocated' = totalAllocated - 1 /\ totalAllocated' \in Nat
    BY <1>0, <1>6, <2>3 DEF IInv, Accounting, LiveBuffers, TypeOK, ReleaseFree, CountAfterFree
  <2>5. PooledNotHeld' /\ NoDuplicates'
    BY <1>0, <1>6, <2>1 DEF PooledNotHeld, NoDuplicates, Pooled, ReleaseFree
  <2>6. TypeOK'
    BY <1>0, <1>6, <2>1, <2>4 DEF ReleaseFree, TypeOK
  <2>7. LiveBuffers' = LiveBuffers - 1
    BY <1>0, <1>6, <2>1 DEF LiveBuffers, ReleaseFree
  <2>8. Accounting'
    BY <1>0, <1>6, <2>4, <2>7 DEF IInv, Accounting, LiveBuffers, ReleaseFree, TypeOK
  <2>9. StockKept'
    BY <1>0, <1>6, <2>2, <2>3, <2>1 DEF StockKept, LiveBuffers, ReleaseFree, HasRoom, TypeOK
  <2>. QED
    BY <2>1, <2>5, <2>6, <2>8, <2>9 DEF IInv, ExclusiveOwnership
<1>7. ASSUME NEW m \in Limits, SetMaxMemoryLimit(m) PROVE IInv'
  BY <1>0, <1>7 DEF SetMaxMemoryLimit, IInv, TypeOK, ExclusiveOwnership, NoDuplicates,
              PooledNotHeld, OneHolder, Accounting, StockKept, LiveBuffers, Pooled, Outstanding
<1>8. CASE UNCHANGED vars
  BY <1>8 DEF vars, IInv, TypeOK, ExclusiveOwnership, NoDuplicates,
              PooledNotHeld, OneHolder, Accounting, StockKept, LiveBuffers, Pooled, Outstanding
<1>. QED
  BY <1>1, <1>2, <1>3, <1>4, <1>5, <1>6, <1>7, <1>8 DEF Next, Acquire, Release

(* Every reachable state of the pool satisfies the inductive invariant.    *)
LEMMA InvHolds == Spec => []IInv
<1>. QED  BY InitInv, NextInv, PTL DEF Spec

(* The members of the pool keep their types, whatever is acquired,         *)
(* released, refused or limited.                                           *)
THEOREM TypeCorrect == Spec => []TypeOK
<1>1. IInv => TypeOK
  BY DEF IInv
<1>. QED  BY <1>1, InvHolds, PTL

(* A buffer is never at rest twice, at rest and lent, or lent to two       *)
(* clients: acquire() and release() move it from one owner to the other.   *)
THEOREM OwnershipHolds == Spec => [](TypeOK /\ ExclusiveOwnership)
<1>1. IInv => TypeOK /\ ExclusiveOwnership
  BY DEF IInv
<1>. QED  BY <1>1, InvHolds, PTL

(* totalAllocated_ differs from the number of live buffers by the number   *)
(* of allocations that threw.                                              *)
THEOREM AccountingHolds == Spec => []Accounting
<1>1. IInv => Accounting
  BY DEF IInv
<1>. QED  BY <1>1, InvHolds, PTL

(* With nothing lent, all the stock is at rest.                            *)
LEMMA StockAtRest == IInv => QuiescentPoolFull
<1>. SUFFICES ASSUME IInv, Outstanding = {} PROVE Len(pool) = PoolSize
  BY DEF QuiescentPoolFull
<1>1. Cardinality(Outstanding) = 0
  BY FS_EmptySet
<1>2. Len(pool) \in Nat
  BY LenProperties DEF IInv, TypeOK
<1>. QED
  BY <1>1, <1>2, BufferPoolAssumption DEF Parameters, IInv, TypeOK, StockKept, LiveBuffers

(* When everything acquired has been released the pool is full again.      *)
THEOREM QuiescenceHolds == Spec => []QuiescentPoolFull
<1>. QED  BY StockAtRest, InvHolds, PTL

(* No step takes the accounted memory past a limit that is set.            *)
THEOREM LimitHolds == Spec => LimitRespected
<1>1. IInv /\ [Next]_vars => [GrowthWithinLimit]_vars
  <2>. SUFFICES ASSUME IInv, [Next]_vars PROVE GrowthWithinLimit
    OBVIOUS
  <2>. USE BufferPoolAssumption DEF Parameters, GrowthWithinLimit, CurrentMemoryUsage
  <2>1. totalAllocated \in Nat /\ maxMemory \in Nat
    BY DEF IInv, TypeOK
  <2>2. CASE totalAllocated' = totalAllocated
    BY <2>1, <2>2
  <2>3. ASSUME NEW c \in Clients, AcquireFresh(c) \/ AcquireThrows(c)
        PROVE  GrowthWithinLimit
    <3>1. totalAllocated' = totalAllocated + 1 /\ ~OverLimit
      BY <2>3 DEF AcquireFresh, AcquireThrows
    <3>2. (totalAllocated + 1) * BufferSize \in Nat
      BY <2>1
    <3>. QED  BY <3>1, <3>2, <2>1 DEF OverLimit
  <2>4. ASSUME NEW c \in Clients, NEW b \in Buffers, ReleaseFree(c, b)
        PROVE  GrowthWithinLimit
    <3>1. CASE totalAllocated = 0
      BY <3>1, <2>2, <2>4 DEF ReleaseFree, CountAfterFree
    <3>2. CASE totalAllocated > 0
      <4>1. totalAllocated' = totalAllocated - 1
        BY <3>2, <2>4 DEF ReleaseFree, CountAfterFree
      <4>2. (totalAllocated - 1) * BufferSize <= totalAllocated * BufferSize
        BY <2>1, <3>2
      <4>3. /\ (totalAllocated - 1) * BufferSize \in Int
            /\ totalAllocated * BufferSize \in Int
        BY <2>1
      <4>. QED  BY <4>1, <4>2, <4>3
    <3>. QED  BY <3>1, <3>2, <2>1
  <2>. QED
    BY <2>2, <2>3, <2>4 DEF Next, vars, Acquire, Release, AcquirePooled, AcquireRefused,
                            ReleaseKeep, SetMaxMemoryLimit
<1>. QED  BY <1>1, InvHolds, PTL DEF Spec, LimitRespected
=============================================================================
