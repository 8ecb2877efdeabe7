-------------------------- MODULE EnginePoolProofs --------------------------
(***************************************************************************)
(* EnginePool, proved for every number of threads, every concurrency,      *)
(* every call depth and every pool that holds at least one full call stack.*)
(***************************************************************************)
EXTENDS EnginePool, FiniteSetTheorems, TLAPS

\* instance_pool_size leaves room for at least one full call stack.
LEMMA PoolHoldsACallStack ==
    InstancePoolSize \in Nat /\ InstancePoolSize >= MaxCallDepth
<1>1. ExpectedStackDepth * Concurrency \in Nat
  BY PoolAssumption
<1> DEFINE extra == ExpectedStackDepth * Concurrency
<1>2. extra \in Nat
  BY <1>1
<1> HIDE DEF extra
<1>3. InstancePoolSize =
        IF MaxCallDepth + extra <= MaxInstances THEN MaxCallDepth + extra ELSE MaxInstances
  BY DEF InstancePoolSize, extra
<1> QED
  BY <1>2, <1>3, PoolAssumption

\* What a thread holds while it is at each point of its message.
HeldWhileActive ==
    \A t \in Threads :
        /\ held[t] > 0 => pc[t] \in {"running", "taking"}
        /\ pc[t] = "taking" => held[t] < MaxCallDepth

\* Engine ids in use have all been handed out, none of them twice.
IdsHandedOut ==
    /\ \A t \in Active : id[t] < nextId
    /\ EngineIdsUnique

\* The inductive invariant of the instance pool.
PoolInv ==
    /\ TypeOK
    /\ HeldWhileActive
    /\ IdsHandedOut
    /\ LockOwnerCanFinish

LEMMA PoolInvInit == Init => PoolInv
<1> SUFFICES ASSUME Init PROVE PoolInv
  OBVIOUS
<1>1. TypeOK
  BY PoolHoldsACallStack, PoolAssumption DEF Init, TypeOK, None
<1>2. HeldWhileActive /\ IdsHandedOut
  BY DEF Init, HeldWhileActive, IdsHandedOut, EngineIdsUnique, Active
<1>3. LockOwnerCanFinish
  BY PoolHoldsACallStack, PoolAssumption DEF Init, LockOwnerCanFinish, None
<1> QED
  BY <1>1, <1>2, <1>3 DEF PoolInv

LEMMA PoolInvNext == PoolInv /\ [Next]_vars => PoolInv'
<1> SUFFICES ASSUME PoolInv, [Next]_vars PROVE PoolInv'
  OBVIOUS
<1> USE PoolAssumption DEF PoolInv, TypeOK, HeldWhileActive, IdsHandedOut,
        EngineIdsUnique, LockOwnerCanFinish, Active, None
<1>1. ASSUME NEW t \in Threads, StartMessage(t) PROVE PoolInv'
  BY <1>1 DEF StartMessage, concurrency, pool
<1>2. ASSUME NEW t \in Threads, AcquireWait(t) PROVE PoolInv'
  BY <1>2 DEF AcquireWait, pool, bounds
<1>3. ASSUME NEW t \in Threads, Acquire(t) PROVE PoolInv'
  <2>1. TypeOK' /\ HeldWhileActive' /\ IdsHandedOut'
    BY <1>3 DEF Acquire, pool, bounds
  <2>2. LockOwnerCanFinish'
    BY <1>3 DEF Acquire, pool, bounds
  <2> QED
    BY <2>1, <2>2
<1>4. ASSUME NEW t \in Threads, Release(t) PROVE PoolInv'
  BY <1>4 DEF Release, NotifyOne, pool, bounds
<1>5. ASSUME NEW t \in Threads, Call(t) PROVE PoolInv'
  BY <1>5 DEF Call, pool, concurrency
<1>6. ASSUME NEW t \in Threads, TakeWait(t) PROVE PoolInv'
  BY <1>6 DEF TakeWait, concurrency, bounds
<1>7. ASSUME NEW t \in Threads, Take(t) PROVE PoolInv'
  <2>1. TypeOK' /\ HeldWhileActive' /\ IdsHandedOut'
    BY <1>7 DEF Take, concurrency, bounds
  <2>2. LockOwnerCanFinish'
    BY <1>7 DEF Take, MayTake, concurrency, bounds
  <2> QED
    BY <2>1, <2>2
<1>8. ASSUME NEW t \in Threads, Put(t) PROVE PoolInv'
  <2>1. TypeOK' /\ HeldWhileActive' /\ IdsHandedOut'
    BY <1>8 DEF Put, NotifyOne, concurrency, bounds
  <2>2. LockOwnerCanFinish'
    BY <1>8 DEF Put, concurrency, bounds
  <2> QED
    BY <2>1, <2>2
<1>9. ASSUME NEW t \in Threads, SpuriousWakeup(t) PROVE PoolInv'
  BY <1>9 DEF SpuriousWakeup, bounds
<1>10. CASE UNCHANGED vars
  BY <1>10 DEF vars
<1> QED
  BY <1>1, <1>2, <1>3, <1>4, <1>5, <1>6, <1>7, <1>8, <1>9, <1>10 DEF Next, Step

\* The variables keep their types; in particular no engine ever holds more
\* instances than a full call stack (InstancePool, EngineConcurrency).
THEOREM TypeCorrect == Spec => []TypeOK
<1>1. PoolInv => TypeOK
  BY DEF PoolInv
<1> QED
  BY <1>1, PoolInvInit, PoolInvNext, PTL DEF Spec

\* The lock of the pool belongs to one live engine that can finish with what is
\* left in the pool (InstancePool::take and put).
THEOREM LockIsSound == Spec => []LockOwnerCanFinish
<1>1. PoolInv => LockOwnerCanFinish
  BY DEF PoolInv
<1> QED
  BY <1>1, PoolInvInit, PoolInvNext, PTL DEF Spec

\* The assertion in InstancePool::take holds for every configuration: the pool
\* never runs dry under an engine that stays within its call depth.
THEOREM PoolNeverExhausted == Spec => []NoExhaustion
<1>1. PoolInv => NoExhaustion
  <2> SUFFICES ASSUME PoolInv, NEW t \in Threads, pc[t] = "taking", MayTake(t)
               PROVE  available > 0
    BY DEF NoExhaustion
  <2>1. CASE locked = None
    BY <2>1, PoolAssumption DEF PoolInv, TypeOK, LockOwnerCanFinish
  <2>2. CASE locked # None
    <3>1. PICK s \in Active : id[s] = locked /\ available + held[s] >= MaxCallDepth
      BY <2>2 DEF PoolInv, LockOwnerCanFinish
    <3>2. s = t
      BY <2>2, <3>1 DEF MayTake, PoolInv, IdsHandedOut, EngineIdsUnique, Active
    <3> QED
      BY <3>1, <3>2, PoolAssumption DEF PoolInv, TypeOK, HeldWhileActive
  <2> QED
    BY <2>1, <2>2
<1> QED
  BY <1>1, PoolInvInit, PoolInvNext, PTL DEF Spec

-----------------------------------------------------------------------------
(* The counters: engines in use, and threads awake at each condvar. *)

LEMMA ThreadSetsFinite ==
    /\ IsFiniteSet(Active)
    /\ IsFiniteSet(AwakeAcquirers)
    /\ IsFiniteSet(AwakeTakers)
BY ThreadsFinite, FS_Subset DEF Active, AwakeAcquirers, AwakeTakers

\* The inductive invariant of the semaphore and of both condition variables.
WakeInv ==
    /\ PoolInv
    /\ EnginesAccounted
    /\ NoIdleEngine
    /\ NoIdleInstance

LEMMA WakeInvInit == Init => WakeInv
<1> SUFFICES ASSUME Init PROVE WakeInv
  OBVIOUS
<1>1. Active = {}
  BY DEF Init, Active
<1>2. EnginesAccounted
  BY <1>1, FS_EmptySet, PoolAssumption DEF Init, EnginesAccounted
<1> QED
  BY <1>2, PoolInvInit DEF Init, WakeInv, NoIdleEngine, NoIdleInstance

\* A set of threads that one step extends by one thread.
LEMMA GrowByOne ==
    ASSUME NEW S, IsFiniteSet(S), NEW x, x \notin S
    PROVE  Cardinality(S \cup {x}) = Cardinality(S) + 1 /\ Cardinality(S) \in Nat
BY FS_AddElement, FS_CardinalityType

\* A set of threads that one step reduces by one thread.
LEMMA ShrinkByOne ==
    ASSUME NEW S, IsFiniteSet(S), NEW x, x \in S
    PROVE  Cardinality(S \ {x}) = Cardinality(S) - 1 /\ Cardinality(S) \in Nat
BY FS_RemoveElement, FS_CardinalityType

LEMMA WakeInvNext == WakeInv /\ [Next]_vars => WakeInv'
<1> SUFFICES ASSUME WakeInv, [Next]_vars PROVE WakeInv'
  OBVIOUS
<1>0. PoolInv /\ PoolInv'
  BY PoolInvNext DEF WakeInv
<1> USE <1>0, PoolAssumption, ThreadSetsFinite
<1>a. /\ Cardinality(Active) \in Nat
      /\ Cardinality(AwakeAcquirers) \in Nat
      /\ Cardinality(AwakeTakers) \in Nat
  BY FS_CardinalityType
<1> DEFINE counts == EnginesAccounted' /\ NoIdleEngine' /\ NoIdleInstance'
<1>1. ASSUME NEW t \in Threads, StartMessage(t) PROVE counts
  <2>1. Active' = Active /\ AwakeTakers' = AwakeTakers
    BY <1>1 DEF StartMessage, Active, AwakeTakers, pool, PoolInv, TypeOK
  <2>2. AwakeAcquirers' = AwakeAcquirers \cup {t} /\ t \notin AwakeAcquirers
    BY <1>1 DEF StartMessage, AwakeAcquirers, concurrency, PoolInv, TypeOK
  <2> QED
    BY <1>1, <1>a, <2>1, <2>2, GrowByOne
    DEF StartMessage, concurrency, pool, WakeInv, PoolInv, TypeOK,
        EnginesAccounted, NoIdleEngine, NoIdleInstance
<1>2. ASSUME NEW t \in Threads, AcquireWait(t) PROVE counts
  <2>1. Active' = Active /\ AwakeTakers' = AwakeTakers
    BY <1>2 DEF AcquireWait, Active, AwakeTakers, pool
  <2>2. AwakeAcquirers' = AwakeAcquirers \ {t} /\ t \in AwakeAcquirers
    BY <1>2 DEF AcquireWait, AwakeAcquirers
  <2>3. Cardinality(AwakeAcquirers') \in Nat
    BY <2>2, FS_RemoveElement, FS_CardinalityType
  <2> QED
    BY <1>2, <1>a, <2>1, <2>3
    DEF AcquireWait, pool, WakeInv, EnginesAccounted, NoIdleEngine, NoIdleInstance
<1>3. ASSUME NEW t \in Threads, Acquire(t) PROVE counts
  <2>1. Active' = Active \cup {t} /\ t \notin Active
    BY <1>3 DEF Acquire, Active, PoolInv, TypeOK
  <2>2. AwakeAcquirers' = AwakeAcquirers \ {t} /\ t \in AwakeAcquirers
    BY <1>3 DEF Acquire, AwakeAcquirers, PoolInv, TypeOK
  <2>3. AwakeTakers' = AwakeTakers
    BY <1>3 DEF Acquire, AwakeTakers, pool, PoolInv, TypeOK
  <2> QED
    BY <1>3, <1>a, <2>1, <2>2, <2>3, GrowByOne, ShrinkByOne
    DEF Acquire, pool, WakeInv, PoolInv, TypeOK,
        EnginesAccounted, NoIdleEngine, NoIdleInstance
<1>4. ASSUME NEW t \in Threads, Release(t) PROVE counts
  <2>1. Active' = Active \ {t} /\ t \in Active
    BY <1>4 DEF Release, Active, PoolInv, TypeOK
  <2>2. AwakeTakers' = AwakeTakers
    BY <1>4 DEF Release, AwakeTakers, pool, PoolInv, TypeOK
  <2>3. EnginesAccounted' /\ NoIdleInstance'
    BY <1>4, <1>a, <2>1, <2>2, ShrinkByOne
    DEF Release, pool, WakeInv, PoolInv, TypeOK, EnginesAccounted, NoIdleInstance
  <2>4. NoIdleEngine'
    <3>1. CASE engineWait = {}
      BY <1>4, <3>1 DEF Release, NotifyOne, NoIdleEngine
    <3>2. CASE engineWait # {}
      <4>1. PICK s \in engineWait : engineWait' = engineWait \ {s}
        BY <1>4, <3>2 DEF Release, NotifyOne
      <4>2. AwakeAcquirers' = AwakeAcquirers \cup {s} /\ s \notin AwakeAcquirers
        BY <1>4, <4>1 DEF Release, AwakeAcquirers, PoolInv, TypeOK
      <4> QED
        BY <1>4, <1>a, <3>2, <4>2, GrowByOne DEF Release, WakeInv, PoolInv, TypeOK, NoIdleEngine
    <3> QED
      BY <3>1, <3>2
  <2> QED
    BY <2>3, <2>4
<1>5. ASSUME NEW t \in Threads, Call(t) PROVE counts
  <2>1. Active' = Active /\ AwakeAcquirers' = AwakeAcquirers
    BY <1>5 DEF Call, Active, AwakeAcquirers, concurrency, PoolInv, TypeOK
  <2>2. AwakeTakers' = AwakeTakers \cup {t} /\ t \notin AwakeTakers
    BY <1>5 DEF Call, AwakeTakers, pool, PoolInv, TypeOK
  <2> QED
    BY <1>5, <1>a, <2>1, <2>2, GrowByOne
    DEF Call, concurrency, pool, WakeInv, PoolInv, TypeOK,
        EnginesAccounted, NoIdleEngine, NoIdleInstance
<1>6. ASSUME NEW t \in Threads, TakeWait(t) PROVE counts
  <2>1. Active' = Active /\ AwakeAcquirers' = AwakeAcquirers
    BY <1>6 DEF TakeWait, Active, AwakeAcquirers, concurrency
  <2>2. AwakeTakers' = AwakeTakers \ {t} /\ t \in AwakeTakers
    BY <1>6 DEF TakeWait, AwakeTakers
  <2>3. Cardinality(AwakeTakers') \in Nat
    BY <2>2, FS_RemoveElement, FS_CardinalityType
  <2>4. available < MaxCallDepth
    BY <1>6 DEF TakeWait, MayTake, PoolInv, TypeOK, LockOwnerCanFinish
  <2> QED
    BY <1>6, <1>a, <2>1, <2>3, <2>4
    DEF TakeWait, concurrency, WakeInv, PoolInv, TypeOK,
        EnginesAccounted, NoIdleEngine, NoIdleInstance
<1>7. ASSUME NEW t \in Threads, Take(t) PROVE counts
  <2>1. Active' = Active /\ AwakeAcquirers' = AwakeAcquirers
    BY <1>7 DEF Take, Active, AwakeAcquirers, concurrency, PoolInv, TypeOK
  <2>2. AwakeTakers' = AwakeTakers \ {t} /\ t \in AwakeTakers
    BY <1>7 DEF Take, AwakeTakers, PoolInv, TypeOK
  <2> QED
    BY <1>7, <1>a, <2>1, <2>2, ShrinkByOne
    DEF Take, concurrency, WakeInv, PoolInv, TypeOK,
        EnginesAccounted, NoIdleEngine, NoIdleInstance
<1>8. ASSUME NEW t \in Threads, Put(t) PROVE counts
  <2>1. Active' = Active /\ AwakeAcquirers' = AwakeAcquirers
    BY <1>8 DEF Put, Active, AwakeAcquirers, concurrency
  <2>2. EnginesAccounted' /\ NoIdleEngine'
    BY <1>8, <2>1 DEF Put, concurrency, WakeInv, EnginesAccounted, NoIdleEngine
  <2>3. CASE available' < MaxCallDepth
    <3>1. AwakeTakers' = AwakeTakers /\ instanceWait' = instanceWait
      BY <1>8, <2>3 DEF Put, AwakeTakers, PoolInv, TypeOK
    <3> QED
      BY <1>8, <1>a, <2>2, <2>3, <3>1 DEF Put, WakeInv, PoolInv, TypeOK, NoIdleInstance
  <2>4. CASE available' >= MaxCallDepth /\ instanceWait = {}
    BY <1>8, <2>2, <2>4 DEF Put, NotifyOne, NoIdleInstance
  <2>5. CASE available' >= MaxCallDepth /\ instanceWait # {}
    <3>1. PICK s \in instanceWait : instanceWait' = instanceWait \ {s}
      BY <1>8, <2>5 DEF Put, NotifyOne
    <3>2. AwakeTakers' = AwakeTakers \cup {s} /\ s \notin AwakeTakers
      BY <1>8, <3>1 DEF Put, AwakeTakers, PoolInv, TypeOK
    <3> QED
      BY <1>8, <1>a, <2>2, <2>5, <3>2, GrowByOne DEF Put, WakeInv, PoolInv, TypeOK, NoIdleInstance
  <2> QED
    BY <1>8, <2>3, <2>4, <2>5 DEF Put, PoolInv, TypeOK
<1>9. ASSUME NEW t \in Threads, SpuriousWakeup(t) PROVE counts
  <2>1. Active' = Active
    BY <1>9 DEF SpuriousWakeup, Active
  <2>2. CASE t \in engineWait /\ engineWait' = engineWait \ {t} /\ UNCHANGED instanceWait
    <3>1. AwakeAcquirers' = AwakeAcquirers \cup {t} /\ t \notin AwakeAcquirers
      BY <1>9, <2>2 DEF SpuriousWakeup, AwakeAcquirers, PoolInv, TypeOK
    <3>2. AwakeTakers' = AwakeTakers
      BY <1>9, <2>2 DEF SpuriousWakeup, AwakeTakers
    <3> QED
      BY <1>9, <1>a, <2>1, <2>2, <3>1, <3>2, GrowByOne
      DEF SpuriousWakeup, WakeInv, PoolInv, TypeOK, EnginesAccounted, NoIdleEngine, NoIdleInstance
  <2>3. CASE t \in instanceWait /\ instanceWait' = instanceWait \ {t} /\ UNCHANGED engineWait
    <3>1. AwakeTakers' = AwakeTakers \cup {t} /\ t \notin AwakeTakers
      BY <1>9, <2>3 DEF SpuriousWakeup, AwakeTakers, PoolInv, TypeOK
    <3>2. AwakeAcquirers' = AwakeAcquirers
      BY <1>9, <2>3 DEF SpuriousWakeup, AwakeAcquirers
    <3> QED
      BY <1>9, <1>a, <2>1, <2>3, <3>1, <3>2, GrowByOne
      DEF SpuriousWakeup, WakeInv, PoolInv, TypeOK, EnginesAccounted, NoIdleEngine, NoIdleInstance
  <2> QED
    BY <1>9, <2>2, <2>3 DEF SpuriousWakeup
<1>10. CASE UNCHANGED vars
  BY <1>10 DEF vars, WakeInv, EnginesAccounted, NoIdleEngine, NoIdleInstance,
               Active, AwakeAcquirers, AwakeTakers
<1> QED
  BY <1>1, <1>2, <1>3, <1>4, <1>5, <1>6, <1>7, <1>8, <1>9, <1>10 DEF Next, Step, WakeInv

\* The semaphore of EngineConcurrency never admits more engines than configured.
THEOREM EnginesBounded == Spec => []EnginesAccounted
<1>1. WakeInv => EnginesAccounted
  BY DEF WakeInv
<1> QED
  BY <1>1, WakeInvInit, WakeInvNext, PTL DEF Spec

\* Neither EngineConcurrency::release nor InstancePool::put loses a wake-up: one
\* notify_one per call is enough for every free engine and every free instance.
THEOREM NoWakeupLost == Spec => [](NoIdleEngine /\ NoIdleInstance)
<1>1. WakeInv => NoIdleEngine /\ NoIdleInstance
  BY DEF WakeInv
<1> QED
  BY <1>1, WakeInvInit, WakeInvNext, PTL DEF Spec
=============================================================================
