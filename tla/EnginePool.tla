----------------------------- MODULE EnginePool -----------------------------
(***************************************************************************)
(* The two limits an executor thread passes to run a message:              *)
(*                                                                         *)
(*  - EngineConcurrency (engine/concurrency.rs): a semaphore on engines    *)
(*    that also hands out engine ids;                                      *)
(*  - InstancePool (engine/instance_pool.rs): the shared pool of wasm      *)
(*    instances, "locked" to one engine while it holds fewer instances     *)
(*    than a full call stack needs.                                        *)
(*                                                                         *)
(* Every critical section of the code runs under one mutex and is one      *)
(* action here.  A condition variable is the set of threads asleep on it:  *)
(* notify_one removes an arbitrary member, a spurious wake-up removes one  *)
(* for no reason, and a thread that is not asleep evaluates the predicate  *)
(* of its wait_while before it goes on.  Threads barge: nothing keeps the  *)
(* mutex for the thread that was notified.                                 *)
(***************************************************************************)
EXTENDS Integers, FiniteSets

CONSTANTS
    Threads,             \* executor threads
    Concurrency,         \* EngineConfig::concurrency
    MaxCallDepth,        \* EngineConfig::max_call_depth, the per_engine_limit
    ExpectedStackDepth,  \* EXPECTED_MAX_STACK_DEPTH
    MaxInstances,        \* the pooling allocator's cap, 48 * 1024
    Workloads            \* bound: how many messages each thread may execute,
                         \* and how many actor invocations they make in all

ASSUME PoolAssumption ==
    /\ Concurrency \in Nat \ {0}
    /\ MaxCallDepth \in Nat \ {0}
    /\ ExpectedStackDepth \in Nat
    /\ MaxInstances \in Nat
    /\ MaxCallDepth <= MaxInstances
    /\ Workloads \subseteq [messages : [Threads -> Nat], calls : [Threads -> Nat]]

ASSUME ThreadsFinite == IsFiniteSet(Threads)

VARIABLES
    limit, nextId, engineWait,         \* EngineConcurrencyInner, its condvar
    available, locked, instanceWait,   \* InstancePoolInner, its condvar
    pc, id, held,                      \* a thread: position, engine, instances
    messages, calls                    \* what is left of a thread's bounds

concurrency == <<limit, nextId, engineWait>>
pool == <<available, locked, instanceWait>>
bounds == <<messages, calls>>
vars == <<limit, nextId, engineWait, available, locked, instanceWait,
          pc, id, held, messages, calls>>

\* Option<u64>: the pool is not locked.
None == -1

\* EngineConfig::instance_pool_size.
InstancePoolSize ==
    LET wanted == MaxCallDepth + ExpectedStackDepth * Concurrency
    IN  IF wanted <= MaxInstances THEN wanted ELSE MaxInstances

\* The threads that own an engine.
Active == {t \in Threads : pc[t] \in {"running", "taking"}}

Init ==
    /\ limit = Concurrency
    /\ nextId = 0
    /\ engineWait = {}
    /\ available = InstancePoolSize
    /\ locked = None
    /\ instanceWait = {}
    /\ pc = [t \in Threads |-> "idle"]
    /\ id = [t \in Threads |-> 0]
    /\ held = [t \in Threads |-> 0]
    /\ \E w \in Workloads : messages = w.messages /\ calls = w.calls

-----------------------------------------------------------------------------
(* Condition variables. *)

\* Condvar::notify_one on a condvar on which `asleep` sleep: one of them, any
\* of them, is woken; the call is lost when nobody sleeps.
NotifyOne(asleep, asleepNext) ==
    \/ asleep = {} /\ asleepNext = {}
    \/ \E t \in asleep : asleepNext = asleep \ {t}

\* A wake-up nobody asked for, which the condvar's contract allows.
SpuriousWakeup(t) ==
    /\ \/ /\ t \in engineWait
          /\ engineWait' = engineWait \ {t}
          /\ UNCHANGED instanceWait
       \/ /\ t \in instanceWait
          /\ instanceWait' = instanceWait \ {t}
          /\ UNCHANGED engineWait
    /\ UNCHANGED <<limit, nextId, available, locked, pc, id, held, bounds>>

-----------------------------------------------------------------------------
(* Faulty variants of the actions below, to test the properties against. *)

\* release frees the engine and notifies nobody.
ReleaseSilent(t) ==
    /\ pc[t] = "running"
    /\ held[t] = 0
    /\ limit' = limit + 1
    /\ pc' = [pc EXCEPT ![t] = "idle"]
    /\ UNCHANGED <<nextId, engineWait, pool, id, held, bounds>>

\* put unlocks one instance too early.
PutUnlocksEarly(t) ==
    /\ pc[t] = "running"
    /\ held[t] > 0
    /\ available' = available + 1
    /\ held' = [held EXCEPT ![t] = @ - 1]
    /\ IF available' + 1 >= MaxCallDepth
       THEN locked' = None /\ NotifyOne(instanceWait, instanceWait')
       ELSE UNCHANGED <<locked, instanceWait>>
    /\ UNCHANGED <<concurrency, pc, id, bounds>>

\* put unlocks the pool and notifies nobody.
PutSilent(t) ==
    /\ pc[t] = "running"
    /\ held[t] > 0
    /\ available' = available + 1
    /\ held' = [held EXCEPT ![t] = @ - 1]
    /\ locked' = IF available' >= MaxCallDepth THEN None ELSE locked
    /\ UNCHANGED <<concurrency, instanceWait, pc, id, bounds>>

-----------------------------------------------------------------------------
(* EngineConcurrency. *)

\* The executor starts on a message and calls EnginePool::acquire.
StartMessage(t) ==
    /\ pc[t] = "idle"
    /\ messages[t] > 0
    /\ pc' = [pc EXCEPT ![t] = "acquiring"]
    /\ messages' = [messages EXCEPT ![t] = @ - 1]
    /\ UNCHANGED <<concurrency, pool, id, held, calls>>

\* The wait_while of acquire: no engine is free.
AcquireWait(t) ==
    /\ pc[t] = "acquiring"
    /\ t \notin engineWait
    /\ limit = 0
    /\ engineWait' = engineWait \cup {t}
    /\ UNCHANGED <<limit, nextId, pool, pc, id, held, bounds>>

\* The rest of acquire: take an engine and its id.
Acquire(t) ==
    /\ pc[t] = "acquiring"
    /\ t \notin engineWait
    /\ limit # 0
    /\ id' = [id EXCEPT ![t] = nextId]
    /\ limit' = limit - 1
    /\ nextId' = nextId + 1
    /\ pc' = [pc EXCEPT ![t] = "running"]
    /\ UNCHANGED <<engineWait, pool, held, bounds>>

\* Engine::drop at the end of the message, when every call has returned.
Release(t) ==
    /\ pc[t] = "running"
    /\ held[t] = 0
    /\ limit' = limit + 1
    /\ NotifyOne(engineWait, engineWait')
    /\ pc' = [pc EXCEPT ![t] = "idle"]
    /\ UNCHANGED <<nextId, pool, id, held, bounds>>

-----------------------------------------------------------------------------
(* InstancePool. *)

\* An actor is invoked: with_stack_frame admits the frame, and new_store asks
\* the pool for an instance.
Call(t) ==
    /\ pc[t] = "running"
    /\ held[t] < MaxCallDepth
    /\ calls[t] > 0
    /\ calls' = [calls EXCEPT ![t] = @ - 1]
    /\ pc' = [pc EXCEPT ![t] = "taking"]
    /\ UNCHANGED <<concurrency, pool, id, held, messages>>

\* The predicate under which take goes on: "we own the lock, or could own it".
MayTake(t) == locked \in {None, id[t]}

\* The wait_while of take: the pool is locked to another engine.
TakeWait(t) ==
    /\ pc[t] = "taking"
    /\ t \notin instanceWait
    /\ ~ MayTake(t)
    /\ instanceWait' = instanceWait \cup {t}
    /\ UNCHANGED <<concurrency, available, locked, pc, id, held, bounds>>

\* The rest of take.  The code asserts available > 0 here.
Take(t) ==
    /\ pc[t] = "taking"
    /\ t \notin instanceWait
    /\ MayTake(t)
    /\ available' = available - 1
    /\ locked' = IF available' < MaxCallDepth THEN id[t] ELSE locked
    /\ held' = [held EXCEPT ![t] = @ + 1]
    /\ pc' = [pc EXCEPT ![t] = "running"]
    /\ UNCHANGED <<concurrency, instanceWait, id, bounds>>

\* The store is dropped when the invocation returns, and its reservation with
\* it: InstancePool::put.
Put(t) ==
    /\ pc[t] = "running"
    /\ held[t] > 0
    /\ available' = available + 1
    /\ held' = [held EXCEPT ![t] = @ - 1]
    /\ IF available' >= MaxCallDepth
       THEN locked' = None /\ NotifyOne(instanceWait, instanceWait')
       ELSE UNCHANGED <<locked, instanceWait>>
    /\ UNCHANGED <<concurrency, pc, id, bounds>>

-----------------------------------------------------------------------------
\* What a thread does once it has started a message, without being asked.
Step(t) ==
    \/ AcquireWait(t)
    \/ Acquire(t)
    \/ TakeWait(t)
    \/ Take(t)
    \/ Put(t)
    \/ Release(t)

Next == \E t \in Threads : StartMessage(t) \/ Call(t) \/ Step(t) \/ SpuriousWakeup(t)

Spec == Init /\ [][Next]_vars

\* The operating system runs every runnable thread, and an invocation ends (gas
\* bounds it).  Nothing obliges a thread to start a message, an actor to make a
\* call, or a condvar to wake a thread that was not notified.
FairSpec == Spec /\ \A t \in Threads : WF_vars(Step(t))
-----------------------------------------------------------------------------
(* Properties. *)

TypeOK ==
    /\ limit \in Nat
    /\ nextId \in Nat
    /\ engineWait \subseteq {t \in Threads : pc[t] = "acquiring"}
    /\ available \in Int
    /\ locked \in Nat \cup {None}
    /\ instanceWait \subseteq {t \in Threads : pc[t] = "taking"}
    /\ pc \in [Threads -> {"idle", "acquiring", "running", "taking"}]
    /\ id \in [Threads -> Nat]
    /\ held \in [Threads -> 0 .. MaxCallDepth]
    /\ messages \in [Threads -> Nat]
    /\ calls \in [Threads -> Nat]

\* The assertion of InstancePool::take, "no instances available: we must have
\* exceeded our stack depth", never fails: an engine that passes the wait finds
\* an instance, whatever the other engines hold.
NoExhaustion ==
    \A t \in Threads :
        pc[t] = "taking" /\ t \notin instanceWait /\ MayTake(t) => available > 0

\* Two threads that own engines at the same time never share an engine id, so
\* the pool's lock names exactly one of them (next_id, EngineConcurrency).
EngineIdsUnique ==
    \A s, t \in Active : id[s] = id[t] => s = t

\* The semaphore counts: the engines in use and the free ones make up the
\* configured concurrency, so no more threads than that execute messages.
EnginesAccounted == limit + Cardinality(Active) = Concurrency

\* The lock of the pool belongs to a live engine which, with what is left in the
\* pool, can complete a full call stack; and the pool is locked exactly while
\* what is left would not serve a full call stack of a newcomer.
LockOwnerCanFinish ==
    /\ (locked = None) <=> (available >= MaxCallDepth)
    /\ locked # None =>
          \E t \in Active : /\ id[t] = locked
                            /\ held[t] > 0
                            /\ available + held[t] >= MaxCallDepth

\* No wake-up of acquire is lost: while a thread sleeps on the semaphore, every
\* free engine has an awake thread coming for it.
AwakeAcquirers == {t \in Threads : pc[t] = "acquiring" /\ t \notin engineWait}
NoIdleEngine == engineWait # {} => limit <= Cardinality(AwakeAcquirers)

\* No wake-up of take is lost, although put notifies a single thread: while a
\* thread sleeps on the pool, every instance that could be taken before the pool
\* locks again has an awake thread coming for it.
AwakeTakers == {t \in Threads : pc[t] = "taking" /\ t \notin instanceWait}
NoIdleInstance ==
    instanceWait # {} => available - MaxCallDepth + 1 <= Cardinality(AwakeTakers)

\* A call of acquire returns: EngineConcurrency starves no thread.
AcquireReturns == \A t \in Threads : pc[t] = "acquiring" ~> pc[t] = "running"

\* A call of take returns: the threads that compete for the last instances
\* neither deadlock nor sleep through the pool's unlocking.
TakeReturns == \A t \in Threads : pc[t] = "taking" ~> pc[t] = "running"
=============================================================================
