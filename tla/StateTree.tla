------------------------------ MODULE StateTree ------------------------------
(***************************************************************************)
(* The state tree (state_tree.rs) and the init actor's address map it      *)
(* reads (init_actor.rs): two undo-logged caches, of actors and of         *)
(* resolved addresses, over the persistent HAMT of actors, with a stack of *)
(* snapshot layers that only records how long the two histories were.      *)
(*                                                                         *)
(* An actor state is a member of States, or, for the init actor, its       *)
(* address map and next id, the only contents of a state the tree itself   *)
(* looks into.                                                             *)
(***************************************************************************)
EXTENDS HistoryMap

CONSTANTS
    MaxId,          \* bound: actor ids are 1 .. MaxId
    FirstId,        \* the init actor's first next_id
    Addresses,      \* addresses that are not ID addresses
    States,         \* states of the actors other than the init actor
    NoActor,        \* Option<ActorState>::None
    MaxDepth,       \* bound: open transactions
    MaxHistory      \* bound: entries of each undo history

InitActor == 1
ActorIds == 1 .. MaxId
NoId == 0

InitStates == [address_map : [Addresses -> ActorIds \cup {NoId}], next_id : Nat]
ActorStates == States \cup InitStates
Actors == ActorStates \cup {NoActor}

ASSUME StateTreeAssumption ==
    /\ MaxId \in Nat \ {0}
    /\ FirstId \in Nat
    /\ NoActor \notin ActorStates
    /\ \A s \in States : s \notin InitStates
    /\ MaxDepth \in Nat
    /\ MaxHistory \in Nat

Entries == [dirty : BOOLEAN, actor : Actors]

ASSUME VacantAssumption == Vacant \notin Entries /\ Vacant \notin ActorIds

VARIABLES
    hamt,           \* the persistent map: ActorIds -> Actors
    actorCache,     \* HistoryMap<ActorID, ActorCacheEntry>
    resolveCache,   \* HistoryMap<Address, ActorID>
    layers          \* Vec<StateSnapLayer>

vars == <<hamt, actorCache, resolveCache, layers>>

-----------------------------------------------------------------------------
(* Reading. *)

\* The actor a cache shows: its entry, or what the HAMT has.
ActorIn(cache, actorId) ==
    IF cache.map[actorId] = Vacant THEN hamt[actorId] ELSE cache.map[actorId].actor

\* All the actors, as get_actor returns them.
View == [i \in ActorIds |-> ActorIn(actorCache, i)]

\* The effect of get_actor on the actor cache: a clean entry on a miss.
Loaded(cache, actorId) ==
    GetOrInsert(cache, actorId, [dirty |-> FALSE, actor |-> hamt[actorId]])

\* set_actor that leaves the mark of an entry that is already cached as it is.
StoredUnmarked(cache, actorId, actor) ==
    Insert(cache, actorId,
           [dirty |-> cache.map[actorId] = Vacant \/ cache.map[actorId].dirty, actor |-> actor])

\* The effect of set_actor (and, with NoActor, of delete_actor).
Stored(cache, actorId, actor) ==
    Insert(cache, actorId, [dirty |-> TRUE, actor |-> actor])

\* InitActorState::resolve_address for the init actor a cache shows.
ResolvedIn(cache, addr) == ActorIn(cache, InitActor).address_map[addr]

\* InitActorState::map_address_to_new_id.
MapAddressToNewId(init, addr) ==
    [address_map |-> [init.address_map EXCEPT ![addr] = init.next_id],
     next_id     |-> init.next_id + 1]

-----------------------------------------------------------------------------
\* A HAMT that holds the init actor and any of the others.
Init ==
    /\ \E others \in [ActorIds \ {InitActor} -> States \cup {NoActor}] :
          hamt = [i \in ActorIds |->
                    IF i = InitActor
                    THEN [address_map |-> [a \in Addresses |-> NoId], next_id |-> FirstId]
                    ELSE others[i]]
    /\ actorCache = EmptyHistoryMap(ActorIds)
    /\ resolveCache = EmptyHistoryMap(Addresses)
    /\ layers = <<>>

\* get_actor.
GetActor(actorId) ==
    /\ actorCache' = Loaded(actorCache, actorId)
    /\ UNCHANGED <<hamt, resolveCache, layers>>

\* set_actor, for an actor other than the init actor.
SetActor(actorId, state) ==
    /\ actorId # InitActor
    /\ actorCache' = Stored(actorCache, actorId, state)
    /\ UNCHANGED <<hamt, resolveCache, layers>>

\* delete_actor.  The init actor never destroys itself.
DeleteActor(actorId) ==
    /\ actorId # InitActor
    /\ actorCache' = Stored(actorCache, actorId, NoActor)
    /\ UNCHANGED <<hamt, resolveCache, layers>>

\* mutate_actor and maybe_mutate_actor_id on an actor that exists: get_actor,
\* then set_actor.  When the actor is missing, or the closure fails, only the
\* get_actor has happened, which is the action GetActor.
MutateActor(actorId, state) ==
    /\ actorId # InitActor
    /\ ActorIn(actorCache, actorId) # NoActor
    /\ actorCache' = Stored(Loaded(actorCache, actorId), actorId, state)
    /\ UNCHANGED <<hamt, resolveCache, layers>>

\* The init actor's Exec runs as an actor and registers an address by setting
\* its own state root, behind the back of the resolve cache (Kernel::set_root).
InitActorExec(addr) ==
    LET init == ActorIn(actorCache, InitActor)
    IN  /\ init.address_map[addr] = NoId
        /\ init.next_id \in ActorIds
        /\ actorCache' = Stored(Loaded(actorCache, InitActor), InitActor,
                                MapAddressToNewId(init, addr))
        /\ UNCHANGED <<hamt, resolveCache, layers>>

\* lookup_id of an address that is not an ID address: a cached resolution, or
\* the init actor's, which is cached when there is one.
LookupId(addr) ==
    /\ resolveCache.map[addr] = Vacant
    /\ actorCache' = Loaded(actorCache, InitActor)
    /\ resolveCache' =
          IF ResolvedIn(actorCache, addr) = NoId THEN resolveCache
          ELSE Insert(resolveCache, addr, ResolvedIn(actorCache, addr))
    /\ UNCHANGED <<hamt, layers>>

\* register_new_address, which callers use for addresses that do not resolve.
RegisterNewAddress(addr) ==
    LET init == ActorIn(actorCache, InitActor)
    IN  /\ init.address_map[addr] = NoId
        /\ init.next_id \in ActorIds
        /\ actorCache' = Stored(Loaded(actorCache, InitActor), InitActor,
                                MapAddressToNewId(init, addr))
        /\ resolveCache' = Insert(resolveCache, addr, init.next_id)
        /\ UNCHANGED <<hamt, layers>>

-----------------------------------------------------------------------------
(* Transactions. *)

BeginTransaction ==
    /\ Len(layers) < MaxDepth
    /\ layers' = Append(layers, [actorHeight   |-> HistoryLen(actorCache),
                                 resolveHeight |-> HistoryLen(resolveCache)])
    /\ UNCHANGED <<hamt, actorCache, resolveCache>>

\* The rest of end_transaction once the caches are as they should be: the last
\* transaction discards the undo histories.
Ended(actors, resolutions) ==
    /\ layers' = SubSeq(layers, 1, Len(layers) - 1)
    /\ actorCache' = IF layers' = <<>> THEN DiscardHistory(actors) ELSE actors
    /\ resolveCache' = IF layers' = <<>> THEN DiscardHistory(resolutions) ELSE resolutions
    /\ UNCHANGED hamt

\* end_transaction(true) that forgets the resolve cache.
RevertActorsOnly ==
    /\ layers # <<>>
    /\ Ended(Rollback(actorCache, layers[Len(layers)].actorHeight), resolveCache)

\* end_transaction(true).
RevertTransaction ==
    /\ layers # <<>>
    /\ Ended(Rollback(actorCache, layers[Len(layers)].actorHeight),
             Rollback(resolveCache, layers[Len(layers)].resolveHeight))

\* end_transaction(false) that discards the history of the enclosing
\* transactions too.
CommitDiscards ==
    /\ layers # <<>>
    /\ layers' = SubSeq(layers, 1, Len(layers) - 1)
    /\ actorCache' = DiscardHistory(actorCache)
    /\ resolveCache' = DiscardHistory(resolveCache)
    /\ UNCHANGED hamt

\* end_transaction(false).
CommitTransaction ==
    /\ layers # <<>>
    /\ Ended(actorCache, resolveCache)

-----------------------------------------------------------------------------
(* Flushing. *)

IsDirty(actorId) == actorCache.map[actorId] # Vacant /\ actorCache.map[actorId].dirty

\* The loop of flush: every dirty entry loses its mark and is written to the HAMT.
\* The map is updated in place, past the undo history.
WriteBack ==
    /\ actorCache' = [actorCache EXCEPT !.map =
                         [i \in ActorIds |-> IF IsDirty(i)
                                             THEN [@[i] EXCEPT !.dirty = FALSE]
                                             ELSE @[i]]]
    /\ hamt' = [i \in ActorIds |-> IF IsDirty(i) THEN actorCache.map[i].actor ELSE hamt[i]]
    /\ UNCHANGED <<resolveCache, layers>>

\* flush, refused inside of a transaction.  A HAMT that fails ends the machine.
Flush ==
    /\ layers = <<>>
    /\ WriteBack

-----------------------------------------------------------------------------
Operate ==
    \/ \E i \in ActorIds : GetActor(i) \/ DeleteActor(i)
    \/ \E i \in ActorIds, s \in States : SetActor(i, s) \/ MutateActor(i, s)
    \/ \E a \in Addresses : LookupId(a) \/ RegisterNewAddress(a) \/ InitActorExec(a)

\* Each operation makes at most two changes to the actor cache and one to the
\* resolve cache.
HistoryBound ==
    /\ HistoryLen(actorCache) + 2 <= MaxHistory
    /\ HistoryLen(resolveCache) + 1 <= MaxHistory

Next ==
    \/ HistoryBound /\ Operate
    \/ BeginTransaction
    \/ RevertTransaction
    \/ CommitTransaction
    \/ Flush

Spec == Init /\ [][Next]_vars

-----------------------------------------------------------------------------
(* Properties. *)

TypeOK ==
    /\ hamt \in [ActorIds -> Actors]
    /\ actorCache \in HistoryMaps(ActorIds, Entries)
    /\ resolveCache \in HistoryMaps(Addresses, ActorIds)
    /\ View[InitActor] \in InitStates
    /\ layers \in Seq([actorHeight : Nat, resolveHeight : Nat])

\* What the state tree promises (TransactionalStore): the map is what get_actor
\* returns, a transaction's saved map is what rolling the actor cache back to
\* its layer would show, and the HAMT is what is persisted.
LayerView(n) ==
    [i \in ActorIds |-> ActorIn(Rollback(actorCache, layers[n].actorHeight), i)]

Store == INSTANCE TransactionalStore
    WITH Keys <- ActorIds, Values <- Actors, view <- View,
         stack <- [n \in 1 .. Len(layers) |-> LayerView(n)], persisted <- hamt

\* The state tree implements that promise: begin_transaction and
\* end_transaction(true), with whatever reads, writes, address registrations and
\* nested transactions lie between them, leave every actor as it was, and flush
\* persists exactly what get_actor returned.
ImplementsStore == Store!StoreSpec

\* What resolve_cache remembers is what the init actor's address map says,
\* although end_transaction rolls the two back separately and next_id goes back
\* with the map, so that ids are given out again.
Coherent(resolutions, actors) ==
    \A a \in Addresses : resolutions.map[a] # Vacant =>
                            resolutions.map[a] = ResolvedIn(actors, a)
ResolveCoherent == Coherent(resolveCache, actorCache)

\* An actor-cache entry that is not marked dirty is what the HAMT holds, so that
\* flush may skip it (the `dirty` field of ActorCacheEntry).
CleanIsPersisted ==
    \A i \in ActorIds :
        actorCache.map[i] # Vacant /\ ~ actorCache.map[i].dirty =>
            actorCache.map[i].actor = hamt[i]

\* The loop of HistoryMap::rollback, run on either cache and for every layer that
\* could be reverted, restores at each key what its oldest undone change replaced.
RollbackIsLoop ==
    \A n \in 1 .. Len(layers) :
        /\ Rollback(actorCache, layers[n].actorHeight)
              = RollbackLoop(actorCache, layers[n].actorHeight)
        /\ Rollback(resolveCache, layers[n].resolveHeight)
              = RollbackLoop(resolveCache, layers[n].resolveHeight)
=============================================================================
