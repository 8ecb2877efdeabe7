--------------------------- MODULE StateTreeProofs ---------------------------
(***************************************************************************)
(* The state tree keeps its promise (TransactionalStore), for every set of *)
(* actors, addresses and states and every nesting of transactions.         *)
(***************************************************************************)
EXTENDS StateTree, CommonProofs, SequenceTheorems

-----------------------------------------------------------------------------
(* Steps that only add to a cache. *)

\* g is h after some changes: it has every value h could be rolled back to.
Extension(g, h, Keys, Values) ==
    /\ g \in HistoryMaps(Keys, Values)
    /\ Len(g.history) >= Len(h.history)
    /\ \A height \in 0 .. Len(h.history), x \in Keys :
          ValueAt(g, height, x) = ValueAt(h, height, x)

LEMMA ExtensionTransitive ==
    ASSUME NEW Keys, NEW Values, NEW h \in HistoryMaps(Keys, Values), NEW g, NEW f,
           Extension(g, h, Keys, Values), Extension(f, g, Keys, Values)
    PROVE  Extension(f, h, Keys, Values)
<1>1. Len(h.history) \in Nat
  BY HistoryMapFields
<1>2. g \in HistoryMaps(Keys, Values) /\ f \in HistoryMaps(Keys, Values)
  BY DEF Extension
<1>3. Len(g.history) \in Nat
  BY <1>2, HistoryMapFields
<1>4. Len(f.history) \in Nat
  BY <1>2, HistoryMapFields
<1> QED
  BY <1>1, <1>2, <1>3, <1>4 DEF Extension

LEMMA InsertExtends ==
    ASSUME NEW Keys, NEW Values, NEW h \in HistoryMaps(Keys, Values),
           NEW k \in Keys, NEW v \in Values
    PROVE  /\ Extension(Insert(h, k, v), h, Keys, Values)
           /\ Insert(h, k, v).map = [h.map EXCEPT ![k] = v]
BY InsertKeepsPast DEF Extension

\* get_actor on a cache, when the HAMT holds actors.
LEMMA LoadedExtends ==
    ASSUME NEW cache \in HistoryMaps(ActorIds, Entries), NEW i \in ActorIds,
           hamt \in [ActorIds -> Actors]
    PROVE  /\ Extension(Loaded(cache, i), cache, ActorIds, Entries)
           /\ Loaded(cache, i).map =
                [cache.map EXCEPT ![i] = IF cache.map[i] = Vacant
                                         THEN [dirty |-> FALSE, actor |-> hamt[i]]
                                         ELSE cache.map[i]]
<1> DEFINE entry == [dirty |-> FALSE, actor |-> hamt[i]]
<1>1. entry \in Entries
  BY DEF Entries
<1>2. cache.map \in [ActorIds -> Entries \cup {Vacant}] /\ Len(cache.history) \in Nat
  BY HistoryMapFields
<1>3. CASE cache.map[i] = Vacant
  <2>1. Loaded(cache, i) = Insert(cache, i, entry)
    BY <1>3 DEF Loaded, GetOrInsert
  <2> HIDE DEF entry
  <2>2. /\ Extension(Insert(cache, i, entry), cache, ActorIds, Entries)
        /\ Insert(cache, i, entry).map = [cache.map EXCEPT ![i] = entry]
    BY <1>1, InsertExtends
  <2>3. Loaded(cache, i).map =
          [cache.map EXCEPT ![i] = IF cache.map[i] = Vacant THEN entry ELSE cache.map[i]]
    BY <1>3, <2>1, <2>2
  <2> QED
    BY <2>1, <2>2, <2>3 DEF entry
<1>4. CASE cache.map[i] # Vacant
  <2>1. Loaded(cache, i) = cache
    BY <1>4 DEF Loaded, GetOrInsert
  <2>2. [cache.map EXCEPT ![i] = cache.map[i]] = cache.map
    BY <1>2
  <2> QED
    BY <1>2, <1>4, <2>1, <2>2 DEF Extension
<1> QED
  BY <1>3, <1>4

\* set_actor and delete_actor on a cache.
LEMMA StoredExtends ==
    ASSUME NEW cache \in HistoryMaps(ActorIds, Entries), NEW i \in ActorIds,
           NEW actor \in Actors
    PROVE  /\ Extension(Stored(cache, i, actor), cache, ActorIds, Entries)
           /\ Stored(cache, i, actor).map =
                [cache.map EXCEPT ![i] = [dirty |-> TRUE, actor |-> actor]]
<1> DEFINE entry == [dirty |-> TRUE, actor |-> actor]
<1>1. entry \in Entries
  BY DEF Entries
<1>2. Stored(cache, i, actor) = Insert(cache, i, entry)
  BY DEF Stored
<1> HIDE DEF entry
<1>3. /\ Extension(Insert(cache, i, entry), cache, ActorIds, Entries)
      /\ Insert(cache, i, entry).map = [cache.map EXCEPT ![i] = entry]
  BY <1>1, InsertExtends
<1> QED
  BY <1>2, <1>3 DEF entry

\* get_actor and then set_actor (mutate_actor, register_new_address).
LEMMA LoadedStoredExtends ==
    ASSUME NEW cache \in HistoryMaps(ActorIds, Entries), NEW i \in ActorIds,
           NEW actor \in Actors, hamt \in [ActorIds -> Actors]
    PROVE  /\ Extension(Stored(Loaded(cache, i), i, actor), cache, ActorIds, Entries)
           /\ Stored(Loaded(cache, i), i, actor).map =
                [cache.map EXCEPT ![i] = [dirty |-> TRUE, actor |-> actor]]
<1>1. cache.map \in [ActorIds -> Entries \cup {Vacant}]
  BY HistoryMapFields
<1>2. Extension(Loaded(cache, i), cache, ActorIds, Entries)
  BY LoadedExtends
<1>3. Loaded(cache, i) \in HistoryMaps(ActorIds, Entries)
  BY <1>2 DEF Extension
<1>4. Extension(Stored(Loaded(cache, i), i, actor), Loaded(cache, i), ActorIds, Entries)
  BY <1>3, StoredExtends
<1>5. Extension(Stored(Loaded(cache, i), i, actor), cache, ActorIds, Entries)
  BY <1>2, <1>4, ExtensionTransitive
<1>6. Stored(Loaded(cache, i), i, actor).map =
        [Loaded(cache, i).map EXCEPT ![i] = [dirty |-> TRUE, actor |-> actor]]
  BY <1>3, StoredExtends
<1>7. PICK e : Loaded(cache, i).map = [cache.map EXCEPT ![i] = e]
  BY LoadedExtends
<1> QED
  BY <1>1, <1>5, <1>6, <1>7

-----------------------------------------------------------------------------
(* The inductive invariant. *)

\* The contents of the two caches if the n-th open transaction were reverted.
EntriesAt(n) == [i \in ActorIds |-> ValueAt(actorCache, layers[n].actorHeight, i)]
IdsAt(n) == [a \in Addresses |-> ValueAt(resolveCache, layers[n].resolveHeight, a)]

\* The actor that some contents of the actor cache show.
Shown(entries, i) == IF entries[i] = Vacant THEN hamt[i] ELSE entries[i].actor

\* Contents of the caches that agree with each other and with the HAMT.
Sound(entries, ids) ==
    /\ Shown(entries, InitActor) \in InitStates
    /\ \A i \in ActorIds :
          entries[i] # Vacant /\ ~ entries[i].dirty => entries[i].actor = hamt[i]
    /\ \A a \in Addresses :
          ids[a] # Vacant => ids[a] = Shown(entries, InitActor).address_map[a]

TreeTypes ==
    /\ hamt \in [ActorIds -> Actors]
    /\ hamt[InitActor] \in InitStates
    /\ actorCache \in HistoryMaps(ActorIds, Entries)
    /\ resolveCache \in HistoryMaps(Addresses, ActorIds)
    /\ layers \in Seq([actorHeight : Nat, resolveHeight : Nat])

\* The heights of the layers are lengths the histories had, in order.
Heights ==
    /\ \A n \in 1 .. Len(layers) :
          /\ layers[n].actorHeight \in 0 .. Len(actorCache.history)
          /\ layers[n].resolveHeight \in 0 .. Len(resolveCache.history)
    /\ \A m, n \in 1 .. Len(layers) : m <= n =>
          /\ layers[m].actorHeight <= layers[n].actorHeight
          /\ layers[m].resolveHeight <= layers[n].resolveHeight

\* The caches are sound now, and would be if any open transaction were reverted.
TreeInv ==
    /\ TreeTypes
    /\ Heights
    /\ Sound(actorCache.map, resolveCache.map)
    /\ \A n \in 1 .. Len(layers) : Sound(EntriesAt(n), IdsAt(n))

LEMMA InitActorIsAnActor == InitActor \in ActorIds
BY StateTreeAssumption DEF InitActor, ActorIds

LEMMA TreeInvInit == Init => TreeInv
<1> SUFFICES ASSUME Init PROVE TreeInv
  OBVIOUS
<1> DEFINE init == [address_map |-> [a \in Addresses |-> NoId], next_id |-> FirstId]
<1>1. init \in InitStates
  BY StateTreeAssumption DEF InitStates
<1> HIDE DEF init
<1>2. PICK others \in [ActorIds \ {InitActor} -> States \cup {NoActor}] :
        hamt = [i \in ActorIds |-> IF i = InitActor THEN init ELSE others[i]]
  BY DEF Init, init
<1>3. hamt \in [ActorIds -> Actors] /\ hamt[InitActor] = init
  BY <1>1, <1>2, InitActorIsAnActor DEF Actors, ActorStates
<1>4. /\ actorCache.map = [i \in ActorIds |-> Vacant]
      /\ resolveCache.map = [a \in Addresses |-> Vacant]
      /\ layers = <<>>
  BY DEF Init, EmptyHistoryMap
<1>5. /\ actorCache \in HistoryMaps(ActorIds, Entries)
      /\ resolveCache \in HistoryMaps(Addresses, ActorIds)
  BY DEF Init, EmptyHistoryMap, HistoryMaps
<1>6. TreeTypes
  BY <1>1, <1>3, <1>4, <1>5 DEF TreeTypes
<1>7. Sound(actorCache.map, resolveCache.map)
  BY <1>1, <1>3, <1>4, InitActorIsAnActor DEF Sound, Shown
<1> QED
  BY <1>4, <1>6, <1>7 DEF TreeInv, Heights

\* A step that only extends the caches keeps what every transaction would be
\* reverted to.
LEMMA ExtensionStep ==
    ASSUME TreeInv, UNCHANGED <<hamt, layers>>,
           Extension(actorCache', actorCache, ActorIds, Entries),
           Extension(resolveCache', resolveCache, Addresses, ActorIds),
           Sound(actorCache.map, resolveCache.map)'
    PROVE  /\ TreeInv'
           /\ \A n \in 1 .. Len(layers) : EntriesAt(n)' = EntriesAt(n)
<1>1. Len(actorCache.history) \in Nat /\ Len(resolveCache.history) \in Nat
  BY HistoryMapFields DEF TreeInv, TreeTypes
<1>2. /\ actorCache' \in HistoryMaps(ActorIds, Entries)
      /\ resolveCache' \in HistoryMaps(Addresses, ActorIds)
  BY DEF Extension
<1>3. Len(actorCache'.history) \in Nat /\ Len(resolveCache'.history) \in Nat
  BY <1>2, HistoryMapFields
<1>4. TreeTypes'
  BY <1>2 DEF TreeInv, TreeTypes
<1>5. Heights'
  BY <1>1, <1>3 DEF TreeInv, Heights, Extension
<1>6. ASSUME NEW n \in 1 .. Len(layers)
      PROVE  EntriesAt(n)' = EntriesAt(n) /\ IdsAt(n)' = IdsAt(n)
  BY DEF TreeInv, Heights, Extension, EntriesAt, IdsAt
<1>7. ASSUME NEW n \in 1 .. Len(layers) PROVE Sound(EntriesAt(n), IdsAt(n))'
  BY <1>6 DEF TreeInv, Sound, Shown
<1> QED
  BY <1>4, <1>5, <1>6, <1>7 DEF TreeInv

-----------------------------------------------------------------------------
(* The operations, one lemma each: the invariant, the map they show, and what *)
(* the open transactions would be reverted to.                                *)

\* A step as the callers of the state tree see it: at most one actor changes, and
\* no open transaction's saved map does.
ActorStep ==
    /\ TreeInv'
    /\ UNCHANGED <<hamt, layers>>
    /\ \A n \in 1 .. Len(layers) : EntriesAt(n)' = EntriesAt(n)
    /\ \E i \in ActorIds, actor \in Actors :
          View' = [View EXCEPT ![i] = actor]

\* Contents of the actor cache map ids to entries.
LEMMA CacheMaps ==
    ASSUME TreeTypes
    PROVE  /\ actorCache.map \in [ActorIds -> Entries \cup {Vacant}]
           /\ resolveCache.map \in [Addresses -> ActorIds \cup {Vacant}]
BY HistoryMapFields DEF TreeTypes

\* What the caches show are actors.
LEMMA ViewType ==
    ASSUME TreeTypes
    PROVE  View \in [ActorIds -> Actors] /\ \A i \in ActorIds : View[i] = Shown(actorCache.map, i)
<1>1. actorCache.map \in [ActorIds -> Entries \cup {Vacant}]
  BY CacheMaps
<1>2. ASSUME NEW i \in ActorIds PROVE Shown(actorCache.map, i) \in Actors
  BY <1>1 DEF Shown, Entries, TreeTypes
<1> QED
  BY <1>2 DEF View, ActorIn, Shown

\* Loading an actor changes nothing that is shown.
LEMMA LoadStep ==
    ASSUME TreeInv, UNCHANGED <<hamt, layers>>, NEW i \in ActorIds,
           actorCache' = Loaded(actorCache, i),
           Extension(resolveCache', resolveCache, Addresses, ActorIds),
           \A a \in Addresses : resolveCache'.map[a] # Vacant =>
              resolveCache'.map[a] = Shown(actorCache.map, InitActor).address_map[a]
    PROVE  ActorStep
<1> USE InitActorIsAnActor
<1>1. TreeTypes /\ Sound(actorCache.map, resolveCache.map)
  BY DEF TreeInv
<1> DEFINE clean == [dirty |-> FALSE, actor |-> hamt[i]]
           entry == IF actorCache.map[i] = Vacant THEN clean ELSE actorCache.map[i]
<1>2. /\ Extension(actorCache', actorCache, ActorIds, Entries)
      /\ actorCache'.map = [actorCache.map EXCEPT ![i] = entry]
  BY <1>1, LoadedExtends DEF TreeTypes
<1>3. actorCache.map \in [ActorIds -> Entries \cup {Vacant}]
  BY <1>1, CacheMaps
<1>4. clean \in Entries /\ clean.actor = hamt[i]
  BY <1>1 DEF Entries, TreeTypes
<1>a. entry # Vacant /\ entry.actor = Shown(actorCache.map, i)
  BY <1>3, <1>4, VacantAssumption DEF Shown
<1>b. ~ entry.dirty => entry.actor = hamt[i]
  BY <1>1, <1>4 DEF Sound
<1> HIDE DEF clean, entry
<1>5. \A j \in ActorIds : Shown(actorCache.map, j)' = Shown(actorCache.map, j)
  BY <1>2, <1>3, <1>a DEF Shown
<1>6. Sound(actorCache.map, resolveCache.map)'
  <2>1. Shown(actorCache.map, InitActor)' \in InitStates
    BY <1>1, <1>5 DEF Sound
  <2>2. ASSUME NEW j \in ActorIds, actorCache'.map[j] # Vacant, ~ actorCache'.map[j].dirty
        PROVE  actorCache'.map[j].actor = hamt[j]
    BY <1>1, <1>2, <1>3, <1>b, <2>2 DEF Sound
  <2>3. ASSUME NEW a \in Addresses, resolveCache'.map[a] # Vacant
        PROVE  resolveCache'.map[a] = Shown(actorCache.map, InitActor)'.address_map[a]
    BY <1>5, <2>3
  <2> QED
    BY <2>1, <2>2, <2>3 DEF Sound
<1>7. TreeInv' /\ \A n \in 1 .. Len(layers) : EntriesAt(n)' = EntriesAt(n)
  BY <1>2, <1>6, ExtensionStep
<1>8. View' = [View EXCEPT ![i] = View[i]] /\ View[i] \in Actors
  BY <1>1, <1>5, <1>7, ViewType DEF View, ActorIn, Shown
<1> QED
  BY <1>7, <1>8 DEF ActorStep

\* Storing an actor shows it.
LEMMA StoreStep ==
    ASSUME TreeInv, UNCHANGED <<hamt, layers>>, NEW i \in ActorIds, NEW actor \in Actors,
           Extension(actorCache', actorCache, ActorIds, Entries),
           actorCache'.map = [actorCache.map EXCEPT ![i] = [dirty |-> TRUE, actor |-> actor]],
           Extension(resolveCache', resolveCache, Addresses, ActorIds),
           i = InitActor => actor \in InitStates,
           \A a \in Addresses : resolveCache'.map[a] # Vacant =>
              resolveCache'.map[a] = (IF i = InitActor THEN actor
                                      ELSE Shown(actorCache.map, InitActor)).address_map[a]
    PROVE  ActorStep
<1> USE InitActorIsAnActor
<1>1. TreeTypes /\ Sound(actorCache.map, resolveCache.map)
  BY DEF TreeInv
<1>3. actorCache.map \in [ActorIds -> Entries \cup {Vacant}]
  BY <1>1, CacheMaps
<1> DEFINE entry == [dirty |-> TRUE, actor |-> actor]
<1>4. entry \in Entries /\ entry.actor = actor /\ entry.dirty
  BY DEF Entries
<1>a. actorCache'.map = [actorCache.map EXCEPT ![i] = entry] /\ entry # Vacant
  BY <1>4, VacantAssumption
<1> HIDE DEF entry
<1>5. \A j \in ActorIds : Shown(actorCache.map, j)' =
                             IF j = i THEN actor ELSE Shown(actorCache.map, j)
  <2>1. Shown(actorCache.map, i)' = actor
    BY <1>3, <1>4, <1>a DEF Shown
  <2>2. ASSUME NEW j \in ActorIds, j # i
        PROVE  Shown(actorCache.map, j)' = Shown(actorCache.map, j)
    <3>1. actorCache'.map[j] = actorCache.map[j]
      BY <1>3, <1>a, <2>2
    <3> QED
      BY <3>1 DEF Shown
  <2> QED
    BY <2>1, <2>2
<1>6. Sound(actorCache.map, resolveCache.map)'
  <2>1. Shown(actorCache.map, InitActor)' \in InitStates
    BY <1>1, <1>5 DEF Sound
  <2>2. ASSUME NEW j \in ActorIds, actorCache'.map[j] # Vacant, ~ actorCache'.map[j].dirty
        PROVE  actorCache'.map[j].actor = hamt[j]
    BY <1>1, <1>3, <1>4, <1>a, <2>2 DEF Sound
  <2>3. ASSUME NEW a \in Addresses, resolveCache'.map[a] # Vacant
        PROVE  resolveCache'.map[a] = Shown(actorCache.map, InitActor)'.address_map[a]
    BY <1>5, <2>3
  <2> QED
    BY <2>1, <2>2, <2>3 DEF Sound
<1>7. TreeInv' /\ \A n \in 1 .. Len(layers) : EntriesAt(n)' = EntriesAt(n)
  BY <1>6, ExtensionStep
<1>8. View' = [View EXCEPT ![i] = actor]
  BY <1>1, <1>5, <1>7, ViewType DEF View, ActorIn, Shown
<1> QED
  BY <1>7, <1>8 DEF ActorStep

\* A cache that does not change extends itself.
LEMMA ExtensionReflexive ==
    ASSUME NEW Keys, NEW Values, NEW h \in HistoryMaps(Keys, Values)
    PROVE  Extension(h, h, Keys, Values)
<1>1. Len(h.history) \in Nat
  BY HistoryMapFields
<1> QED
  BY <1>1 DEF Extension

\* The init actor after an address is registered is still an init actor.
LEMMA RegisteredInit ==
    ASSUME NEW init \in InitStates, NEW addr \in Addresses, init.next_id \in ActorIds
    PROVE  /\ MapAddressToNewId(init, addr) \in InitStates
           /\ MapAddressToNewId(init, addr).address_map =
                 [init.address_map EXCEPT ![addr] = init.next_id]
BY StateTreeAssumption DEF MapAddressToNewId, InitStates, ActorIds

\* get_actor.
LEMMA GetActorStep ==
    ASSUME TreeInv, NEW i \in ActorIds, GetActor(i)
    PROVE  ActorStep
<1>1. TreeTypes /\ Sound(actorCache.map, resolveCache.map)
  BY DEF TreeInv
<1>2. Extension(resolveCache', resolveCache, Addresses, ActorIds)
  BY <1>1, ExtensionReflexive DEF GetActor, TreeTypes
<1>3. \A a \in Addresses : resolveCache'.map[a] # Vacant =>
         resolveCache'.map[a] = Shown(actorCache.map, InitActor).address_map[a]
  BY <1>1 DEF GetActor, Sound
<1> QED
  BY <1>2, <1>3, LoadStep DEF GetActor

\* set_actor, delete_actor and mutate_actor of an actor other than the init actor.
LEMMA StoredStep ==
    ASSUME TreeInv, NEW i \in ActorIds, NEW actor \in Actors, i # InitActor,
           \/ actorCache' = Stored(actorCache, i, actor)
           \/ actorCache' = Stored(Loaded(actorCache, i), i, actor),
           UNCHANGED <<hamt, resolveCache, layers>>
    PROVE  ActorStep
<1>1. TreeTypes /\ Sound(actorCache.map, resolveCache.map)
  BY DEF TreeInv
<1>2. Extension(resolveCache', resolveCache, Addresses, ActorIds)
  BY <1>1, ExtensionReflexive DEF TreeTypes
<1>3. /\ Extension(actorCache', actorCache, ActorIds, Entries)
      /\ actorCache'.map = [actorCache.map EXCEPT ![i] = [dirty |-> TRUE, actor |-> actor]]
  <2>1. CASE actorCache' = Stored(actorCache, i, actor)
    BY <1>1, <2>1, StoredExtends DEF TreeTypes
  <2>2. CASE actorCache' = Stored(Loaded(actorCache, i), i, actor)
    BY <1>1, <2>2, LoadedStoredExtends DEF TreeTypes
  <2> QED
    BY <2>1, <2>2
<1>4. \A a \in Addresses : resolveCache'.map[a] # Vacant =>
         resolveCache'.map[a] = Shown(actorCache.map, InitActor).address_map[a]
  BY <1>1 DEF Sound
<1> QED
  BY <1>2, <1>3, <1>4, StoreStep

\* lookup_id.
LEMMA LookupIdStep ==
    ASSUME TreeInv, NEW addr \in Addresses, LookupId(addr)
    PROVE  ActorStep
<1>1. TreeTypes /\ Sound(actorCache.map, resolveCache.map)
  BY DEF TreeInv
<1> DEFINE init == Shown(actorCache.map, InitActor)
           found == init.address_map[addr]
<1>2. found \in ActorIds \cup {NoId}
  BY <1>1 DEF Sound, InitStates
<1>3. ResolvedIn(actorCache, addr) = found
  BY DEF ResolvedIn, ActorIn, Shown
<1>4. resolveCache.map \in [Addresses -> ActorIds \cup {Vacant}]
  BY <1>1, CacheMaps
<1>5. \A a \in Addresses : resolveCache.map[a] # Vacant =>
         resolveCache.map[a] = init.address_map[a]
  BY <1>1 DEF Sound
<1> HIDE DEF init
<1>6. /\ Extension(resolveCache', resolveCache, Addresses, ActorIds)
      /\ \A a \in Addresses : resolveCache'.map[a] # Vacant =>
            resolveCache'.map[a] = init.address_map[a]
  <2>1. CASE found = NoId
    BY <1>1, <1>3, <1>5, <2>1, ExtensionReflexive DEF LookupId, TreeTypes
  <2>2. CASE found # NoId
    <3>1. resolveCache' = Insert(resolveCache, addr, found) /\ found \in ActorIds
      BY <1>2, <1>3, <2>2 DEF LookupId
    <3>2. /\ Extension(resolveCache', resolveCache, Addresses, ActorIds)
          /\ resolveCache'.map = [resolveCache.map EXCEPT ![addr] = found]
      BY <1>1, <3>1, InsertExtends DEF TreeTypes
    <3> QED
      BY <1>4, <1>5, <3>2
  <2> QED
    BY <2>1, <2>2
<1> QED
  BY <1>6, LoadStep, InitActorIsAnActor DEF LookupId, init

\* The init actor's Exec and register_new_address.
LEMMA RegisterStep ==
    ASSUME TreeInv, NEW addr \in Addresses, InitActorExec(addr) \/ RegisterNewAddress(addr)
    PROVE  ActorStep
<1>1. TreeTypes /\ Sound(actorCache.map, resolveCache.map)
  BY DEF TreeInv
<1> DEFINE init == Shown(actorCache.map, InitActor)
           actor == MapAddressToNewId(init, addr)
<1>2. init \in InitStates /\ init.address_map \in [Addresses -> ActorIds \cup {NoId}]
  BY <1>1 DEF Sound, InitStates
<1>3. init = ActorIn(actorCache, InitActor)
  BY DEF ActorIn, Shown
<1>4. /\ init.address_map[addr] = NoId /\ init.next_id \in ActorIds
      /\ actorCache' = Stored(Loaded(actorCache, InitActor), InitActor, actor)
      /\ resolveCache' \in {resolveCache, Insert(resolveCache, addr, init.next_id)}
      /\ UNCHANGED <<hamt, layers>>
  BY <1>3 DEF InitActorExec, RegisterNewAddress
<1>5. resolveCache.map \in [Addresses -> ActorIds \cup {Vacant}]
  BY <1>1, CacheMaps
<1>6. \A a \in Addresses : resolveCache.map[a] # Vacant =>
         resolveCache.map[a] = init.address_map[a]
  BY <1>1 DEF Sound
<1>7. actor \in InitStates /\ actor.address_map = [init.address_map EXCEPT ![addr] = init.next_id]
  BY <1>2, <1>4, RegisteredInit
<1> HIDE DEF init, actor
<1>8. resolveCache.map[addr] = Vacant
  <2>1. NoId \notin ActorIds
    BY DEF NoId, ActorIds
  <2> QED
    BY <1>4, <1>5, <1>6, <2>1
<1>9. /\ Extension(resolveCache', resolveCache, Addresses, ActorIds)
      /\ \A a \in Addresses : resolveCache'.map[a] # Vacant =>
            resolveCache'.map[a] = actor.address_map[a]
  <2>1. CASE resolveCache' = resolveCache
    BY <1>1, <1>2, <1>6, <1>7, <1>8, <2>1, ExtensionReflexive DEF TreeTypes
  <2>2. CASE resolveCache' = Insert(resolveCache, addr, init.next_id)
    <3>1. /\ Extension(resolveCache', resolveCache, Addresses, ActorIds)
          /\ resolveCache'.map = [resolveCache.map EXCEPT ![addr] = init.next_id]
      BY <1>1, <1>4, <2>2, InsertExtends DEF TreeTypes
    <3> QED
      BY <1>2, <1>5, <1>6, <1>7, <3>1
  <2> QED
    BY <1>4, <2>1, <2>2
<1>10. actor \in Actors
  BY <1>7 DEF Actors, ActorStates
<1>11. /\ Extension(actorCache', actorCache, ActorIds, Entries)
       /\ actorCache'.map = [actorCache.map EXCEPT ![InitActor] = [dirty |-> TRUE, actor |-> actor]]
  BY <1>1, <1>4, <1>10, LoadedStoredExtends, InitActorIsAnActor DEF TreeTypes
<1> QED
  BY <1>4, <1>7, <1>9, <1>10, <1>11, StoreStep, InitActorIsAnActor

-----------------------------------------------------------------------------
(* Transactions. *)

\* What a layer shows is what the cache would show after the revert.
LEMMA LayerViewShown ==
    ASSUME TreeInv, NEW n \in 1 .. Len(layers)
    PROVE  /\ LayerView(n) = [i \in ActorIds |-> Shown(EntriesAt(n), i)]
           /\ LayerView(n) \in [ActorIds -> Actors]
<1>1. actorCache \in HistoryMaps(ActorIds, Entries) /\ hamt \in [ActorIds -> Actors]
  BY DEF TreeInv, TreeTypes
<1>2. layers[n].actorHeight \in 0 .. Len(actorCache.history)
  BY DEF TreeInv, Heights
<1>3. Rollback(actorCache, layers[n].actorHeight).map = EntriesAt(n)
  BY <1>1, <1>2, RollbackKeepsPast DEF EntriesAt
<1>4. LayerView(n) = [i \in ActorIds |-> Shown(EntriesAt(n), i)]
  BY <1>3 DEF LayerView, ActorIn, Shown
<1>5. Len(actorCache.history) \in Nat
  BY <1>1, HistoryMapFields
<1>6. ASSUME NEW i \in ActorIds PROVE EntriesAt(n)[i] \in Entries \cup {Vacant}
  BY <1>1, <1>2, <1>5, ValueAtType DEF EntriesAt
<1>7. ASSUME NEW i \in ActorIds PROVE Shown(EntriesAt(n), i) \in Actors
  BY <1>1, <1>6 DEF Shown, Entries
<1> QED
  BY <1>4, <1>7

\* begin_transaction.
LEMMA BeginStep ==
    ASSUME TreeInv, BeginTransaction
    PROVE  /\ TreeInv'
           /\ UNCHANGED <<hamt, View>>
           /\ Len(layers') = Len(layers) + 1
           /\ EntriesAt(Len(layers))' = actorCache.map
           /\ \A n \in 1 .. Len(layers) : EntriesAt(n)' = EntriesAt(n)
<1> DEFINE top == [actorHeight   |-> Len(actorCache.history),
                   resolveHeight |-> Len(resolveCache.history)]
           N == Len(layers)
<1>1. TreeTypes /\ Heights /\ Sound(actorCache.map, resolveCache.map)
  BY DEF TreeInv
<1>2. Len(actorCache.history) \in Nat /\ Len(resolveCache.history) \in Nat
  BY <1>1, HistoryMapFields DEF TreeTypes
<1>3. layers' = Append(layers, top) /\ UNCHANGED <<hamt, actorCache, resolveCache>>
  BY DEF BeginTransaction, HistoryLen
<1>4. /\ top \in [actorHeight : Nat, resolveHeight : Nat]
      /\ top.actorHeight = Len(actorCache.history)
      /\ top.resolveHeight = Len(resolveCache.history)
  BY <1>2
<1> HIDE DEF top
<1>5. /\ N \in Nat /\ Len(layers') = N + 1 /\ layers'[N + 1] = top
      /\ \A n \in 1 .. N : layers'[n] = layers[n]
  BY <1>1, <1>3, <1>4 DEF TreeTypes
<1>6. TreeTypes'
  BY <1>1, <1>3, <1>4 DEF TreeTypes
<1>7. Heights'
  BY <1>1, <1>2, <1>3, <1>4, <1>5, SMTT(30) DEF Heights
<1>8. ASSUME NEW n \in 1 .. N
      PROVE  EntriesAt(n)' = EntriesAt(n) /\ IdsAt(n)' = IdsAt(n)
  BY <1>3, <1>5 DEF EntriesAt, IdsAt
<1>9. EntriesAt(Len(layers))' = actorCache.map /\ IdsAt(Len(layers))' = resolveCache.map
  <2>1. /\ actorCache.map \in [ActorIds -> Entries \cup {Vacant}]
        /\ resolveCache.map \in [Addresses -> ActorIds \cup {Vacant}]
    BY <1>1, CacheMaps
  <2>2. \A i \in ActorIds : ValueAt(actorCache, Len(actorCache.history), i) = actorCache.map[i]
    BY <1>1, ValueNow DEF TreeTypes
  <2>3. \A a \in Addresses :
           ValueAt(resolveCache, Len(resolveCache.history), a) = resolveCache.map[a]
    BY <1>1, ValueNow DEF TreeTypes
  <2>4. EntriesAt(Len(layers))' = actorCache.map
    BY <1>3, <1>4, <1>5, <2>1, <2>2 DEF EntriesAt
  <2>5. IdsAt(Len(layers))' = resolveCache.map
    BY <1>3, <1>4, <1>5, <2>1, <2>3 DEF IdsAt
  <2> QED
    BY <2>4, <2>5
<1>10. ASSUME NEW n \in 1 .. Len(layers') PROVE Sound(EntriesAt(n), IdsAt(n))'
  <2>1. CASE n \in 1 .. N
    BY <1>3, <1>8, <2>1 DEF TreeInv, Sound, Shown
  <2>2. CASE n = Len(layers')
    BY <1>1, <1>3, <1>9, <2>2 DEF Sound, Shown
  <2> QED
    BY <1>5, <2>1, <2>2
<1>11. Sound(actorCache.map, resolveCache.map)'
  BY <1>1, <1>3 DEF Sound, Shown
<1>12. UNCHANGED <<hamt, View>>
  BY <1>3 DEF View, ActorIn
<1> QED
  BY <1>5, <1>6, <1>7, <1>8, <1>9, <1>10, <1>11, <1>12 DEF TreeInv

LEMMA DiscardHistoryMap ==
    ASSUME NEW Keys, NEW Values, NEW h \in HistoryMaps(Keys, Values)
    PROVE  DiscardHistory(h) \in HistoryMaps(Keys, Values) /\ DiscardHistory(h).map = h.map
<1>1. h = [map |-> h.map, history |-> h.history] /\ h.map \in [Keys -> Values \cup {Vacant}]
  BY DEF HistoryMaps
<1>2. DiscardHistory(h) = [map |-> h.map, history |-> <<>>]
  BY <1>1 DEF DiscardHistory
<1>3. <<>> \in Seq(Changes(Keys, Values))
  OBVIOUS
<1> QED
  BY <1>1, <1>2, <1>3 DEF HistoryMaps

\* end_transaction, from caches that still hold all that the enclosing
\* transactions would be reverted to.
LEMMA EndedStep ==
    ASSUME TreeInv, layers # <<>>,
           NEW actors \in HistoryMaps(ActorIds, Entries),
           NEW ids \in HistoryMaps(Addresses, ActorIds),
           Ended(actors, ids),
           Len(actors.history) >= layers[Len(layers)].actorHeight,
           Len(ids.history) >= layers[Len(layers)].resolveHeight,
           \A height \in 0 .. layers[Len(layers)].actorHeight, i \in ActorIds :
              ValueAt(actors, height, i) = ValueAt(actorCache, height, i),
           \A height \in 0 .. layers[Len(layers)].resolveHeight, a \in Addresses :
              ValueAt(ids, height, a) = ValueAt(resolveCache, height, a),
           Sound(actors.map, ids.map)
    PROVE  /\ TreeInv'
           /\ UNCHANGED hamt
           /\ Len(layers') = Len(layers) - 1
           /\ actorCache'.map = actors.map
           /\ \A n \in 1 .. Len(layers') : EntriesAt(n)' = EntriesAt(n)
<1> DEFINE N == Len(layers)
<1>1. TreeTypes /\ Heights
  BY DEF TreeInv
<1>2. /\ Len(actorCache.history) \in Nat /\ Len(resolveCache.history) \in Nat
      /\ Len(actors.history) \in Nat /\ Len(ids.history) \in Nat
  <2>1. Len(actorCache.history) \in Nat
    BY <1>1, HistoryMapFields DEF TreeTypes
  <2>2. Len(resolveCache.history) \in Nat
    BY <1>1, HistoryMapFields DEF TreeTypes
  <2>3. Len(actors.history) \in Nat
    BY HistoryMapFields
  <2>4. Len(ids.history) \in Nat
    BY HistoryMapFields
  <2> QED
    BY <2>1, <2>2, <2>3, <2>4
<1>3. /\ N \in Nat \ {0} /\ Len(layers') = N - 1
      /\ layers' \in Seq([actorHeight : Nat, resolveHeight : Nat])
      /\ \A n \in 1 .. N - 1 : layers'[n] = layers[n]
  <2> DEFINE Layers == [actorHeight : Nat, resolveHeight : Nat]
  <2>1. layers \in Seq(Layers) /\ layers' = SubSeq(layers, 1, N - 1)
    BY <1>1 DEF Ended, TreeTypes
  <2> HIDE DEF Layers
  <2>2. N \in Nat \ {0}
    BY <2>1
  <2>3. layers' \in Seq(Layers) /\ Len(layers') = N - 1 /\ \A n \in 1 .. N - 1 : layers'[n] = layers[n]
    <3>1. \A n \in 1 .. N - 1 : layers[n] \in Layers
      BY <2>1, <2>2
    <3>2. N - 1 \in Nat
      BY <2>2
    <3>3. /\ SubSeq(layers, 1, N - 1) \in Seq(Layers)
          /\ Len(SubSeq(layers, 1, N - 1)) = IF 1 <= N - 1 THEN N - 1 - 1 + 1 ELSE 0
          /\ \A n \in 1 .. N - 1 - 1 + 1 : SubSeq(layers, 1, N - 1)[n] = layers[1 + n - 1]
      BY <3>1, <3>2, SubSeqProperties
    <3> HIDE DEF N
    <3>4. \A n \in 1 .. N - 1 : n \in 1 .. N - 1 - 1 + 1 /\ 1 + n - 1 = n
      BY <3>2
    <3> QED
      BY <2>1, <3>2, <3>3, <3>4
  <2> QED
    BY <2>2, <2>3 DEF Layers
<1>4. /\ actorCache' = IF layers' = <<>> THEN DiscardHistory(actors) ELSE actors
      /\ resolveCache' = IF layers' = <<>> THEN DiscardHistory(ids) ELSE ids
      /\ UNCHANGED hamt
  BY DEF Ended
<1>5. /\ actorCache' \in HistoryMaps(ActorIds, Entries) /\ actorCache'.map = actors.map
      /\ resolveCache' \in HistoryMaps(Addresses, ActorIds) /\ resolveCache'.map = ids.map
  <2>1. /\ DiscardHistory(actors) \in HistoryMaps(ActorIds, Entries)
        /\ DiscardHistory(actors).map = actors.map
    BY DiscardHistoryMap
  <2>2. /\ DiscardHistory(ids) \in HistoryMaps(Addresses, ActorIds)
        /\ DiscardHistory(ids).map = ids.map
    BY DiscardHistoryMap
  <2> QED
    BY <1>4, <2>1, <2>2
<1>6. TreeTypes'
  BY <1>1, <1>3, <1>4, <1>5 DEF TreeTypes
<1>7. ASSUME NEW n \in 1 .. Len(layers')
      PROVE  /\ actorCache' = actors /\ resolveCache' = ids
             /\ n \in 1 .. N /\ n <= N /\ N \in 1 .. N /\ layers'[n] = layers[n]
             /\ layers[n].actorHeight \in 0 .. layers[N].actorHeight
             /\ layers[n].resolveHeight \in 0 .. layers[N].resolveHeight
  <2>1. layers' # <<>>
    BY <1>3
  <2>2. n \in 1 .. N /\ n <= N /\ N \in 1 .. N /\ layers'[n] = layers[n]
    BY <1>3
  <2> QED
    BY <1>1, <1>2, <1>4, <2>1, <2>2 DEF Heights
<1>8. Heights'
  <2>1. ASSUME NEW n \in 1 .. Len(layers')
        PROVE  /\ layers'[n].actorHeight \in 0 .. Len(actorCache'.history)
               /\ layers'[n].resolveHeight \in 0 .. Len(resolveCache'.history)
    <3>1. /\ layers[N].actorHeight \in 0 .. Len(actorCache.history)
          /\ layers[N].resolveHeight \in 0 .. Len(resolveCache.history)
      BY <1>1, <1>7 DEF Heights
    <3>2. /\ Len(actors.history) >= layers[N].actorHeight
          /\ Len(ids.history) >= layers[N].resolveHeight
      OBVIOUS
    <3>3. /\ layers[n].actorHeight \in 0 .. layers[N].actorHeight
          /\ layers[n].resolveHeight \in 0 .. layers[N].resolveHeight
      BY <1>7
    <3> HIDE DEF N
    <3>4. /\ layers[n].actorHeight \in 0 .. Len(actors.history)
          /\ layers[n].resolveHeight \in 0 .. Len(ids.history)
      BY <1>2, <3>1, <3>2, <3>3, SMTT(30)
    <3>5. actorCache' = actors /\ resolveCache' = ids /\ layers'[n] = layers[n]
      BY <1>7
    <3> QED
      BY <3>4, <3>5
  <2>2. ASSUME NEW m \in 1 .. Len(layers'), NEW n \in 1 .. Len(layers'), m <= n
        PROVE  /\ layers'[m].actorHeight <= layers'[n].actorHeight
               /\ layers'[m].resolveHeight <= layers'[n].resolveHeight
    BY <1>1, <1>7, <2>2, SMTT(30) DEF Heights
  <2> QED
    BY <2>1, <2>2 DEF Heights
<1>9. ASSUME NEW n \in 1 .. Len(layers')
      PROVE  EntriesAt(n)' = EntriesAt(n) /\ IdsAt(n)' = IdsAt(n)
  BY <1>7 DEF EntriesAt, IdsAt
<1>10. ASSUME NEW n \in 1 .. Len(layers') PROVE Sound(EntriesAt(n), IdsAt(n))'
  <2>1. n \in 1 .. Len(layers)
    BY <1>7
  <2>2. Sound(EntriesAt(n), IdsAt(n))
    BY <2>1 DEF TreeInv
  <2>3. EntriesAt(n)' = EntriesAt(n) /\ IdsAt(n)' = IdsAt(n)
    BY <1>9
  <2>4. hamt' = hamt
    BY <1>4
  <2> QED
    BY <2>2, <2>3, <2>4 DEF Sound, Shown
<1>11. Sound(actorCache.map, resolveCache.map)'
  BY <1>4, <1>5 DEF Sound, Shown
<1> QED
  BY <1>3, <1>4, <1>5, <1>6, <1>8, <1>9, <1>10, <1>11 DEF TreeInv

\* end_transaction(false).
LEMMA CommitStep ==
    ASSUME TreeInv, CommitTransaction
    PROVE  /\ TreeInv'
           /\ layers # <<>>
           /\ UNCHANGED hamt
           /\ Len(layers') = Len(layers) - 1
           /\ actorCache'.map = actorCache.map
           /\ \A n \in 1 .. Len(layers') : EntriesAt(n)' = EntriesAt(n)
<1>1. layers # <<>> /\ Ended(actorCache, resolveCache)
  BY DEF CommitTransaction
<1>2. /\ actorCache \in HistoryMaps(ActorIds, Entries)
      /\ resolveCache \in HistoryMaps(Addresses, ActorIds)
      /\ Sound(actorCache.map, resolveCache.map)
      /\ Len(layers) \in 1 .. Len(layers)
  BY <1>1 DEF TreeInv, TreeTypes
<1>3. Len(actorCache.history) \in Nat /\ Len(resolveCache.history) \in Nat
  BY <1>2, HistoryMapFields
<1>4. /\ Len(actorCache.history) >= layers[Len(layers)].actorHeight
      /\ Len(resolveCache.history) >= layers[Len(layers)].resolveHeight
  BY <1>2, <1>3 DEF TreeInv, Heights
<1> QED
  BY <1>1, <1>2, <1>4, EndedStep

\* end_transaction(true).
LEMMA RevertStep ==
    ASSUME TreeInv, RevertTransaction
    PROVE  /\ TreeInv'
           /\ layers # <<>>
           /\ UNCHANGED hamt
           /\ Len(layers') = Len(layers) - 1
           /\ actorCache'.map = EntriesAt(Len(layers))
           /\ \A n \in 1 .. Len(layers') : EntriesAt(n)' = EntriesAt(n)
<1> DEFINE N == Len(layers)
           actors == Rollback(actorCache, layers[N].actorHeight)
           ids == Rollback(resolveCache, layers[N].resolveHeight)
<1>1. layers # <<>> /\ Ended(actors, ids)
  BY DEF RevertTransaction
<1>2. /\ actorCache \in HistoryMaps(ActorIds, Entries)
      /\ resolveCache \in HistoryMaps(Addresses, ActorIds)
      /\ N \in 1 .. N
      /\ Sound(EntriesAt(N), IdsAt(N))
  BY <1>1 DEF TreeInv, TreeTypes
<1>3. /\ layers[N].actorHeight \in 0 .. Len(actorCache.history)
      /\ layers[N].resolveHeight \in 0 .. Len(resolveCache.history)
  BY <1>2 DEF TreeInv, Heights
<1>4. /\ actors \in HistoryMaps(ActorIds, Entries)
      /\ actors.map = EntriesAt(N)
      /\ Len(actors.history) = layers[N].actorHeight
      /\ \A height \in 0 .. layers[N].actorHeight, i \in ActorIds :
            ValueAt(actors, height, i) = ValueAt(actorCache, height, i)
  BY <1>2, <1>3, RollbackKeepsPast DEF EntriesAt
<1>5. /\ ids \in HistoryMaps(Addresses, ActorIds)
      /\ ids.map = IdsAt(N)
      /\ Len(ids.history) = layers[N].resolveHeight
      /\ \A height \in 0 .. layers[N].resolveHeight, a \in Addresses :
            ValueAt(ids, height, a) = ValueAt(resolveCache, height, a)
  BY <1>2, <1>3, RollbackKeepsPast, SMTT(30) DEF IdsAt
<1> HIDE DEF actors, ids
<1>6. /\ Len(actors.history) >= layers[N].actorHeight
      /\ Len(ids.history) >= layers[N].resolveHeight
  <2>1. Len(actors.history) \in Nat
    BY <1>4, HistoryMapFields
  <2>2. Len(ids.history) \in Nat
    BY <1>5, HistoryMapFields
  <2> QED
    BY <1>4, <1>5, <2>1, <2>2
<1> QED
  BY <1>1, <1>2, <1>4, <1>5, <1>6, EndedStep

\* flush.
LEMMA FlushStep ==
    ASSUME TreeInv, Flush
    PROVE  /\ TreeInv'
           /\ layers = <<>> /\ layers' = <<>>
           /\ UNCHANGED View
           /\ hamt' = View
<1> DEFINE entries == [i \in ActorIds |-> IF IsDirty(i)
                                          THEN [actorCache.map[i] EXCEPT !.dirty = FALSE]
                                          ELSE actorCache.map[i]]
<1>1. TreeTypes /\ Sound(actorCache.map, resolveCache.map)
  BY DEF TreeInv
<1>2. /\ layers = <<>> /\ UNCHANGED <<resolveCache, layers>>
      /\ actorCache' = [actorCache EXCEPT !.map = entries]
      /\ hamt' = [i \in ActorIds |-> IF IsDirty(i) THEN actorCache.map[i].actor ELSE hamt[i]]
  BY DEF Flush, WriteBack
<1>3. actorCache.map \in [ActorIds -> Entries \cup {Vacant}]
  BY <1>1, CacheMaps
<1>4. ASSUME NEW i \in ActorIds, actorCache.map[i] # Vacant
      PROVE  /\ actorCache.map[i] \in Entries /\ actorCache.map[i].dirty \in BOOLEAN
             /\ entries[i] \in Entries
             /\ entries[i].actor = actorCache.map[i].actor
             /\ ~ entries[i].dirty
  <2>1. actorCache.map[i] \in Entries
    BY <1>3, <1>4
  <2>2. CASE IsDirty(i)
    BY <2>1, <2>2 DEF Entries
  <2>3. CASE ~ IsDirty(i)
    BY <1>4, <2>1, <2>3 DEF Entries, IsDirty
  <2> QED
    BY <2>1, <2>2, <2>3 DEF Entries
<1>5. ASSUME NEW i \in ActorIds, actorCache.map[i] = Vacant
      PROVE  entries[i] = Vacant /\ ~ IsDirty(i)
  BY <1>5 DEF IsDirty
<1>6. ASSUME NEW i \in ActorIds
      PROVE  hamt'[i] = Shown(actorCache.map, i)
  <2>1. CASE IsDirty(i)
    BY <1>2, <2>1 DEF Shown, IsDirty
  <2>2. CASE ~ IsDirty(i)
    BY <1>1, <1>2, <2>2 DEF Shown, IsDirty, Sound
  <2> QED
    BY <2>1, <2>2
<1>7. entries \in [ActorIds -> Entries \cup {Vacant}]
  <2>1. \A i \in ActorIds : entries[i] \in Entries \cup {Vacant}
    BY <1>4, <1>5
  <2> QED
    BY <2>1
<1> HIDE DEF entries
<1>8. actorCache' \in HistoryMaps(ActorIds, Entries) /\ actorCache'.map = entries
  BY <1>1, <1>2, <1>7 DEF TreeTypes, HistoryMaps
<1>9. /\ View \in [ActorIds -> Actors]
      /\ \A i \in ActorIds : View[i] = Shown(actorCache.map, i)
  BY <1>1, ViewType
<1>10. hamt' = View
  BY <1>2, <1>6, <1>9
<1>11. TreeTypes'
  BY <1>1, <1>2, <1>8, <1>9, <1>10, InitActorIsAnActor DEF TreeTypes, Sound
<1>12. ASSUME NEW i \in ActorIds
       PROVE  Shown(actorCache.map, i)' = Shown(actorCache.map, i)
  <2>1. CASE actorCache.map[i] = Vacant
    BY <1>5, <1>6, <1>8, <2>1 DEF Shown
  <2>2. CASE actorCache.map[i] # Vacant
    BY <1>4, <1>8, <2>2, VacantAssumption DEF Shown
  <2> QED
    BY <2>1, <2>2
<1>13. View' = View
  BY <1>12 DEF View, ActorIn, Shown
<1>14. Sound(actorCache.map, resolveCache.map)'
  <2>1. Shown(actorCache.map, InitActor)' \in InitStates
    BY <1>1, <1>12, InitActorIsAnActor DEF Sound
  <2>2. ASSUME NEW i \in ActorIds, actorCache'.map[i] # Vacant
        PROVE  actorCache'.map[i].actor = hamt'[i]
    BY <1>4, <1>5, <1>6, <1>8, <2>2 DEF Shown
  <2>3. ASSUME NEW a \in Addresses, resolveCache'.map[a] # Vacant
        PROVE  resolveCache'.map[a] = Shown(actorCache.map, InitActor)'.address_map[a]
    BY <1>1, <1>2, <1>12, <2>3, InitActorIsAnActor DEF Sound
  <2> QED
    BY <2>1, <2>2, <2>3 DEF Sound
<1>15. Heights' /\ layers' = <<>>
  BY <1>2 DEF Heights
<1> QED
  BY <1>2, <1>10, <1>11, <1>13, <1>14, <1>15 DEF TreeInv

-----------------------------------------------------------------------------
(* The theorems. *)

LEMMA OperateStep ==
    ASSUME TreeInv, Operate
    PROVE  ActorStep
<1>1. NoActor \in Actors /\ States \subseteq Actors
  BY DEF Actors, ActorStates
<1>2. ASSUME NEW i \in ActorIds, GetActor(i) PROVE ActorStep
  BY <1>2, GetActorStep
<1>3. ASSUME NEW i \in ActorIds, DeleteActor(i) PROVE ActorStep
  BY <1>1, <1>3, StoredStep DEF DeleteActor
<1>4. ASSUME NEW i \in ActorIds, NEW s \in States, SetActor(i, s) PROVE ActorStep
  BY <1>1, <1>4, StoredStep DEF SetActor
<1>5. ASSUME NEW i \in ActorIds, NEW s \in States, MutateActor(i, s) PROVE ActorStep
  BY <1>1, <1>5, StoredStep DEF MutateActor
<1>6. ASSUME NEW a \in Addresses, LookupId(a) PROVE ActorStep
  BY <1>6, LookupIdStep
<1>7. ASSUME NEW a \in Addresses, RegisterNewAddress(a) \/ InitActorExec(a) PROVE ActorStep
  BY <1>7, RegisterStep
<1> QED
  BY <1>2, <1>3, <1>4, <1>5, <1>6, <1>7 DEF Operate

LEMMA TreeInvNext == TreeInv /\ [Next]_vars => TreeInv'
<1> SUFFICES ASSUME TreeInv, [Next]_vars PROVE TreeInv'
  OBVIOUS
<1>1. CASE HistoryBound /\ Operate
  BY <1>1, OperateStep DEF ActorStep
<1>2. CASE BeginTransaction
  BY <1>2, BeginStep
<1>3. CASE RevertTransaction
  BY <1>3, RevertStep
<1>4. CASE CommitTransaction
  BY <1>4, CommitStep
<1>5. CASE Flush
  BY <1>5, FlushStep
<1>6. CASE UNCHANGED vars
  <2>1. TreeTypes' /\ Heights' /\ Sound(actorCache.map, resolveCache.map)'
    BY <1>6 DEF vars, TreeInv, TreeTypes, Heights, Sound, Shown
  <2>2. ASSUME NEW n \in 1 .. Len(layers) PROVE Sound(EntriesAt(n), IdsAt(n))'
    <3>1. EntriesAt(n)' = EntriesAt(n) /\ IdsAt(n)' = IdsAt(n)
      BY <1>6 DEF vars, EntriesAt, IdsAt
    <3> QED
      BY <1>6, <3>1 DEF vars, TreeInv, Sound, Shown
  <2> QED
    BY <1>6, <2>1, <2>2 DEF vars, TreeInv
<1> QED
  BY <1>1, <1>2, <1>3, <1>4, <1>5, <1>6 DEF Next

LEMMA TreeInvHolds == Spec => []TreeInv
BY TreeInvInit, TreeInvNext, PTL DEF Spec

\* The fields of the state tree keep their types, and the init actor is always
\* there to be read (InitActorState::load).
THEOREM TypeCorrect == Spec => []TypeOK
<1>1. TreeInv => TypeOK
  BY ViewType, InitActorIsAnActor, SMTT(30) DEF TreeInv, TreeTypes, Sound, TypeOK
<1> QED
  BY <1>1, TreeInvHolds, PTL

\* Reverting a layer, by the loop of HistoryMap::rollback, restores at each key
\* what its oldest undone change replaced, for both caches.
THEOREM RollbackUndoesInOrder == Spec => []RollbackIsLoop
<1>1. TypeOK => RollbackIsLoop
  <2> SUFFICES ASSUME TypeOK, NEW n \in 1 .. Len(layers)
               PROVE  /\ Rollback(actorCache, layers[n].actorHeight)
                           = RollbackLoop(actorCache, layers[n].actorHeight)
                      /\ Rollback(resolveCache, layers[n].resolveHeight)
                           = RollbackLoop(resolveCache, layers[n].resolveHeight)
    BY DEF RollbackIsLoop
  <2>0. layers \in Seq([actorHeight : Nat, resolveHeight : Nat])
    BY DEF TypeOK
  <2>1. layers[n].actorHeight \in Nat /\ layers[n].resolveHeight \in Nat
    <3>1. layers[n] \in [actorHeight : Nat, resolveHeight : Nat]
      BY <2>0, ElementOfSeq
    <3> QED
      BY <3>1
  <2>2. /\ actorCache \in HistoryMaps(ActorIds, Entries)
        /\ resolveCache \in HistoryMaps(Addresses, ActorIds)
    BY DEF TypeOK
  <2>3. Rollback(actorCache, layers[n].actorHeight)
          = RollbackLoop(actorCache, layers[n].actorHeight)
    BY <2>1, <2>2, RollbackLoops
  <2>4. Rollback(resolveCache, layers[n].resolveHeight)
          = RollbackLoop(resolveCache, layers[n].resolveHeight)
    BY <2>1, <2>2, RollbackLoops
  <2> QED
    BY <2>3, <2>4
<1> QED
  BY <1>1, TypeCorrect, PTL

\* The resolve cache never disagrees with the init actor's address map
\* (lookup_id, register_new_address, end_transaction).
THEOREM ResolutionsCoherent == Spec => []ResolveCoherent
<1>1. TreeInv => ResolveCoherent
  BY DEF TreeInv, Sound, ResolveCoherent, Coherent, ResolvedIn, ActorIn, Shown
<1> QED
  BY <1>1, TreeInvHolds, PTL

\* An entry of the actor cache that flush skips is what the HAMT holds.
THEOREM CleanEntriesPersisted == Spec => []CleanIsPersisted
<1>1. TreeInv => CleanIsPersisted
  BY DEF TreeInv, Sound, CleanIsPersisted
<1> QED
  BY <1>1, TreeInvHolds, PTL

-----------------------------------------------------------------------------
(* The refinement. *)

\* The maps the open transactions would be reverted to.
Saved == [n \in 1 .. Len(layers) |-> LayerView(n)]
Maps == [ActorIds -> Actors]

SavedShown ==
    /\ Saved \in Seq(Maps)
    /\ Len(Saved) = Len(layers)
    /\ Len(layers) \in Nat
    /\ \A n \in 1 .. Len(layers) : Saved[n] = [i \in ActorIds |-> Shown(EntriesAt(n), i)]

LEMMA SavedMaps == TreeInv => SavedShown
<1> SUFFICES ASSUME TreeInv PROVE SavedShown
  OBVIOUS
<1>1. Len(layers) \in Nat
  BY DEF TreeInv, TreeTypes
<1>2. \A n \in 1 .. Len(layers) : LayerView(n) \in Maps
  BY LayerViewShown DEF Maps
<1>3. Saved \in Seq(Maps) /\ Len(Saved) = Len(layers)
  BY <1>1, <1>2, IsASeq DEF Saved
<1> QED
  BY <1>1, <1>3, LayerViewShown DEF Saved, SavedShown

\* The saved maps after a step that keeps the first n of them.
LEMMA SavedKept ==
    ASSUME SavedShown, SavedShown', UNCHANGED hamt, NEW n \in 1 .. Len(layers),
           n \in 1 .. Len(layers'), EntriesAt(n)' = EntriesAt(n)
    PROVE  Saved'[n] = Saved[n]
<1>1. Saved[n] = [i \in ActorIds |-> Shown(EntriesAt(n), i)]
  BY DEF SavedShown
<1>2. Saved'[n] = [i \in ActorIds |-> Shown(EntriesAt(n), i)]'
  BY DEF SavedShown
<1>3. \A i \in ActorIds : Shown(EntriesAt(n), i)' = Shown(EntriesAt(n), i)
  BY DEF Shown
<1> QED
  BY <1>1, <1>2, <1>3

LEMMA StoreInitImplemented == Init => Store!StoreInit
<1> SUFFICES ASSUME Init PROVE Store!StoreInit
  OBVIOUS
<1>1. TreeInv
  BY TreeInvInit
<1>2. actorCache.map = [i \in ActorIds |-> Vacant] /\ layers = <<>>
  BY DEF Init, EmptyHistoryMap
<1>3. hamt \in [ActorIds -> Actors]
  BY <1>1 DEF TreeInv, TreeTypes
<1>4. View = hamt
  BY <1>2, <1>3 DEF View, ActorIn
<1>5. [n \in 1 .. Len(layers) |-> LayerView(n)] = <<>>
  <2>1. Len(Saved) = 0 /\ Saved \in Seq(Maps)
    BY <1>1, <1>2, SavedMaps DEF SavedShown
  <2> QED
    BY <2>1 DEF Saved
<1> QED
  BY <1>3, <1>4, <1>5 DEF Store!StoreInit

LEMMA StoreStepImplemented ==
    ASSUME TreeInv, TreeInv', SavedShown, SavedShown', Next
    PROVE  Store!StoreNext
<1> DEFINE N == Len(layers)
<1>1. CASE HistoryBound /\ Operate
  <2>1. ActorStep
    BY <1>1, OperateStep
  <2>2. PICK i \in ActorIds, actor \in Actors : View' = [View EXCEPT ![i] = actor]
    BY <2>1 DEF ActorStep
  <2>3. View \in [ActorIds -> Actors]
    BY ViewType DEF TreeInv
  <2>4. View'[i] \in Actors /\ View' = [View EXCEPT ![i] = View'[i]]
    BY <2>2, <2>3
  <2>5. UNCHANGED <<hamt, layers>> /\ \A n \in 1 .. N : EntriesAt(n)' = EntriesAt(n)
    BY <2>1 DEF ActorStep
  <2>6. \A n \in 1 .. N : Saved'[n] = Saved[n]
    BY <2>5, SavedKept
  <2>7. Saved' = Saved
    BY <2>5, <2>6, SeqEqual DEF SavedShown
  <2>8. Store!Write(i)
    BY <2>4, <2>5, <2>7 DEF Store!Write, Saved
  <2> QED
    BY <2>8 DEF Store!StoreNext
<1>2. CASE BeginTransaction
  <2>1. /\ UNCHANGED <<hamt, View>>
        /\ Len(layers') = N + 1
        /\ EntriesAt(Len(layers))' = actorCache.map
        /\ \A n \in 1 .. N : EntriesAt(n)' = EntriesAt(n)
    BY <1>2, BeginStep
  <2>2. /\ View \in Maps /\ \A i \in ActorIds : View[i] = Shown(actorCache.map, i)
    BY ViewType DEF TreeInv, Maps
  <2>3. \A n \in 1 .. N : Saved'[n] = Saved[n]
    BY <2>1, SavedKept DEF SavedShown
  <2>4. Saved'[N + 1] = View
    BY <2>1, <2>2, SMTT(30) DEF SavedShown, Shown, Maps
  <2>5. Saved' = Append(Saved, View)
    <3>1. /\ Append(Saved, View) \in Seq(Maps) /\ Len(Append(Saved, View)) = N + 1
          /\ \A n \in 1 .. N : Append(Saved, View)[n] = Saved[n]
          /\ Append(Saved, View)[N + 1] = View
      BY <2>2, AppendProperties DEF SavedShown
    <3>2. Saved' \in Seq(Maps) /\ Len(Saved') = N + 1 /\ N \in Nat
      BY <2>1 DEF SavedShown
    <3>3. \A n \in 1 .. N + 1 : Saved'[n] = Append(Saved, View)[n]
      BY <2>3, <2>4, <3>1, <3>2
    <3> QED
      BY <3>1, <3>2, <3>3, SeqEqual
  <2>6. Store!Begin
    BY <2>1, <2>5 DEF Store!Begin, Saved
  <2> QED
    BY <2>6 DEF Store!StoreNext
<1>3. ASSUME layers # <<>>, UNCHANGED hamt, Len(layers') = N - 1,
             \A n \in 1 .. Len(layers') : EntriesAt(n)' = EntriesAt(n)
      PROVE  /\ Saved # <<>> /\ Len(Saved) = N /\ N \in 1 .. N
             /\ Saved' = SubSeq(Saved, 1, Len(Saved) - 1)
  <2>1. N \in Nat \ {0} /\ Len(Saved) = N /\ Saved \in Seq(Maps)
    BY <1>3 DEF SavedShown, TreeInv, TreeTypes
  <2>2. \A n \in 1 .. N - 1 : n \in 1 .. Len(layers') /\ n \in 1 .. N
    BY <1>3, <2>1
  <2>3. \A n \in 1 .. N - 1 : Saved'[n] = Saved[n]
    BY <1>3, <2>2, SavedKept
  <2>4. Saved' \in Seq(Maps) /\ Len(Saved') = N - 1
    BY <1>3 DEF SavedShown
  <2>5. \A n \in 1 .. N - 1 : Saved[n] \in Maps
    BY <2>1
  <2>6. /\ SubSeq(Saved, 1, N - 1) \in Seq(Maps)
        /\ Len(SubSeq(Saved, 1, N - 1)) = IF 1 <= N - 1 THEN N - 1 - 1 + 1 ELSE 0
        /\ \A n \in 1 .. N - 1 - 1 + 1 : SubSeq(Saved, 1, N - 1)[n] = Saved[1 + n - 1]
    <3>1. N - 1 \in Int
      BY <2>1
    <3> QED
      BY <2>5, <3>1, SubSeqProperties
  <2>7. Saved # <<>>
    BY <2>1
  <2> HIDE DEF N
  <2>8. \A n \in 1 .. N - 1 : n \in 1 .. N - 1 - 1 + 1 /\ 1 + n - 1 = n
    BY <2>1
  <2>9. \A n \in 1 .. N - 1 : Saved'[n] = SubSeq(Saved, 1, N - 1)[n]
    BY <2>3, <2>6, <2>8
  <2>10. Len(SubSeq(Saved, 1, N - 1)) = N - 1
    BY <2>1, <2>6
  <2>11. Saved' = SubSeq(Saved, 1, N - 1)
    BY <2>4, <2>6, <2>9, <2>10, SeqEqual
  <2> QED
    BY <2>1, <2>7, <2>11
<1>4. CASE RevertTransaction
  <2>1. /\ layers # <<>> /\ UNCHANGED hamt /\ Len(layers') = N - 1
        /\ actorCache'.map = EntriesAt(N)
        /\ \A n \in 1 .. Len(layers') : EntriesAt(n)' = EntriesAt(n)
    BY <1>4, RevertStep
  <2>2. /\ Saved # <<>> /\ Len(Saved) = N /\ N \in 1 .. N
        /\ Saved' = SubSeq(Saved, 1, Len(Saved) - 1)
    BY <1>3, <2>1
  <2>3. View' = Saved[N]
    BY <2>1, <2>2 DEF View, ActorIn, SavedShown, Shown
  <2>4. Store!Revert
    BY <2>1, <2>2, <2>3 DEF Store!Revert, Store!Pop, Saved
  <2> QED
    BY <2>4 DEF Store!StoreNext
<1>5. CASE CommitTransaction
  <2>1. /\ layers # <<>> /\ UNCHANGED hamt /\ Len(layers') = N - 1
        /\ actorCache'.map = actorCache.map
        /\ \A n \in 1 .. Len(layers') : EntriesAt(n)' = EntriesAt(n)
    BY <1>5, CommitStep
  <2>2. /\ Saved # <<>> /\ Saved' = SubSeq(Saved, 1, Len(Saved) - 1)
    BY <1>3, <2>1
  <2>3. View' = View
    BY <2>1 DEF View, ActorIn
  <2>4. Store!Commit
    BY <2>1, <2>2, <2>3 DEF Store!Commit, Store!Pop, Saved
  <2> QED
    BY <2>4 DEF Store!StoreNext
<1>6. CASE Flush
  <2>1. layers = <<>> /\ layers' = <<>> /\ View' = View /\ hamt' = View
    BY <1>6, FlushStep
  <2>2. Saved = <<>> /\ Saved' = <<>>
    BY <2>1 DEF SavedShown
  <2>3. Store!Persist
    BY <2>1, <2>2 DEF Store!Persist, Saved
  <2> QED
    BY <2>3 DEF Store!StoreNext
<1> QED
  BY <1>1, <1>2, <1>4, <1>5, <1>6 DEF Next

\* The state tree implements nested transactions over a persistent map: whatever
\* happened inside of a transaction and the ones nested in it, end_transaction(true)
\* brings back the map begin_transaction saw, and flush persists what was read.
THEOREM StateTreeImplementsStore == Spec => ImplementsStore
<1>1. Init => Store!StoreInit
  BY StoreInitImplemented
<1>2. TreeInv /\ TreeInv' /\ SavedShown /\ SavedShown' /\ [Next]_vars
        => [Store!StoreNext]_(Store!storeVars)
  <2> SUFFICES ASSUME TreeInv, TreeInv', SavedShown, SavedShown', [Next]_vars
               PROVE  [Store!StoreNext]_(Store!storeVars)
    OBVIOUS
  <2>1. CASE Next
    BY <2>1, StoreStepImplemented
  <2>2. CASE UNCHANGED vars
    BY <2>2 DEF vars, Store!storeVars, View, ActorIn, LayerView
  <2> QED
    BY <2>1, <2>2
<1> QED
  BY <1>1, <1>2, TreeInvHolds, SavedMaps, PTL DEF Spec, ImplementsStore, Store!StoreSpec
=============================================================================
