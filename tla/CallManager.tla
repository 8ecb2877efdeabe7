----------------------------- MODULE CallManager -----------------------------
(***************************************************************************)
(* One message's actor calls: the call manager (call_manager/default.rs),  *)
(* its event accumulator and its state access tracker                      *)
(* (state_access_tracker.rs), and the syscalls of the kernel               *)
(* (kernel/default.rs) that change the state of the VM.                    *)
(*                                                                         *)
(* Actors are arbitrary code: a running frame may make any syscall, in any *)
(* order, and may end in any way.  Everything between two stretches of     *)
(* actor code runs on one thread and is one step.                          *)
(*                                                                         *)
(* The state tree is what TransactionalStore promises, and StateTree is    *)
(* shown to keep: a map with a stack of snapshots.  Gas is abstracted to   *)
(* the number of charges a step pays: the next charge, if there is one, is *)
(* refused.  Charges whose price is zero are left out.                     *)
(***************************************************************************)
EXTENDS HistoryMap, Functions

CONSTANTS
    InitActor,       \* INIT_ACTOR_ID
    BurntFunds,      \* BURNT_FUNDS_ACTOR_ID
    Users,           \* ids of the other actors the message begins with
    Origin,          \* the message's sender
    MaxId,           \* bound: the largest id the init actor hands out
    KeyAddresses,    \* BLS and Secp256k1 addresses
    EthAddresses,    \* delegated addresses in the EAM's namespace
    OtherAddresses,  \* addresses no actor is created for by a send
    Codes,           \* code CIDs other than the account's and the placeholder's
    Roots,           \* state roots actors set
    EmptyRoot,       \* EMPTY_ARR_CID
    Values,          \* what a call may transfer
    Total,           \* the tokens in existence
    Starts,          \* the state trees a message may begin with
    MaxCallDepth,    \* max_call_depth
    MaxMemory,       \* max_memory_bytes
    Growths,         \* by how much an instance's memory may grow
    MaxEvents,       \* bound: events emitted
    MaxCharges,      \* bound: the charges a step pays
    Recipients,      \* bound: whom actors call
    CallFlags,       \* bound: the flags they call with
    None             \* Option::None

\* Of SequencesExt, these two alone.
Front(s) == SubSeq(s, 1, Len(s) - 1)
Last(s) == s[Len(s)]

Ok == "ok"
Errors == {"OutOfGas", "Fatal", "NotFound", "InsufficientFunds", "ReadOnly",
           "LimitExceeded", "IllegalOperation", "Forbidden"}

Account == "account"
Placeholder == "placeholder"
Singletons == {InitActor, BurntFunds}
Preloaded == Singletons
Ids == 1 .. MaxId
Addresses == KeyAddresses \cup EthAddresses \cup OtherAddresses

Actors == [code      : Codes \cup {Account, Placeholder},
           root      : Roots \cup {EmptyRoot},
           balance   : 0 .. Total,
           delegated : Addresses \cup {None}]

\* The actors of a state tree, and its init actor's address map and next_id.
Trees == [actors    : [Ids -> Actors \cup {None}],
          addresses : [Addresses -> Ids \cup {None}],
          next_id   : Nat]

ASSUME CallAssumption ==
    /\ MaxId \in Nat
    /\ Singletons \cup Users \subseteq Ids
    /\ Origin \in Users
    /\ Values \subseteq Nat
    /\ Total \in Nat
    /\ Starts \subseteq Trees
    /\ MaxCallDepth \in Nat \ {0}
    /\ MaxMemory \in Nat
    /\ Growths \subseteq Nat
    /\ MaxEvents \in Nat
    /\ MaxCharges \in Nat
    /\ Recipients \subseteq Ids \cup Addresses
    /\ CallFlags \subseteq [send : BOOLEAN, readOnly : BOOLEAN, limited : BOOLEAN]
    /\ Addresses \cap Ids = {}
    /\ None \notin Actors \cup Addresses \cup Ids
    /\ None \notin {Ok, "Failed"} \cup Errors
    /\ Vacant \notin {"Read", "Updated"} /\ Vacant # TRUE

\* The balances of the actors, added up.
Balance(actor) == IF actor = None THEN 0 ELSE actor.balance
Tokens(actors) == SumFunction([i \in Ids |-> Balance(actors[i])])

\* A message begins with a tree in which all the tokens are, and in which no actor
\* and no address has an id that the init actor is still to assign.
ASSUME StartAssumption ==
    \A t \in Starts :
        /\ Tokens(t.actors) = Total
        /\ \A i \in Ids : i >= t.next_id => t.actors[i] = None
        /\ \A a \in Addresses : t.addresses[a] # None => t.addresses[a] < t.next_id

VARIABLES
    start,       \* history: the state tree when the message began
    tree,        \* the state tree
    events,      \* EventsAccumulator.events: who emitted each event
    access,      \* StateAccessTracker.actors
    lookups,     \* StateAccessTracker.addresses
    layers,      \* the open transactions of the tree, the events and the tracker
    frames,      \* the kernels of the calls in progress, innermost last
    callStack,   \* actor_call_stack
    depth,       \* call_stack_depth
    memory,      \* curr_memory_bytes
    abort,       \* the abort that is ending the innermost actor, if any
    result       \* what the call that just ended returned, if one did

vars == <<start, tree, events, access, lookups, layers, frames, callStack,
          depth, memory, abort, result>>

-----------------------------------------------------------------------------
(* The operations on the tree and on the access tracker pass a record from  *)
(* one to the next: once one has failed, the others do nothing.             *)

Outcome(fuel) ==
    [tree |-> tree, access |-> access, lookups |-> lookups, fuel |-> fuel, err |-> Ok]

Exists(m, id) == m.tree.actors[id] # None

Require(m, condition, err) ==
    IF m.err = Ok /\ ~ condition THEN [m EXCEPT !.err = err] ELSE m

\* charge_gas and apply_charge.
Charge(m) ==
    IF m.err # Ok THEN m
    ELSE IF m.fuel = 0 THEN [m EXCEPT !.err = "OutOfGas"]
    ELSE [m EXCEPT !.fuel = @ - 1]

\* resolve_address, and record_lookup_address when it resolves.
ResolveAddress(m, addr) ==
    IF m.err # Ok \/ m.tree.addresses[addr] = None THEN m
    ELSE [m EXCEPT !.lookups = Insert(@, addr, TRUE)]

\* record_actor_read that forgets that the actor was updated.
RecordReadAlways(h, id) == Insert(h, id, "Read")

\* record_actor_read and record_actor_update.
RecordRead(h, id) == GetOrInsert(h, id, "Read")
RecordUpdate(h, id) == Insert(h, id, "Updated")

\* get_actor.
GetActor(m, id) ==
    LET looked == IF m.access.map[id] = Vacant THEN Charge(m) ELSE m
    IN  IF looked.err # Ok THEN looked
        ELSE [looked EXCEPT !.access = RecordRead(@, id)]

\* set_actor and, of None, delete_actor.
SetActor(m, id, actor) ==
    LET looked  == IF m.access.map[id] = Vacant THEN Charge(m) ELSE m
        charged == IF m.access.map[id] # "Updated" THEN Charge(looked) ELSE looked
    IN  IF charged.err # Ok THEN charged
        ELSE [tree    |-> [charged.tree EXCEPT !.actors = [@ EXCEPT ![id] = actor]],
              access  |-> RecordUpdate(charged.access, id),
              lookups |-> charged.lookups,
              fuel    |-> charged.fuel,
              err     |-> Ok]

\* get_actor of an actor that has to exist.
Existing(m, id, err) == Require(GetActor(m, id), Exists(m, id), err)

\* The two set_actor of a transfer, of actor states read before them.
Move(m, from, to, value) ==
    LET payer == m.tree.actors[from]
        payee == m.tree.actors[to]
    IN  SetActor(SetActor(m, from, [payer EXCEPT !.balance = @ - value]),
                 to, [payee EXCEPT !.balance = @ + value])

\* The checks of a transfer: its payer exists and has the funds.
Funded(m, from, value) ==
    LET looked == Existing(m, from, "InsufficientFunds")
    IN  IF looked.err # Ok THEN looked
        ELSE Require(looked, m.tree.actors[from].balance >= value, "InsufficientFunds")

\* transfer.
Transfer(m, from, to, value) ==
    LET funded == Funded(m, from, value)
        ready  == Existing(funded, to, "NotFound")
    IN  IF from = to THEN funded
        ELSE IF ready.err # Ok THEN ready
        ELSE Move(ready, from, to, value)

NewActor(code, delegated) ==
    [code |-> code, root |-> EmptyRoot, balance |-> 0, delegated |-> delegated]

\* The init actor's state when it has assigned its next id to an address.
AssignAddress(t, addr) ==
    [actors    |-> t.actors,
     addresses |-> [t.addresses EXCEPT ![addr] = t.next_id],
     next_id   |-> t.next_id + 1]

\* create_actor_from_send: register_new_address writes the init actor's state
\* straight to the state tree.
CreateActorFromSend(m, addr, actor) ==
    LET charged == Charge(m)
        id == m.tree.next_id
    IN  IF charged.err # Ok THEN charged
        ELSE SetActor([tree    |-> AssignAddress(m.tree, addr),
                       access  |-> m.access,
                       lookups |-> Insert(m.lookups, addr, TRUE),
                       fuel    |-> charged.fuel,
                       err     |-> Ok],
                      id, actor)

\* create_actor that replaces a placeholder by an empty actor.
CreateActorAnew(m, code, id, delegated) ==
    LET looked == GetActor(m, id)
        actor == m.tree.actors[id]
    IN  IF looked.err # Ok THEN looked
        ELSE IF actor = None \/ actor.code = Placeholder
        THEN SetActor(Charge(looked), id, NewActor(code, delegated))
        ELSE Require(looked, FALSE, "Forbidden")

\* create_actor.
CreateActor(m, code, id, delegated) ==
    LET looked == GetActor(m, id)
        actor == m.tree.actors[id]
    IN  IF looked.err # Ok THEN looked
        ELSE IF actor = None THEN SetActor(Charge(looked), id, NewActor(code, delegated))
        ELSE IF actor.code = Placeholder /\ actor.delegated = delegated
        THEN SetActor(looked, id, [actor EXCEPT !.code = code])
        ELSE Require(looked, FALSE, "Forbidden")

-----------------------------------------------------------------------------
(* Calls.  A call is a record: its entrypoint, what it transfers to whom,   *)
(* whether it is a bare METHOD_SEND, read-only, or under a gas limit.       *)

Calls == [entry    : {"invoke", "upgrade"},
          from     : Ids,
          to       : Ids \cup Addresses,
          value    : Values \cup {0},
          send     : BOOLEAN,
          readOnly : BOOLEAN,
          limited  : BOOLEAN]

\* constructing: the call whose recipient the frame constructs; grown: history,
\* by how much the frame's instance grew.
Frames == [actor        : Ids,
           entry        : {"invoke", "upgrade", "constructor"},
           readOnly     : BOOLEAN,
           limited      : BOOLEAN,
           constructing : Calls \cup {None},
           saved        : 0 .. MaxMemory,
           grown        : Nat]

\* call_actor_resolved, up to the actor's code.
CallActorResolved(m, call, id) ==
    LET found == Existing(m, id, "NotFound")
        paid  == IF call.value = 0 \/ found.err # Ok THEN found
                 ELSE Transfer(Charge(found), call.from, id, call.value)
    IN  IF call.send THEN paid ELSE Charge(paid)

\* Whether a call first creates its recipient, and constructs it.
Creates(m, call) == call.to \in Addresses /\ m.tree.addresses[call.to] = None
Constructs(m, call) == Creates(m, call) /\ call.to \in KeyAddresses

\* call_actor_unchecked's refusal to create actors when read-only.
MayCreate(m, call) == Require(m, ~ call.readOnly, "ReadOnly")

\* with_stack_frame's check of the depth.
MayNest(m) == Require(m, depth < MaxCallDepth, "LimitExceeded")

\* with_stack_frame and call_actor_unchecked, up to the code of the recipient or
\* of its constructor.
CallActor(m, call) ==
    LET ready == MayNest(m)
        id == m.tree.next_id
        account == CreateActorFromSend(MayCreate(ready, call), call.to, NewActor(Account, None))
        placeholder ==
            CreateActorFromSend(MayCreate(ready, call), call.to, NewActor(Placeholder, call.to))
    IN  IF call.to \in Ids
        THEN CallActorResolved(ready, call, call.to)
        ELSE IF ~ Creates(m, call)
        THEN CallActorResolved(ResolveAddress(ready, call.to), call, m.tree.addresses[call.to])
        ELSE IF call.to \in KeyAddresses
        THEN Charge(Existing(account, id, "NotFound"))
        ELSE IF call.to \in EthAddresses
        THEN CallActorResolved(placeholder, call, id)
        ELSE Require(ready, FALSE, "NotFound")

-----------------------------------------------------------------------------
(* Transactions. *)

Layers == [tree : Trees, idx : Nat, addresses_height : Nat, actors_height : Nat]

\* with_transaction begins a transaction of the state tree, of the events and of
\* the access tracker.
NewLayer(m) ==
    [tree             |-> m.tree,
     idx              |-> Len(events),
     addresses_height |-> HistoryLen(m.lookups),
     actors_height    |-> HistoryLen(m.access)]

\* with_transaction ends the three without truncating the events.
EndTransactionEmitted(m, layer, revert) ==
    /\ tree' = IF revert THEN layer.tree ELSE m.tree
    /\ events' = events
    /\ access' = IF revert THEN Rollback(m.access, layer.actors_height) ELSE m.access
    /\ lookups' = IF revert THEN Rollback(m.lookups, layer.addresses_height) ELSE m.lookups

\* with_transaction ends the three.
EndTransaction(m, layer, revert) ==
    /\ tree' = IF revert THEN layer.tree ELSE m.tree
    /\ events' = IF revert THEN SubSeq(events, 1, layer.idx) ELSE events
    /\ access' = IF revert THEN Rollback(m.access, layer.actors_height) ELSE m.access
    /\ lookups' = IF revert THEN Rollback(m.lookups, layer.addresses_height) ELSE m.lookups

\* What call_actor returns for the outcome of the call: running out of gas under a
\* limit is a failure when the caller has gas left.
CallResults(err, limited) ==
    IF err = "OutOfGas" /\ limited THEN {"OutOfGas", "Failed"} ELSE {err}

\* What the result of a call does to the caller: errors the caller cannot handle
\* abort it, and so does the success of an upgrade, with the exit code OK.
Aborts(entry, res) ==
    IF res \in {"OutOfGas", "Fatal"} THEN res
    ELSE IF entry = "upgrade" /\ res = Ok THEN Ok
    ELSE None

\* A call ends, and its result goes to the frame below or to the executor.
CallEnds(m, layer, entry, res, below) ==
    /\ EndTransaction(m, layer, res # Ok)
    /\ abort' = IF below = <<>> THEN None ELSE Aborts(entry, res)
    /\ result' = res

Frame(id, call, saved) ==
    [actor |-> id, entry |-> call.entry, readOnly |-> call.readOnly,
     limited |-> call.limited, constructing |-> None, saved |-> saved, grown |-> 0]

Constructor(id, call, saved) ==
    [actor |-> id, entry |-> "constructor", readOnly |-> call.readOnly,
     limited |-> call.limited, constructing |-> call, saved |-> saved, grown |-> 0]

\* with_transaction and call_actor, until the recipient's code runs or the call is
\* over.  Before the call itself, `first` is done in the transaction.
Dispatch(began, first, call) ==
    LET m == CallActor(first, call)
        id == IF call.to \in Ids THEN call.to ELSE m.tree.addresses[call.to]
    IN  /\ Creates(first, call) => first.tree.next_id \in Ids
        /\ m.fuel = 0
        /\ IF m.err # Ok \/ (call.send /\ ~ Constructs(first, call))
           THEN /\ \E res \in CallResults(m.err, call.limited) :
                     CallEnds(m, NewLayer(began), call.entry, res, frames)
                /\ UNCHANGED <<layers, frames, callStack, depth>>
           ELSE /\ tree' = m.tree
                /\ access' = m.access
                /\ lookups' = m.lookups
                /\ layers' = Append(layers, NewLayer(began))
                /\ depth' = depth + 1
                /\ IF Constructs(first, call)
                   THEN /\ frames' = Append(frames, Constructor(id, call, memory))
                        /\ UNCHANGED callStack
                   ELSE /\ frames' = Append(frames, Frame(id, call, memory))
                        /\ callStack' = Append(callStack, <<id, call.entry>>)
                /\ result' = None
                /\ UNCHANGED <<events, abort>>
        /\ UNCHANGED <<start, memory>>

-----------------------------------------------------------------------------
(* The message. *)

Init ==
    /\ start \in Starts
    /\ tree = start
    /\ events = <<>>
    /\ access = EmptyHistoryMap(Ids)
    /\ lookups = EmptyHistoryMap(Addresses)
    /\ layers = <<>>
    /\ frames = <<>>
    /\ callStack = <<>>
    /\ depth = 0
    /\ memory = 0
    /\ abort = None
    /\ result = None

\* StateAccessTracker::new, and the accesses DefaultCallManager::new records for
\* the sender, which is given by its id, and for the receiver.
NewAccess(receiver) ==
    LET preloaded == [map |-> [i \in Ids |-> IF i \in Preloaded THEN "Updated" ELSE Vacant],
                      history |-> <<>>]
        sender == RecordUpdate(preloaded, Origin)
        id == IF receiver \in Ids THEN receiver ELSE tree.addresses[receiver]
    IN  IF id = None THEN sender ELSE RecordRead(sender, id)

NewLookups(receiver) ==
    IF receiver \in Ids THEN EmptyHistoryMap(Addresses)
    ELSE Insert(EmptyHistoryMap(Addresses), receiver, TRUE)

\* execute_message makes the call manager, and the message's call.
Start(receiver, value, send, fuel) ==
    LET began == [tree |-> tree, access |-> NewAccess(receiver),
                  lookups |-> NewLookups(receiver), fuel |-> fuel, err |-> Ok]
    IN  /\ frames = <<>>
        /\ result = None
        /\ Dispatch(began, began,
                    [entry |-> "invoke", from |-> Origin, to |-> receiver, value |-> value,
                     send |-> send, readOnly |-> FALSE, limited |-> FALSE])

-----------------------------------------------------------------------------
(* Syscalls. *)

Running == frames # <<>> /\ abort = None
Self == Last(frames).actor
ReadOnly == Last(frames).readOnly

\* A syscall that is not a call returns to the actor, or aborts it.
Return(m) ==
    /\ m.fuel = 0
    /\ tree' = m.tree
    /\ access' = m.access
    /\ lookups' = m.lookups
    /\ abort' = IF m.err \in {"OutOfGas", "Fatal"} THEN m.err ELSE None
    /\ result' = None
    /\ UNCHANGED <<start, layers, frames, callStack, depth, memory>>

\* current_balance, balance_of, get_actor_code_cid and lookup_delegated_address
\* look an actor up, and charge nothing of their own.
ReadActor(id, fuel) ==
    /\ Running
    /\ Return(GetActor(Outcome(fuel), id))
    /\ UNCHANGED events

\* root.
GetRoot(fuel) ==
    /\ Running
    /\ Return(Existing(Charge(Outcome(fuel)), Self, "IllegalOperation"))
    /\ UNCHANGED events

\* resolve_address.
Resolve(addr) ==
    /\ Running
    /\ Return(ResolveAddress(Outcome(0), addr))
    /\ UNCHANGED events

\* set_root, of a root that is reachable.  When read-only it only returns an
\* error, like the syscalls below.
SetRoot(root, fuel) ==
    LET found == Existing(Charge(Outcome(fuel)), Self, "IllegalOperation")
    IN  /\ Running
        /\ ~ ReadOnly
        /\ Return(IF found.err # Ok THEN found
                  ELSE SetActor(found, Self, [tree.actors[Self] EXCEPT !.root = root]))
        /\ UNCHANGED events

\* emit_event.
EmitEvent(fuel) ==
    LET charged == Charge(Outcome(fuel))
    IN  /\ Running
        /\ ~ ReadOnly
        /\ Len(events) < MaxEvents
        /\ Return(charged)
        /\ events' = IF charged.err = Ok THEN Append(events, Self) ELSE events

\* self_destruct.  Whatever goes wrong in the transfer to the burnt funds actor is
\* fatal, running out of gas included.
SelfDestruct(burnUnspent, fuel) ==
    LET looked == GetActor(Outcome(fuel), Self)
        balance == IF tree.actors[Self] = None THEN 0 ELSE tree.actors[Self].balance
        burnt == IF looked.err # Ok \/ balance = 0 THEN looked
                 ELSE IF ~ burnUnspent THEN Require(looked, FALSE, "IllegalOperation")
                 ELSE LET moved == Transfer(looked, Self, BurntFunds, balance)
                      IN  IF moved.err = Ok THEN moved ELSE [moved EXCEPT !.err = "Fatal"]
    IN  /\ Running
        /\ ~ ReadOnly
        /\ Self \notin Singletons
        /\ Return(IF burnt.err # Ok THEN burnt ELSE SetActor(burnt, Self, None))
        /\ UNCHANGED events

\* The init actor's Exec (external): it assigns an id to a new address, or finds
\* the placeholder an address has, and calls the create_actor syscall.
InitActorExec(addr, code, fuel) ==
    LET m == Outcome(fuel)
        delegated == IF addr \in EthAddresses THEN addr ELSE None
        assigned == SetActor([m EXCEPT !.tree = AssignAddress(@, addr)],
                             InitActor, m.tree.actors[InitActor])
    IN  /\ Running
        /\ ~ ReadOnly
        /\ Self = InitActor
        /\ addr \notin KeyAddresses
        /\ IF tree.addresses[addr] = None
           THEN /\ tree.next_id \in Ids
                /\ Return(CreateActor(assigned, code, tree.next_id, delegated))
           ELSE Return(CreateActor(m, code, tree.addresses[addr], delegated))
        /\ UNCHANGED events

\* send without the inheritance of the caller's read-only flag.
SendForgetsReadOnly(to, value, flags, fuel) ==
    /\ Running
    /\ ~ (flags.readOnly /\ value # 0)
    /\ Dispatch(Outcome(fuel), Outcome(fuel),
                [entry |-> "invoke", from |-> Self, to |-> to, value |-> value,
                 send |-> flags.send, readOnly |-> flags.readOnly, limited |-> flags.limited])

\* send.
Send(to, value, flags, fuel) ==
    LET readOnly == ReadOnly \/ flags.readOnly
    IN  /\ Running
        /\ ~ (readOnly /\ value # 0)
        /\ Dispatch(Outcome(fuel), Outcome(fuel),
                    [entry |-> "invoke", from |-> Self, to |-> to, value |-> value,
                     send |-> flags.send, readOnly |-> readOnly, limited |-> flags.limited])

\* upgrade_actor's check of the call stack, that only looks at the innermost call.
MayUpgradeInnermost(id) == Last(callStack) \in {<<id, "invoke">>, <<id, "upgrade">>}

\* upgrade_actor's check of the call stack: above the first invocation of the
\* actor there are only upgrades of it.
MayUpgrade(id) ==
    LET invoked == {i \in DOMAIN callStack : callStack[i] = <<id, "invoke">>}
        first == CHOOSE i \in invoked : \A j \in invoked : i <= j
    IN  invoked # {} =>
            \A i \in first + 1 .. Len(callStack) : callStack[i] = <<id, "upgrade">>

\* upgrade_actor: the new code is in place when its upgrade entrypoint runs.
Upgrade(code, fuel) ==
    LET found == Existing(Outcome(fuel), Self, "IllegalOperation")
        replaced == IF found.err # Ok THEN found
                    ELSE SetActor(found, Self,
                                  [code |-> code, root |-> tree.actors[Self].root,
                                   balance |-> tree.actors[Self].balance, delegated |-> None])
    IN  /\ Running
        /\ ~ ReadOnly
        /\ Self \notin Singletons
        /\ MayUpgrade(Self)
        /\ Dispatch(Outcome(fuel), replaced,
                    [entry |-> "upgrade", from |-> Self, to |-> Self, value |-> 0,
                     send |-> FALSE, readOnly |-> FALSE, limited |-> FALSE])

\* DefaultMemoryLimiter::grow_memory, when it allows the growth.
GrowMemory(bytes) ==
    /\ Running
    /\ memory + bytes <= MaxMemory
    /\ memory' = memory + bytes
    /\ frames' = Append(Front(frames), [Last(frames) EXCEPT !.grown = @ + bytes])
    /\ result' = None
    /\ UNCHANGED <<start, tree, events, access, lookups, layers, callStack, depth, abort>>

-----------------------------------------------------------------------------
(* The end of an actor's code. *)

\* How the code of the innermost frame may end: as it is made to, or by itself; a
\* return value may be too expensive.
Endings ==
    IF abort = None THEN {Ok, "Failed", "OutOfGas"}
    ELSE IF abort = Ok THEN {Ok, "OutOfGas"}
    ELSE {abort}

\* with_stack_frame that starts to count from zero again.
PopClearsMemory ==
    /\ frames' = Front(frames)
    /\ depth' = depth - 1
    /\ memory' = 0

\* with_stack_frame restores the depth and the memory of the caller.
PopFrame ==
    /\ frames' = Front(frames)
    /\ depth' = depth - 1
    /\ memory' = Last(frames).saved

\* The innermost call is over.
EndCall(m, err) ==
    /\ \E res \in CallResults(err, Last(frames).limited) :
          CallEnds(m, Last(layers), Last(frames).entry, res, Front(frames))
    /\ layers' = Front(layers)
    /\ PopFrame
    /\ UNCHANGED start

\* The same without popping the call stack when the actor was aborted.
FinishUnpopped ==
    /\ frames # <<>>
    /\ Last(frames).entry # "constructor"
    /\ \E ending \in Endings : EndCall(Outcome(0), ending)
    /\ callStack' = IF abort = None THEN Front(callStack) ELSE callStack

\* The rest of call_actor_resolved, call_actor_unchecked, call_actor and
\* with_transaction when the actor's code ends.
Finish ==
    /\ frames # <<>>
    /\ Last(frames).entry # "constructor"
    /\ \E ending \in Endings : EndCall(Outcome(0), ending)
    /\ callStack' = Front(callStack)

\* The same for the constructor of the recipient: only when it ran out of gas, or
\* failed fatally, is the call over.  Otherwise, whatever its exit code, the call
\* goes on.
FinishConstructor(fuel) ==
    LET frame == Last(frames)
        call == frame.constructing
        m == CallActorResolved(Outcome(fuel), call, frame.actor)
    IN  /\ frames # <<>>
        /\ frame.entry = "constructor"
        /\ \E ending \in Endings :
             \/ /\ ending \in {"OutOfGas", "Fatal"}
                /\ fuel = 0
                /\ EndCall(Outcome(0), ending)
                /\ UNCHANGED callStack
             \/ /\ ending \in {Ok, "Failed"}
                /\ m.fuel = 0
                /\ IF m.err # Ok \/ call.send
                   THEN EndCall(m, m.err) /\ UNCHANGED callStack
                   ELSE /\ tree' = m.tree
                        /\ access' = m.access
                        /\ lookups' = m.lookups
                        /\ frames' = Append(Front(frames), Frame(frame.actor, call, frame.saved))
                        /\ callStack' = Append(callStack, <<frame.actor, call.entry>>)
                        /\ abort' = None
                        /\ result' = None
                        /\ UNCHANGED <<start, events, layers, depth, memory>>

-----------------------------------------------------------------------------
Next ==
    \/ \E to \in Recipients, value \in Values, flags \in CallFlags, fuel \in 0 .. MaxCharges :
         Start(to, value, flags.send, fuel) \/ Send(to, value, flags, fuel)
    \/ \E fuel \in 0 .. MaxCharges :
         \/ \E id \in Ids : ReadActor(id, fuel)
         \/ GetRoot(fuel)
         \/ \E root \in Roots : SetRoot(root, fuel)
         \/ EmitEvent(fuel)
         \/ \E burnUnspent \in BOOLEAN : SelfDestruct(burnUnspent, fuel)
         \/ \E addr \in Addresses, code \in Codes : InitActorExec(addr, code, fuel)
         \/ \E code \in Codes : Upgrade(code, fuel)
         \/ FinishConstructor(fuel)
    \/ \E addr \in Addresses : Resolve(addr)
    \/ \E bytes \in Growths : GrowMemory(bytes)
    \/ Finish

Spec == Init /\ [][Next]_vars

-----------------------------------------------------------------------------
(* Properties. *)

TypeOK ==
    /\ start \in Starts
    /\ tree \in Trees
    /\ events \in Seq(Ids)
    /\ access \in HistoryMaps(Ids, {"Read", "Updated"})
    /\ lookups \in HistoryMaps(Addresses, {TRUE})
    /\ layers \in Seq(Layers)
    /\ frames \in Seq(Frames)
    /\ callStack \in Seq(Ids \X {"invoke", "upgrade"})
    /\ depth \in 0 .. MaxCallDepth
    /\ memory \in 0 .. MaxMemory
    /\ abort \in {None, Ok, "OutOfGas", "Fatal"}
    /\ result \in {None, Ok, "Failed"} \cup Errors

\* The stacks of with_transaction, with_stack_frame and call_actor_unchecked are
\* in step with the calls in progress, on every error path: one transaction, one
\* unit of depth and, but for constructors, one entry of the actor call stack for
\* each.  In particular they are empty when the message is over, as
\* EventsAccumulator::finish expects, and the instances alive at the same time, one
\* per frame, are no more than max_call_depth, which is what the instance pool's
\* size relies on.
InStep ==
    LET stack[n \in 0 .. Len(frames)] ==
            IF n = 0 THEN <<>>
            ELSE IF frames[n].entry = "constructor" THEN stack[n - 1]
            ELSE Append(stack[n - 1], <<frames[n].actor, frames[n].entry>>)
    IN  /\ Len(layers) = Len(frames)
        /\ depth = Len(frames)
        /\ depth <= MaxCallDepth
        /\ callStack = stack[Len(frames)]

\* What the transaction n would be reverted to, and what there is.
Reverted(n) ==
    [tree    |-> layers[n].tree,
     events  |-> SubSeq(events, 1, layers[n].idx),
     access  |-> [i \in Ids |-> ValueAt(access, layers[n].actors_height, i)],
     lookups |-> [a \in Addresses |-> ValueAt(lookups, layers[n].addresses_height, a)]]

Innermost == Reverted(Len(layers))
Current == [tree |-> tree, events |-> events, access |-> access.map, lookups |-> lookups.map]

\* Calls are transactions (with_transaction): what a call in progress would be
\* reverted to is what there was when it began, however many calls are made and
\* reverted or kept in it, and a call that does not succeed leaves exactly that: no
\* actor changed, no event emitted, no access remembered as charged.
CallsAreTransactions ==
    [][/\ \/ UNCHANGED <<layers, events, access, lookups>>
          \/ \A n \in DOMAIN layers : n <= Len(layers') => Reverted(n)' = Reverted(n)
       /\ layers # <<>> /\ Len(layers') > Len(layers) => Innermost' = Current
       /\ layers # <<>> /\ result' \notin {None, Ok} =>
             Current' = IF Len(layers') < Len(layers) THEN Innermost ELSE Current
      ]_vars

\* A read-only call changes nothing (read_only is inherited by the calls it makes):
\* the tree and the events are what they were when it began.
ReadOnlyChangesNothing ==
    \A n \in DOMAIN frames :
        frames[n].readOnly => tree = layers[n].tree /\ Len(events) = layers[n].idx

\* No token is created or lost by transfers, self-destruction and reverted calls.
\* Only while an actor is being aborted may half of its last transfer be missing,
\* which the end of the call then reverts.
ValueConserved ==
    abort \notin {"OutOfGas", "Fatal"} => Tokens(tree.actors) = Total

\* No actor is changed for free: every actor that differs from what it was when the
\* message began is remembered as updated, and was charged for (set_actor,
\* delete_actor); reverting a call forgets the accesses with the changes.
UpdatesCharged ==
    \A i \in Ids : tree.actors[i] # start.actors[i] => access.map[i] = "Updated"

\* The code of an actor never changes under an invocation of it that waits for a
\* call of another actor to return (upgrade_actor): a step that ends no call leaves
\* the actor the code it has, unless the actor destroys itself.
NoUpgradeBeneathCalls ==
    [][Len(frames') >= Len(frames) =>
         \A i, j \in DOMAIN frames :
            LET actor == frames[i].actor
                before == tree.actors[actor]
                after == tree'.actors[actor]
            IN  /\ i < j
                /\ frames[i].entry = "invoke"
                /\ frames[j].actor # actor
                /\ before # None
                /\ before.code # Placeholder
                /\ after # None
                => after.code = before.code
      ]_vars

\* The memory limiter counts at least what the instances alive have grown by, and
\* never more than the limit.
MemoryCovered ==
    LET grown[n \in 0 .. Len(frames)] == IF n = 0 THEN 0 ELSE frames[n].grown + grown[n - 1]
    IN  grown[Len(frames)] <= memory /\ memory <= MaxMemory

\* A fatal error indicates a bug in the VM: what actors do, and running out of gas,
\* never make a message end in one.
NeverFatal == result # "Fatal"
=============================================================================
