# A TLA+ model of the reference Filecoin VM

This directory specifies the Filecoin virtual machine of this repository (`src/fvm` and the
libraries it is built on) in TLA+, checks the specification with TLC on small instances, and
proves its main properties with TLAPS for every value of the constants.

`PROJECT.json` holds the machine-readable side: the components, the runs, for every checked
property a mutation of the code that violates it, the source lines of every definition, the
hazards of the code, the findings, and the theorems.

## 1. The system and its parts

A *client* gives messages to an **executor** (`fvm/src/executor`).  The executor validates a
message, takes the gas fee in advance, and runs the message in a **call manager**
(`fvm/src/call_manager`), which calls actors: Wasm modules run by the **engine**
(`fvm/src/engine`), whose syscalls (`fvm/src/syscalls`) end in a **kernel** (`fvm/src/kernel`).
All of them work on a **machine** (`fvm/src/machine`): the **state tree** of actors
(`fvm/src/state_tree.rs`) over a buffered **blockstore** (`fvm/src/blockstore`).  **Gas**
(`fvm/src/gas`) is charged on the way.  The state tree and the actors keep their data in IPLD
structures (`ipld/`: HAMT, AMT, KAMT, bitfields) and share types with the VM (`shared/`); actors
are written with the `sdk/`.

Who runs concurrently: one executor, its machine and its call managers belong to one thread.
Several executors may share one engine pool; that is the only state threads share, and the only
place with locks and condition variables.  Everywhere else the hard cases come from *nesting*
(calls in calls, transactions in transactions, limits in limits), from *errors that end a step in
the middle*, and from *interrupted flushes*.

| Part | Source | Modules | State |
|---|---|---|---|
| engine and instance limits | `engine/concurrency.rs`, `engine/instance_pool.rs` | `EnginePool`, `EnginePoolProofs` | modelled, proved |
| undo map | `history_map.rs` | `HistoryMap`, `CommonProofs` | modelled, proved |
| state tree, init actor state | `state_tree.rs`, `init_actor.rs` | `StateTree`, `TransactionalStore`, `StateTreeProofs` | modelled, proved |
| gas tracker and metering | `gas/mod.rs`, `syscalls/mod.rs`, `syscalls/linker.rs` | `GasTracker`, `GasMetering`, `MeteringProofs` | modelled, proved |
| gas outputs | `gas/outputs.rs` | `GasOutputs`, `ExecutorProofs` | modelled, proved |
| executor | `executor/default.rs` | `Executor`, `ExecutorProofs` | modelled, proved |
| call manager, access tracker, memory limiter, actor syscalls | `call_manager/`, `machine/limiter.rs`, `kernel/default.rs` | `CallManager` | modelled |
| block registry, IPLD syscalls, write buffer, flush | `kernel/blocks.rs`, `ipld/`, `blockstore/buffered.rs`, `machine/default.rs` | `Blocks`, `BlocksProofs` | modelled, proved |
| syscalls and their access to memory, the other kernel operations, prices, the SDK's `get_block` | `syscalls/`, `kernel/default.rs`, `kernel/filecoin.rs`, `gas/price_list.rs`, `sdk/src/ipld.rs` | `PriceList`, `ActorMemory`, `KernelOps`, `Syscalls` | modelled |
| HAMT, KAMT, AMT | `ipld/hamt`, `ipld/kamt`, `ipld/amt` | `HashBits`, `TrieNodes`, `Hamt`, `Extensions`, `Kamt`, `Amt` | modelled |
| bit field and RLE+ | `ipld/bitfield` | `RlePlus`, `BitField`, `Unvalidated` | modelled |
| encodings, CAR files, cryptography, externs, module cache, traces, tests, tools | | | not modelled (section 8) |

Each `MC...` module instantiates the module it is named after for TLC: model values, initial
states, symmetry sets.

## 2. Modules and how they correspond to the code

### EnginePool

An executor thread goes through `EngineConcurrency::acquire` (a semaphore that hands out engine
ids), for every invocation through `InstancePool::take` and `put`, and through `release`.  Every
critical section under a mutex is one action; `wait_while` is split into the evaluation of its
predicate (`AcquireWait`, `TakeWait`: go to sleep) and the section after it (`Acquire`, `Take`).
A condition variable is the set of threads asleep on it; `notify_one` wakes an arbitrary one,
`SpuriousWakeup` wakes one for no reason, and a thread that never slept may overtake a notified
one.  The pool is *locked* to one engine while that engine holds fewer instances than a full call
stack needs.

### HistoryMap, StateTree, TransactionalStore

`HistoryMap` has the operations of the undo-logged map as operators: `insert`,
`get_or_try_insert_with`, `rollback` (both as the loop the code runs and as the closed form
`ValueAt`), `discard_history`.  `StateTree` has the actor cache, the resolve cache, the layers and
the HAMT (as a map) as variables, and one action for each public operation: `get_actor`,
`set_actor`, `delete_actor`, `mutate_actor`, `lookup_id`, `register_new_address`,
`begin_transaction`, `end_transaction`, `flush`.  Reads are actions too, because they fill the
caches and write undo history.  The state of the init actor is its address map and next id, read
through the same caches; other states are opaque.  The HAMT is a map that does not fail.
`TransactionalStore` is what the rest of the VM relies on: a map, a stack of saved maps, a persisted
map.

### GasTracker, GasMetering, GasOutputs

`GasTracker` has the saturating arithmetic of `Gas` (`MaxGas` stands for the largest amount, and
`Precision` for the 1000 milligas in a unit of gas) and the operations of `GasTracker`, the stack
of limits included.  `GasMetering` adds the call stack: each frame has the Wasm instance's own
counter and `last_gas_available`, and the actions are what happens between two moments at which
the actor runs: entering a call, a stretch of Wasm code, a syscall, a send with or without a limit,
and the end of a call by return, abort or exhaustion.  `SyscallNoSpace` is the early return of the
syscall wrapper when the return value has no room.  `GasOutputs` is the split of the gas fee as
functions on integers.

### Executor

`execute_message` in its three parts: `preflight_message` (`PreflightRefuses`, `PreflightAccepts`),
the call in its transaction (`CallActor`), and `finish_message` (`FinishMessage`).  What called
actors do is reduced to what the executor can see: funds that moved, an actor created or destroyed,
gas used, and the way the call ended (return, abort, out of gas, fatal error).  Explicit and implicit
messages, placeholders that become accounts, senders that do not resolve.  Value, fee cap and premium
are integers of either sign, as `TokenAmount` is, and `execute_message` may return an error, from
`deduct_funds` with a negative fee or from a transfer of `finish_message`: the transfers made before
it stand, since no transaction is around them.

### CallManager

All the calls of one message.  A frame of the model is one `invoke_actor` with its kernel; actor
code is arbitrary, so a running frame may make any syscall and end in any way, and every step is
all that the host does until actor code runs again.  A send therefore includes the resolution of
the recipient, the creation of an account or a placeholder, the transfer, the invocation's charges
and the push of the frame; a return includes the end of the transaction (state tree, event
accumulator and access tracker together) and the restored memory.  Gas is the number of charges a
step can still pay: a step is cut off at any of its charges, with the effects it had until then,
which is what makes half-finished transfers and creations visible.  The state tree is
`TransactionalStore`'s map and stack, so `StateTree`'s refinement is what justifies it.

### Blocks

Each call has a registry of open blocks and a set of reachable CIDs.  The actions are `block_open`,
`block_create`, `block_link`, `set_root`, creating an actor, sends and the ways of ending a call,
with what they pass from registry to registry; then the machine's flush, a flush that fails after
the client stored some of the blocks, and a machine lost at any moment and made anew from the last
root a flush returned.  A block is identified with its CID, and DAG-CBOR content with the CIDs in
it.  The two link scanners of the code, `LinkVisitor` (when a block enters a registry) and
`take_reachable` (when it is flushed), are both modelled, as least fixed points over the links
that each of them follows.

### PriceList, ActorMemory, KernelOps, Syscalls

A syscall is one action, since the actor waits for it, but its property is in its *order*: what is
checked, charged, done, written and kept, and in which sequence.  `ActorMemory` therefore has a
syscall as a sequence of steps (`Check`, `Within`, `Pay`, `Work`, `Retain`, `Write`, `Keep`, `Note`)
that is run up to the first that fails, and records what was paid and what the work was worth after
each of them.  `KernelOps` has the operations of the kernel as such sequences, with the charges of
`PriceList` (whose formulas are those of `price_list.rs`, and whose prices are a parameter); what
the client, a library or the state tree answers is a parameter of the operation, chosen freely.
`Syscalls` puts in front of them what the wrappers do with pointers into the actor's memory, and
behind them the return value (`impl_syscall`).  Lengths and offsets wrap at `Word`, the number of
u32 values.  The operations that change actors are in `CallManager` and only succeed or fail here.
`SdkGetBlock` is the one function of the SDK that is more than a wrapper: it reads a block of
unknown size with one or two calls of `block_read` into memory that is not initialised.

### HashBits, TrieNodes, Hamt, Extensions, Kamt, Amt

The three persistent trees.  A node is a function from the set bits of its bitfield to pointers, and
a pointer is a bucket of pairs, a dirty child, or a link with a CID and perhaps a cached node.  The
CID of a block *is* the block, so two trees have the same root CID exactly when they have the same
form.  `TrieNodes` has what the trees share (buckets, collapse, the checks of `load`, iterators with
a stack), `HashBits` the consumption of hashed keys bit by bit, `Extensions` the prefixes that the
KAMT skips.  The actions are the public operations: sets and deletes with their splits and
collapses, reads (which fill caches), iterations with paging, changes in place, `flush` into a store
that may fail after any number of blocks, loading a root again, `set_root`.  Next to each tree there
is the map or array that it stands for (`dict`), the roots that were returned with what they stood
for (`published`), and `adrift`: whether the tree is in one of the two states in which `flush` does
not return the root of what is read (section 6).  No guard looks at them.

### RlePlus, BitField, Unvalidated

`RlePlus` has the bit reader and writer and the encoding, bit by bit.  `BitField` has the ranges with
the bits set and unset since, and every operator of the library through its iterators of ranges
(union, intersection, difference, symmetric difference, cut, slice, skip, take), next to the set of
bits it stands for.  `Unvalidated` has a bit field received as bytes, decoded at its first use.

## 3. Runs

`tlc -config X.cfg M` in this directory repeats a run.  All of them finish within five minutes on
two workers.

| Run | Module, cfg | What it checks and shows |
|---|---|---|
| `engine_pool` | `MCEnginePool`, `EnginePool.cfg` | Five threads, three engines, three instances, call stacks of two.  The owner of the pool's lock can always complete a full call stack; every `acquire` and every `take` returns. |
| `state_tree` | `StateTree`, `StateTree.cfg` | Two actors, two addresses, two states, transactions two deep.  The tree implements `TransactionalStore`; the resolve cache agrees with the init actor after every revert; an entry that is not dirty is persisted; the loop of `rollback` is its closed form. |
| `gas_metering` | `GasMetering`, `GasMetering.cfg` | Calls three deep with and without limits, amounts chosen around the saturation point and the cap.  Books of nested limits balance, no level overspends, the receipt (rounded up) is within the message's limit, no execution escapes being charged for, an actor is out of gas only when its gas is gone, every message ends. |
| `gas_no_space` | `GasMetering`, `GasNoSpace.cfg` | Expected violation, section 6. |
| `executor` | `MCExecutor`, `Executor.cfg` | Two messages, two users of any kind, fees above and below the base fee, negative fees, premiums and values, every way a call ends.  Funds are conserved with what the sender paid in advance counted, no message is executed twice, `finish_message` fails half-way exactly when the premium is negative, the charge for inclusion is always covered, the premium shown to actors is the tip that is paid. |
| `call_manager` | `MCCallManager`, `CallManager.cfg` | Two actors that call each other four deep, upgrade, self-destruct, emit events and are cut off at every charge.  Calls are transactions over state, events and access tracker; read-only calls change nothing; no update is free; the stacks stay in step on every error path; no code changes beneath a waiting invocation. |
| `call_creation` | `MCCallManager`, `CallCreation.cfg` | Three calls deep: transfers, set roots, memory growth, and calls to addresses without an actor: accounts whose constructor runs in the middle of the call, placeholders, actors the init actor makes.  No token appears or is lost; the limiter covers the memory in use and keeps it within the limit. |
| `call_fatal` | `MCCallManager`, `CallFatal.cfg` | Expected violation, section 6. |
| `blocks` | `MCBlocks`, `Blocks.cfg` | Calls two deep over blocks with inline, piece and forbidden links, flushes that succeed, fail after storing any part, or are cut off by a crash.  What an actor can reach can be read; the last root a flush returned is complete in the client's store; a flush stores only state. |
| `blocks_retry` | `MCBlocks`, `BlocksRetry.cfg` | Expected violation, section 6. |
| `collections` | `MCCollections`, `Collections.cfg` | A HAMT, a KAMT, an AMT, a bit field, or a bit field received as bytes, under any sequence of their operations.  The form of a tree depends on its content alone; reads, deletes and iterations answer as the map would; every root that was flushed can be loaded and is what it was, and `flush` returns the root of what is read but in the two cases of section 6; the diff of two AMTs of one height is what changed; a bit field is the set of its bits; it has one encoding, and is read back from it. |
| `syscalls` | `MCSyscalls`, `Syscalls.cfg` | Every syscall, with buffers inside, at the end of and beyond the memory, every answer of the client, and gas that runs out in the middle.  At every moment the actor has paid for the work done for it (`block_open` and `install_actor`: when they succeed); a call that fails has written and kept nothing; the parts of a buffer end within it and cover it; pieces of a sector are in order, fill it and, if their sizes are powers of two, are aligned; the client is not asked about the future; `get_block` returns the whole block. |

Every property of a passing run has a mutant in `PROJECT.json`: a plausible bug (a dropped guard, a
missing notification, an early unlock, a forgotten rollback) under which TLC finds the property
violated in the same run.

## 4. Bounds, and why they are enough

Bounds are constants marked `bound:` where they are declared, or constants of the code made small.

- *EnginePool*: three instances for stacks of two make the lock change hands.  A workload says how
  many messages and calls each thread has.  In the first, four threads make two, two, one and no
  calls, which is about the instances; in the second, five threads make no calls and one of them has
  two messages, which is about the engines: two threads sleep in `acquire` while others, also one
  that comes back, take the engine that was released before the thread that was woken gets to it.
  The safety properties are proved for every size.
- *StateTree*: a second actor, and two addresses for one fresh id, are what it takes for an id to
  be handed out again after a revert; depth two is a commit inside a revert.  `MaxHistory` bounds
  the undo log, and is checked before an operation, so no operation is cut short.  Proved for
  every size.
- *GasMetering*: `MaxGas = 7` and `Precision = 2` put the cap of the limit, saturation and rounding
  within reach of three calls.
- *Executor*: two messages are a first one and one that could repeat it or find the actors it left.
  `MCMessages` has values, fee caps and premiums of either sign, fee caps on both sides of the base
  fee, premiums that the fee cap cuts and admits, a gas limit of zero, and prices of inclusion below,
  at and above the gas limit.
- *CallManager*: four calls deep is an actor that is called again while it waits and then upgrades
  itself, which is a call too.  Calls that are not read-only are made under a gas limit, because
  such a call may end in every way that one without a limit can.  `MaxCharges` is the largest number
  of charges a single step makes (more reach no further state), so every step is cut off at each of
  its charges, and is also run to its end.  Tokens, creation and memory have a run of their own,
  three deep, with one id to hand out: it is used by an account, by a placeholder, by an actor the
  init actor makes, and again after a call that created it is reverted.  Roots are set there, and
  what is reverted in the other run is code.  So `ReadOnlyChangesNothing` and `CallsAreTransactions`
  are checked with upgrades, self-destructs and events, and the guards of transfers, creations and
  `set_root` are in `call_creation` only.  Two units of memory are what it takes to be refused one.
- *Blocks*: a node that reaches a leaf only through an inline block, next to a piece commitment;
  one block with a forbidden link; the empty array.  Registries of two blocks are full with a
  parameter and one more.  Proved for every set of blocks and links.
- *Collections*: three keys whose hashes agree in the first level, two of them also in the second,
  in buckets of one and of two, are what splits and collapses need over several levels; four KAMT
  keys over two bytes make extensions that begin and end inside a byte and are split at either end;
  AMT indices 1, 6 and 30 of five-bit words give all three heights, an absent first child, and the
  largest index there is; 31 is out of range.  Two published roots are what a KAMT needs for
  `set_root` to leave the CID of another behind.  Gaps of one, sixteen and more than 127 bits take
  the three forms of a run length; the received bytes are all sequences of up to three bytes from nineteen that take
  every branch of the reader.  `MaxRoots`, `MaxBlocks` and `MaxBuffered` bound what is kept.
- *Syscalls*: a memory of eight bytes and words of sixteen values make offset plus length reach the
  end, exceed it and wrap.  Gas is 9, 35 or `MaxGas`, so that calls are cut off at their first, at a
  middle and at no charge; epochs are in the past, current, in the future and at the ends of the
  range.  A call starts from the registry that earlier calls left, empty or full.  Two plaintexts of
  2 and 15 bytes have a sum that wraps to 1.  Pieces have sizes 0, 1, 3, 4 and 16, in words of 32
  values, so that the sum of sizes wraps, too.

## 5. Fairness

Safety runs assume none.  `FairSpec` of `EnginePool` assumes weak fairness of each thread's own
steps: the operating system runs every runnable thread, and an invocation ends, since gas bounds
it.  Nothing obliges a thread to start a message, an actor to call, or a condition variable to
wake a thread without being notified.  With finitely many messages a thread can be overtaken only
finitely often; the model claims no fairness of the locks themselves.  `FairSpec` of `GasMetering`
assumes that the executing thread takes some step, which is what executing means; it chooses no
particular one.  Two stretches of code cost something, because the instrumentation charges every
instruction.

## 6. Where the code and its documentation disagree

Three expected violations:

- `gas_no_space`: a syscall whose out pointer leaves no room returns to the actor after
  `charge_for_exec` and before `update_gas_available` (`syscalls/linker.rs:204`), so the same
  execution is charged for again by the next syscall.
- `call_fatal`: `self_destruct` turns running out of gas while it burns the unspent funds into a
  fatal error (`kernel/default.rs:379`), which ends the message whatever gas limits lie between.
- `blocks_retry`: a flush that failed in the client's blockstore has already emptied the write
  buffer (`blockstore/buffered.rs:47`); flushing the same machine again succeeds and returns a root
  whose blocks are not stored.  The other runs and the proofs assume that a client drops a machine
  whose flush failed (`Retry = FALSE`).

Two more were found with TLC, and no run of the list repeats them (module `Amt` with
`Indices = {1, 6, 30}`, two values, `BitWidths = {2}`, `WordBits = 5`, `MaxRoots = 1`,
`MaxBlocks = 4` and `MaxBefore = 0` does):

- `AmtDiffTransforms`: the diff of two arrays of different heights leaves out the entries of the
  lower one when the higher one has no first child (`ipld/amt/src/diff.rs:228-244` and `254-270`),
  where `diff.rs:65` says "Returns a set of changes that transform node 'a' into node 'b'".
- `AmtRangedFromAnywhere`: an iteration that starts inside an absent subtree reports indices that are
  too large (`ipld/amt/src/iter.rs:119-123`, `148` and `257-263`: the width of the whole subtree is
  added to the start), where `amt.rs:480` says that it "begins at the first index >= `start_at`".

In these cases a property of a passing run has an exception.  The code does what the model does
there, and the property says exactly where the exception ends:

- `SettlementSound`, `FundsConserved`: nothing refuses an explicit message with a negative premium.
  `finish_message` has then burnt the base fee when the transfer of the (negative) tip fails
  (`executor/default.rs:509`); `execute_message` returns an error, and the rest of the fee is with
  nobody.  With any other premium the settlement does not fail.  A negative fee cap is an error of
  `deduct_funds`, before anything has changed.
- `FlushSound`, KAMT: `set_root` leaves the CID of the last flush in place
  (`ipld/kamt/src/kamt.rs:102-106`; the HAMT's clears it), so that until the next change `flush`
  returns the root of the content before, where `kamt.rs:117` says "Flush root and return Cid for
  Kamt".
- `FlushSound`, `DiffSameHeight`, AMT: a `for_each_mut` whose function fails leaves what it changed
  in the cache of a link that is not marked dirty (`ipld/amt/src/node.rs:447` and `473-482`) and the
  remembered CID in place.  `get` reads the changed values and `flush` does not write them, until
  the AMT is loaded again or something else marks the same nodes dirty.
- `WorkIsPaid`: `block_open` reads the whole block (`kernel/default.rs:400-408`) and `install_actor`
  compiles the code (`883`) before the charge for the size; if the gas does not suffice for it,
  the work was free.  When they succeed they have paid for it.
- `FailedCallsLeaveNothing`: `block_link` has stored the block, and `root` has made the root
  reachable, when the buffer for the CID is found too small.
- `PiecesAligned`: a piece may have any size (`PaddedPieceSize::validate`, `shared/src/piece/mod.rs:51`,
  is only called in tests); where it is not a power of two, the remainder of the wrapped difference
  (`kernel/filecoin.rs:392`) is not what is missing to a multiple of it, and the piece may not be
  aligned.

Remarks met while modelling, which no run is about: randomness of a future epoch runs out of gas,
by the price of a negative lookback cast to u64 (`kernel/default.rs:775-781`), and is not refused as
an illegal argument; `batch_verify_seals` charges for every seal (`kernel/filecoin.rs:171-176`) where
the documentation of the trait (`69-70`) says that it "intentionally _does not_ charge any gas" and
the comment in it (`168`) that gas has already been charged; `StateTree::flush` clears an entry's
dirty mark before it writes it (`state_tree.rs:326`), so a flush retried after a HAMT error would
skip it; an exit with an unknown block handle is a fatal error (`call_manager/default.rs:842`) while a
return with one is an abort; `execute_message` gives a message with a fatal error a receipt
(`executor/default.rs:246`) where `kernel/error.rs:43` says it will not produce one;
`upgrade_actor` clears the delegated address (`kernel/default.rs:261`) that `shared/src/state/mod.rs:65`
says is never modified.

## 7. Theorems

All are checked by TLAPS without unproved leaves, for every value of the constants that satisfies
the named assumptions of the modules.

- **EnginePoolProofs.**  `TypeCorrect`, `LockIsSound`, `PoolNeverExhausted` from `PoolInv`: besides
  the type invariant it says what a thread holds at each point of a message, that ids handed out
  are below `next_id` and distinct, and that `available` plus the instances of the lock's owner are
  a full call stack.  `PoolNeverExhausted` alone is not inductive: that an instance is left depends
  on who holds the lock.  `EnginesBounded` and `NoWakeupLost` from `WakeInv`, with cardinalities of
  the sets of sleepers.  Assumed: the concurrency and the call depth are positive and the pool's
  cap leaves room for one call stack (`PoolAssumption`).
- **CommonProofs.**  Lemmas for the others: what `Insert` and `Rollback` do to every value the map
  could be rolled back to, and that the loop of `rollback` is its closed form; how a sum over a
  finite set changes with one of its terms.  The last two are about functions defined by recursion,
  whose existence and uniqueness are derived from least elements of well-founded sets.
- **StateTreeProofs.**  `TypeCorrect`, `RollbackUndoesInOrder`, `ResolutionsCoherent`,
  `CleanEntriesPersisted`, and `StateTreeImplementsStore`, the refinement.  The invariant `TreeInv`
  says that the layers' heights are ordered and within the histories, and that the caches are sound
  not only now but *as each layer would restore them*; without the last part reverting would not
  preserve it.
- **MeteringProofs.**  `MeteringTypes`, `GasConserved`, `LimitsAlwaysNest`, `ReceiptsWithinLimits`,
  `CountersAlwaysExact`, `OutOfGasMeansEmpty`: the safety properties of the run `gas_metering`, for
  any depth of calls, limits and charges.  `MeterInv` adds three things to them.  The tracker has
  as many levels as the stack has limited frames, counted by a witness and not by a recursive sum:
  without it `pop_limit` might find no level, and levels might be left when the message is done.
  The outermost limit is still the message's.  The running instance's counter is not below the
  least i64, so that the difference `charge_for_exec` takes does not saturate; this is why
  `MeteringAssumption` bounds what one metered stretch of code costs.
- **ExecutorProofs.**  `GasSplit`, `FeeSplit`, `BaseFeeSplit` on the split of the fee;
  `TypeCorrect`, `NeverReplayed`, `SettlementNeverFails`, `InclusionAlwaysCovered`, `PremiumAsShown`
  and `FundsKept` from `ExecInv`: the sender of an executed message is an account for good, which is
  why it is there to be refunded and its sequence never goes back; the gas of a receipt is within the
  limit, which is why `FeeSplit` applies; the fee cap of a message that was accepted is not negative,
  because `deduct_funds` refused it otherwise.  `SettlementNeverFails` is an equivalence: the
  settlement of a message goes through if and only if its premium is not negative.  `FundsKept` adds
  balances over any finite set of actors.
- **BlocksProofs.**  `TypeCorrect`, `ReachableIsHeld`, `FlushedIsComplete`, `FlushIsNotRejected`,
  `FlushStoresState`, each for machines that are dropped after a failed flush.  The invariant is
  built on `Durable`, the blocks of the client's store that are complete in it: an interrupted
  flush leaves blocks in the store that are not durable, and the point of the proof is that no
  root, buffer or registry ever relies on one of those without holding what is below it.

The type invariants, `NoExhaustion` (the assertion of `take`), `EnginesAccounted` (the semaphore
counts exactly) and `FlushNotRejected` are proved and not repeated in the runs.

Only model-checked: liveness; the properties of `CallManager`; the collections and the syscalls,
whose operators are recursive.

## 8. What is assumed, and what is not modelled

Assumed: the price of inclusion is at most the cap of the gas limit (`ExecutorAssumption`); account
actors do not destroy themselves and the init and burnt-funds actors neither destroy nor upgrade themselves (built-in actors, not in this
repository); the init actor's code does not reuse ids; a client makes its first machine from a
complete state tree (`GenesisComplete`).  Errors of the client's blockstore are modelled in
`Blocks` only.  Panics, and machines poisoned by them, are not modelled.  `execute_message` also
returns the errors of `DefaultCallManager::finish` (`executor/default.rs:158-161`), which the model
does not have: it fails when the layers of the event accumulator do not match, which `InStep`
excludes, or when the AMT of events cannot be written to a store that discards every block.  In
`CallManager`, charges whose price is zero in the price list are left out (`on_self_balance`,
`on_balance_of`, `on_resolve_address`, `on_lookup_delegated_address`, `on_get_actor_code_cid`,
`on_delete_actor`); an exit with an unknown block handle is in `Blocks` only; and the exclusion of
upgrades is stated for invocations on the actor call stack, which implicit constructors are not pushed on.

In the collections a hash is given, blocks do not collide, and the store only fails when it is written
to.  In `Syscalls` the host's own limits on memory (wasmtime) are not modelled.

Not modelled:

- serialisation (CBOR, addresses as bytes, CAR files): byte formats without state, and what they do
  is done by serde; RLE+, which this repository writes itself, is modelled bit by bit;
- cryptography, proofs and externs: libraries and the client's side, free answers in `Syscalls`;
- Wasm compilation, instrumentation and the cache of compiled modules: wasmtime and
  fvm-wasm-instrument; the cache is a map under one mutex, filled while it is held;
- the threaded executor: it starts a thread and joins it at once;
- execution traces, backtraces and timers: nothing reads them back;
- the functions of the SDK that pass their arguments to one syscall, and the shared functions that
  only actors use (quantisation of epochs, smoothing, rewards);
- tests, benchmarks and tools.

`PROJECT.json` lists every part with the reason.
