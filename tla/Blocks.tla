------------------------------- MODULE Blocks -------------------------------
(***************************************************************************)
(* The IPLD blocks actors work with: the registry of open blocks and of    *)
(* reachable CIDs every call has (kernel/blocks.rs), the syscalls on it    *)
(* (kernel/default.rs), how sends and returns pass blocks from registry to *)
(* registry, the write buffer in front of the client's blockstore          *)
(* (blockstore/buffered.rs), and the machine's flush (machine/default.rs), *)
(* which may fail and be interrupted.                                      *)
(*                                                                         *)
(* A block is identified with its CID.  The state tree is the map from     *)
(* actors to their state roots; its own nodes are left out.  Gas is left   *)
(* out: every syscall charges before it changes anything, so running out   *)
(* of it is one of the ways an actor may be ended.                         *)
(***************************************************************************)
EXTENDS Naturals, Sequences, SequencesExt

CONSTANTS
    Hashed,      \* CIDs of blocks: BLAKE2B_256 and one of ALLOWED_CODECS
    Inline,      \* CIDs that hold their block: IDENTITY and one of ALLOWED_CODECS
    Pieces,      \* CIDs with one of IGNORED_CODECS
    Forbidden,   \* all other CIDs
    DagCbor,     \* the CIDs of Hashed and Inline whose codec is DAG_CBOR
    Refs,        \* the CIDs in a DAG_CBOR block
    EmptyArray,  \* EMPTY_ARR_CID
    Actors,      \* actors
    None,        \* Option::None
    Stores,      \* what the client's blockstore may hold at first
    Genesis,     \* the state tree of the first machine
    Retry,       \* whether a machine is used after its flush failed
    MaxDepth,    \* max_call_depth
    MaxBlocks    \* MAX_BLOCKS

Cids == Hashed \cup Inline \cup Pieces \cup Forbidden

Trees == [Actors -> Hashed \cup {None}]

ASSUME BlocksAssumption ==
    /\ Hashed \cap (Inline \cup Pieces \cup Forbidden) = {}
    /\ Forbidden \cap (Inline \cup Pieces) = {}
    /\ Inline \cap Pieces = {}
    /\ DagCbor \subseteq Hashed \cup Inline
    /\ Refs \in [DagCbor -> SUBSET Cids]
    /\ EmptyArray \in Hashed \cap DagCbor
    /\ Refs[EmptyArray] = {}
    /\ None \notin Cids
    /\ Stores \subseteq SUBSET Hashed
    /\ Genesis \in Trees
    /\ Retry \in BOOLEAN
    /\ MaxDepth \in Nat \ {0}
    /\ MaxBlocks \in Nat \ {0}

VARIABLES
    base,     \* BufferedBlockstore.base: the blocks the client has
    write,    \* BufferedBlockstore.write: the blocks it does not have yet
    tree,     \* the state tree: every actor's state root
    frames,   \* the kernels of the calls in progress, innermost last
    flushed,  \* the state tree whose root the last successful flush returned
    broken    \* whether the machine's last flush failed

vars == <<base, write, tree, frames, flushed, broken>>

Frames == [actor     : Actors,
           readOnly  : BOOLEAN,
           blocks    : Seq(Hashed),
           reachable : SUBSET Hashed,
           saved     : Trees]

-----------------------------------------------------------------------------
(* Links. *)

Contents(c) == IF c \in DagCbor THEN Refs[c] ELSE {}

\* LinkVisitor: the links of a block, those of its inline CIDs included.
Scan == [c \in Cids |->
    {k \in Cids \ (Inline \cup Pieces) : \A S \in SUBSET Cids :
        (Contents(c) \subseteq S /\ \A j \in S \cap Inline : Contents(j) \subseteq S) => k \in S}]

\* The scan is an error when it comes upon a forbidden link.
Scannable(c) == Scan[c] \cap Forbidden = {}

\* What take_reachable pushes on its stack when it pops a CID, without looking into
\* inline CIDs.
PushedHashed(cache, k) == IF k \in cache THEN Contents(k) ELSE {}

\* What take_reachable pushes on its stack when it pops a CID.
Pushed(cache, k) == IF k \in Inline \cup cache THEN Contents(k) ELSE {}

\* The CIDs take_reachable pops.
Popped(cache, roots) ==
    {k \in Cids : \A S \in SUBSET Cids :
        (roots \subseteq S /\ \A j \in S : Pushed(cache, j) \subseteq S) => k \in S}

\* take_reachable that takes the whole cache.
TakeAll(cache, roots) == cache

\* take_reachable: it is an error when a popped CID is forbidden.
TakeReachable(cache, roots) == Popped(cache, roots) \cap cache
Rejects(cache, roots) == Popped(cache, roots) \cap Forbidden # {}

\* A block and all the blocks below it.
Below ==
    [c \in Cids |-> {d \in Cids : \A S \in SUBSET Cids :
        (c \in S /\ \A e \in S : Scan[e] \subseteq S) => d \in S}]

\* The state roots of a state tree.
Roots(t) == {t[a] : a \in Actors} \ {None}

ASSUME GenesisComplete ==
    \A store \in Stores : \A c \in Roots(Genesis) : Below[c] \subseteq store \cup {EmptyArray}

-----------------------------------------------------------------------------
(* BlockRegistry. *)

IsFull(frame) == Len(frame.blocks) = MaxBlocks

\* put_inner.
PutReachable(frame, b) ==
    [frame EXCEPT !.blocks = Append(@, b), !.reachable = @ \cup Scan[b]]
PutBlock(frame, b) == [frame EXCEPT !.blocks = Append(@, b)]
MarkReachable(frame, c) == [frame EXCEPT !.reachable = @ \cup {c}]

\* The block of a handle; zero is NO_DATA_BLOCK_ID.
Data(frame, i) == IF i = 0 THEN None ELSE frame.blocks[i]
Handles(frame) == 0 .. Len(frame.blocks)

Held == write \cup base

-----------------------------------------------------------------------------
(* The machine. *)

\* DefaultMachine::new.
NewMachine(store, root) ==
    [base |-> store \cup {EmptyArray}, write |-> {}, tree |-> root]

Init ==
    \E store \in Stores :
      LET machine == NewMachine(store, Genesis)
      IN  /\ base = machine.base
          /\ write = machine.write
          /\ tree = machine.tree
          /\ frames = <<>>
          /\ flushed = Genesis
          /\ broken = FALSE

\* The client makes a new machine from the last root it was given.  It may do so at
\* any time, after a crash, say, or after a flush failed.
Restart ==
    LET machine == NewMachine(base, flushed)
    IN  /\ base' = machine.base
        /\ write' = machine.write
        /\ tree' = machine.tree
        /\ frames' = <<>>
        /\ broken' = FALSE
        /\ UNCHANGED flushed

\* DefaultMachine::flush.  The blocks have left the write buffer when the client's
\* blockstore is asked to store them; if that fails it may have stored some.
Flush(ok) ==
    LET taken == TakeReachable(write, Roots(tree))
        rejected == Rejects(write, Roots(tree))
    IN  /\ frames = <<>>
        /\ Retry \/ ~ broken
        /\ rejected => ~ ok
        /\ \E lost, stored \in SUBSET taken :
             /\ IF rejected THEN stored = {} ELSE lost = taken
             /\ ok => stored = taken
             /\ write' = write \ lost
             /\ base' = base \cup stored
        /\ flushed' = IF ok THEN tree ELSE flushed
        /\ broken' = ~ ok
        /\ UNCHANGED <<tree, frames>>

-----------------------------------------------------------------------------
(* Calls. *)

Running == frames # <<>>
Self == Last(frames)

\* The registry a call begins with: its parameters.
Frame(actor, readOnly, params) ==
    LET empty == [actor |-> actor, readOnly |-> readOnly, blocks |-> <<>>,
                  reachable |-> {}, saved |-> tree]
    IN  IF params = None THEN empty ELSE PutReachable(empty, params)

\* A call begins.  An actor that does not exist is created, with an empty state.
Call(actor, readOnly, params) ==
    /\ tree[actor] = None => ~ readOnly
    /\ tree' = IF tree[actor] = None THEN [tree EXCEPT ![actor] = EmptyArray] ELSE tree
    /\ frames' = Append(frames, Frame(actor, readOnly, params))

\* execute_message.  The codec of a message's parameters is not DAG_CBOR.
StartMessage(actor, params) ==
    /\ frames = <<>>
    /\ Retry \/ ~ broken
    /\ params \notin DagCbor
    /\ Call(actor, FALSE, params)
    /\ UNCHANGED <<base, write, flushed, broken>>

\* send, until the recipient's code runs.
Send(actor, readOnly, i) ==
    /\ Running
    /\ i \in Handles(Self)
    /\ ~ IsFull(Self)
    /\ Len(frames) < MaxDepth
    /\ Call(actor, Self.readOnly \/ readOnly, Data(Self, i))
    /\ UNCHANGED <<base, write, flushed, broken>>

\* send, once the call has returned a value.
Returned(caller, value) ==
    IF value = None THEN caller ELSE PutReachable(caller, value)

\* The innermost call ends.
EndCall(revert, value) ==
    LET callers == Front(frames)
    IN  /\ tree' = IF revert THEN Self.saved ELSE tree
        /\ frames' = IF callers = <<>> THEN <<>>
                     ELSE [callers EXCEPT ![Len(callers)] = Returned(@, value)]
        /\ UNCHANGED <<base, write, flushed, broken>>

\* The actor returns, or exits with a block.
Return(revert, i) ==
    /\ Running
    /\ i \in Handles(Self)
    /\ EndCall(revert, Data(Self, i))

\* It traps, runs out of gas, or returns a handle it does not have: it returns
\* nothing, and has failed.
Abort ==
    /\ Running
    /\ EndCall(TRUE, None)

\* A fatal error ends every call of the message, and reverts it.
FatalError ==
    /\ tree' = Head(frames).saved
    /\ frames' = <<>>
    /\ UNCHANGED <<base, write, flushed, broken>>

\* It exits with a handle it does not have.
ExitMissing ==
    /\ Running
    /\ FatalError

-----------------------------------------------------------------------------
(* Syscalls. *)

Update(frame) ==
    /\ frames' = [frames EXCEPT ![Len(frames)] = frame]
    /\ UNCHANGED <<base, flushed, broken>>

\* root.
Root ==
    /\ Running
    /\ tree[Self.actor] # None
    /\ Update(MarkReachable(Self, tree[Self.actor]))
    /\ UNCHANGED <<write, tree>>

\* set_root.
SetRoot(c) ==
    /\ Running
    /\ ~ Self.readOnly
    /\ c \in Self.reachable
    /\ tree[Self.actor] # None
    /\ tree' = [tree EXCEPT ![Self.actor] = c]
    /\ UNCHANGED <<base, write, frames, flushed, broken>>

\* block_open.
BlockOpen(c) ==
    /\ Running
    /\ c \in Self.reachable
    /\ IF c \notin Held THEN FatalError
       ELSE /\ Scannable(c)
            /\ ~ IsFull(Self)
            /\ Update(PutReachable(Self, c))
            /\ UNCHANGED <<write, tree>>

\* block_create that does not check that the links are reachable.
BlockCreateUnchecked(c) ==
    /\ Running
    /\ Scannable(c)
    /\ ~ IsFull(Self)
    /\ Update(PutBlock(Self, c))
    /\ UNCHANGED <<write, tree>>

\* block_create.
BlockCreate(c) ==
    /\ Running
    /\ Scannable(c)
    /\ ~ IsFull(Self)
    /\ Scan[c] \subseteq Self.reachable
    /\ Update(PutBlock(Self, c))
    /\ UNCHANGED <<write, tree>>

\* block_link.
BlockLink(i) ==
    /\ Running
    /\ i \in Handles(Self) \ {0}
    /\ write' = write \cup {Data(Self, i)}
    /\ Update(MarkReachable(Self, Data(Self, i)))
    /\ UNCHANGED tree

-----------------------------------------------------------------------------

Next ==
    \/ Restart
    \/ \E ok \in BOOLEAN : Flush(ok)
    \/ \E a \in Actors, params \in Hashed \cup {None} : StartMessage(a, params)
    \/ \E a \in Actors, readOnly \in BOOLEAN, i \in 0 .. MaxBlocks : Send(a, readOnly, i)
    \/ \E revert \in BOOLEAN, i \in 0 .. MaxBlocks : Return(revert, i)
    \/ Abort
    \/ ExitMissing
    \/ Root
    \/ \E c \in Hashed : SetRoot(c) \/ BlockOpen(c) \/ BlockCreate(c)
    \/ \E i \in 1 .. MaxBlocks : BlockLink(i)

Spec == Init /\ [][Next]_vars

-----------------------------------------------------------------------------
(* Properties. *)

\* The state of the blockstores, the state tree and the block registries.
TypeOK ==
    /\ base \subseteq Hashed
    /\ write \subseteq Hashed
    /\ tree \in Trees
    /\ frames \in Seq(Frames)
    /\ Len(frames) <= MaxDepth
    /\ \A n \in 1 .. Len(frames) : Len(frames[n].blocks) <= MaxBlocks
    /\ flushed \in Trees
    /\ broken \in BOOLEAN

\* Whatever an actor can reach, directly or through any number of links, can be
\* read: block_open never misses state.  This is across sends, returns of failed
\* calls, reverts, flushes and machines that were lost in the middle of a flush; it
\* is what makes the "missing reachable state" of block_open a fatal error.
ReachableHeld ==
    ~ broken => \A n \in 1 .. Len(frames) : \A c \in frames[n].reachable :
        Below[c] \cap Hashed \subseteq Held

\* The client's blockstore has all of the last state tree whose root a flush
\* returned: take_reachable may skip the blocks it does not find in the buffer.
FlushedComplete == \A c \in Roots(flushed) : Below[c] \subseteq base

\* take_reachable finds no CID that it rejects: block_create has refused it before.
FlushNotRejected == ~ broken /\ frames = <<>> => ~ Rejects(write, Roots(tree))

\* A flush stores nothing that is not part of the state, however much of the buffer
\* failed and reverted calls have filled.
FlushStoresOnlyState ==
    [][base' \ base \subseteq {EmptyArray} \cup UNION {Below[c] : c \in Roots(tree)}]_vars
=============================================================================
