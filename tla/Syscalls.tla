------------------------------ MODULE Syscalls -------------------------------
(***************************************************************************)
(* An actor that makes syscalls (syscalls/*.rs): what each does with its   *)
(* arguments, which point into the actor's memory, before and after it     *)
(* calls the kernel.  Every syscall is one action, since the actor waits   *)
(* for it; the order of its steps shows in the record of the call.         *)
(***************************************************************************)
EXTENDS KernelOps

CONSTANTS
    Gases,        \* gas that may be available to a call
    Bufs,         \* buffers that actors pass: pairs of an offset and a length
    Offs,         \* offsets that actors pass for what has a fixed length
    Rets,         \* offsets for the return value
    Sizes,        \* sizes of blocks and of code
    Epochs,       \* epochs that actors ask for
    ADDRESS_LEN,  \* of addresses of class 2, and delegated ones
    BLS_SIG_LEN,
    BLS_PUB_LEN,
    SECP_SIG_LEN,
    SECP_PUB_LEN,
    DIGEST_LEN,
    EVENT_SIZE,
    Headers,      \* headers of event entries
    PieceSizes,   \* sizes of pieces
    Posts         \* types of window proofs

VARIABLES
    blocks,       \* the sizes of the blocks of the kernel's registry
    last          \* the call that was made last, until the actor runs again

vars == <<blocks, last>>

NoCall == [call |-> "none"]
UpTo(n, S) == UNION {[1 .. m -> S] : m \in 0 .. n}

Init ==
    /\ blocks = << >>
    /\ last = NoCall

\* The cells that an actor gave a call to write to.
Given(outs, ret, ret_len) == UNION {Cells(o[1], o[2]) : o \in outs} \cup Cells(ret, ret_len)

\* A call takes its steps, up to the first that fails.
Perform(name, given, steps, gas) ==
    LET call == Run(steps, gas)
        new == SelectSeq(call.kept, LAMBDA k : k[1] = "block")
    IN  /\ last' = [call |-> name, given |-> given, err |-> call.err, outside |-> call.outside,
                    paid |-> call.t.used, trail |-> call.trail, written |-> call.written,
                    kept |-> call.kept, notes |-> call.notes]
        /\ blocks' = blocks \o [n \in DOMAIN new |-> new[n][2]]

\* impl_syscall: with a value to return, the space for it is checked before
\* the call, and it is written when the call succeeds.
Syscall(name, ret_len, outs, steps) ==
    \E gas \in Gases, ret \in (IF ret_len = 0 THEN {0} ELSE Rets) :
        Perform(name, Given(outs, ret, ret_len),
                <<Pay(Prices.host_call_cost), Within(ret <= MemLen /\ MemLen - ret >= ret_len)>>
                \o steps \o <<Write(ret, ret_len)>>, gas)

Errors == {"none", "IllegalArgument", "IllegalOperation", "NotFound", "ReadOnly", "Forbidden",
           "LimitExceeded", "OutOfGas", "Fatal"}
Aborts == {"OutOfGas", "Fatal", "exit"}

\* ControlFlow: an error is returned to the actor, which goes on; an abort ends
\* the invocation, and another one starts.
Resume ==
    /\ last # NoCall
    /\ last' = NoCall
    /\ blocks' = IF last.err \in Aborts THEN << >> ELSE blocks

\* An invocation starts with an instance of the actor's code.
Instantiate ==
    /\ blocks = << >>
    /\ \E exports \in BOOLEAN, bytes \in Sizes, tables \in UpTo(1, Sizes), gas \in Gases :
          Perform("instantiate", {}, charge_for_init(exports, bytes, tables), gas)

-----------------------------------------------------------------------------
(* syscalls/crypto.rs *)

VerifySignature ==
    \E known, parses, key, panics \in BOOLEAN, sig, addr, plain \in Bufs :
        Syscall("verify_signature", 1, {},
            <<Illegal(known)>> \o try_slice(sig[1], sig[2]) \o read_address(addr[1], addr[2], parses)
            \o try_slice(plain[1], plain[2]) \o verify_signature("bls", plain[2], key, panics))

\* The sum of the lengths of the plaintexts is one of u32, and wraps.
VerifyBlsAggregate ==
    \E num \in {0, 1, 2, Word - 1}, sig, keys, plain, lens_off \in Offs :
      \E lens \in IF num > 2 THEN {<< >>} ELSE [1 .. num -> {0, 1, 2, Word - 1}] :
        LET concat == Total(lens) % Word IN
        Syscall("verify_bls_aggregate", 1, {},
            <<Illegal(num * BLS_PUB_LEN < Word)>> \o try_slice(sig, BLS_SIG_LEN)
            \o try_chunks(BLS_PUB_LEN, keys, num * BLS_PUB_LEN)
            \o try_slice(lens_off, num) \o try_slice(plain, concat)
            \o verify_bls_aggregate(lens, concat))

RecoverSecpPublicKey ==
    \E digest, sig \in Offs, recovered \in BOOLEAN :
        Syscall("recover_secp_public_key", SECP_PUB_LEN, {},
            try_slice(digest, DIGEST_LEN) \o try_slice(sig, SECP_SIG_LEN)
            \o recover_secp_public_key(recovered))

Hash ==
    \E hasher \in {"blake2b256", "unknown"}, data, digest \in Bufs :
        Syscall("hash", 1, {digest},
            try_slice(digest[1], digest[2]) \o try_slice(data[1], data[2]) \o hash(hasher, data[2])
            \o try_slice(digest[1], digest[2]) \o <<Write(digest[1], Smaller(digest[2], DIGEST_LEN))>>)

-----------------------------------------------------------------------------
(* syscalls/rand.rs, network.rs, vm.rs, gas.rs *)

GetChainRandomness ==
    \E epoch \in Epochs, answers \in BOOLEAN :
        Syscall("get_chain_randomness", DIGEST_LEN, {}, get_randomness(epoch, answers))
GetBeaconRandomness ==
    \E epoch \in Epochs, answers \in BOOLEAN :
        Syscall("get_beacon_randomness", DIGEST_LEN, {}, get_randomness(epoch, answers))

NetworkContext == \E fits \in BOOLEAN : Syscall("context", 2, {}, network_context(fits))

TipsetCid ==
    \E epoch \in Epochs, answers \in BOOLEAN, out \in Bufs :
        Syscall("tipset_cid", 1, {out},
            try_slice(out[1], out[2]) \o tipset_cid(epoch, answers) \o write_cid(out[1], out[2]))

MessageContext == \E fits \in BOOLEAN : Syscall("message_context", 2, {}, msg_context(fits))

\* A message that is not in memory is replaced by one that says so.
Exit ==
    \E system \in BOOLEAN :
        Syscall("exit", 0, {}, <<Note("exit", IF system THEN "SYS_ILLEGAL_EXIT_CODE" ELSE "code"), Check(FALSE, "exit")>>)

ChargeGas ==
    \E name \in Bufs, utf8 \in BOOLEAN, compute \in {0, 1, MaxGas} :
        Syscall("charge_gas", 0, {},
            try_slice(name[1], name[2]) \o <<Illegal(utf8), Pay(FromGas(compute))>>)

AvailableGas == Syscall("available", 1, {}, << >>)

-----------------------------------------------------------------------------
(* syscalls/debug.rs *)

Log ==
    \E actor_debugging, utf8 \in BOOLEAN, msg \in Bufs :
        Syscall("log", 0, {},
            IF ~actor_debugging THEN << >>
            ELSE try_slice(msg[1], msg[2]) \o <<Illegal(utf8), Keep("log", 0)>>)

Enabled == Syscall("enabled", 1, {}, << >>)

StoreArtifact ==
    \E name, data \in Bufs, actor_debugging, utf8, wellformed, stored \in BOOLEAN :
        Syscall("store_artifact", 0, {},
            IF ~actor_debugging THEN << >>
            ELSE try_slice(data[1], data[2]) \o try_slice(name[1], name[2])
                 \o <<Illegal(utf8)>> \o store_artifact(wellformed, stored))

-----------------------------------------------------------------------------
(* syscalls/ipld.rs *)

Ids == 0 .. (MAX_BLOCKS + 1)

BlockOpen ==
    \E cid \in Offs, parses, reachable, present \in BOOLEAN, size \in Sizes, links \in 0 .. 1 :
        Syscall("block_open", 3, {}, read_cid(cid, parses) \o block_open(blocks, reachable, present, size, links))

BlockCreate ==
    \E codec, allowed, reachable \in BOOLEAN, data \in Bufs, links \in 0 .. 1 :
        Syscall("block_create", 1, {},
            try_slice(data[1], data[2]) \o block_create(blocks, data[2], codec, links, allowed, reachable))

BlockLink ==
    \E id \in Ids, hashing, stores \in BOOLEAN, out \in Bufs :
        Syscall("block_link", 1, {out},
            try_slice(out[1], out[2]) \o block_link(blocks, id, hashing, stores) \o write_cid(out[1], out[2]))

BlockRead ==
    \E id \in Ids, offset \in {0, 1, 3, I32Max, Word - 1}, out \in Bufs :
        Syscall("block_read", 1, {out},
            try_slice(out[1], out[2]) \o block_read(blocks, id, offset, out[1], out[2]))

BlockStat == \E id \in Ids : Syscall("block_stat", 2, {}, block_stat(blocks, id))

\* The SDK's get_block: a first read into as much as was allocated, and a second
\* one into the rest if that was not enough; the allocator may reserve more
\* than was asked for.  The record has the bytes that were read, what the last
\* read returned, and the length and the capacity of the vector.
get_block(size, capacity, extra) ==
    LET remaining == read_returns(size, 0, capacity)
        more == IF remaining > 0 THEN remaining + extra ELSE 0
        left == IF remaining > 0 THEN read_returns(size, capacity, more) ELSE remaining
    IN  [read |-> Cells(0, to_read(size, 0, capacity)) \cup Cells(capacity, to_read(size, capacity, more)),
         left |-> left, size |-> capacity + more + left, capacity |-> capacity + more]

SdkGetBlock ==
    \E id \in DOMAIN blocks, capacity \in 0 .. (max_block_size + 1), extra \in 0 .. 1 :
        LET size == blocks[id] IN
        Syscall("get_block", 0, {},
            <<Pay(on_block_read(to_read(size, 0, capacity)))>>
            \o (IF size > capacity
                  THEN <<Pay(Prices.host_call_cost), Pay(on_block_read(size - capacity))>> ELSE << >>)
            \o <<Note("got", <<size, get_block(size, capacity, extra)>>)>>)

-----------------------------------------------------------------------------
(* syscalls/actor.rs, sself.rs, send.rs *)

ResolveAddress ==
    \E addr \in Bufs, parses, found \in BOOLEAN :
        Syscall("resolve_address", 1, {}, read_address(addr[1], addr[2], parses) \o resolve_address(found))

\* An actor without a delegated address leaves the buffer alone.
LookupDelegatedAddress ==
    \E out \in Bufs, found, delegated \in BOOLEAN :
        Syscall("lookup_delegated_address", 1, {out},
            try_slice(out[1], out[2]) \o lookup_delegated_address(found)
            \o (IF delegated THEN <<Check(ADDRESS_LEN <= out[2], "BufferTooSmall"), Write(out[1], ADDRESS_LEN)>>
                ELSE << >>))

GetActorCodeCid ==
    \E out \in Bufs, found \in BOOLEAN :
        Syscall("get_actor_code_cid", 1, {out},
            try_slice(out[1], out[2]) \o get_actor_code_cid(found) \o write_cid(out[1], out[2]))

NextActorAddress ==
    \E out \in Bufs :
        Syscall("next_actor_address", 1, {out},
            try_slice(out[1], out[2])
            \o <<Check(out[2] >= ADDRESS_LEN, "BufferTooSmall"), Keep("address", 0), Write(out[1], ADDRESS_LEN)>>)

CreateActor ==
    \E typ \in Offs, addr \in Bufs, cid, parses \in BOOLEAN, err \in Errors :
        Syscall("create_actor", 0, {},
            read_cid(typ, cid) \o (IF addr[2] > 0 THEN read_address(addr[1], addr[2], parses) ELSE << >>)
            \o Outcome(err) \o <<Keep("actor", 0)>>)

\* A successful upgrade never returns.
UpgradeActor ==
    \E cid \in Offs, parses \in BOOLEAN, err \in Errors \cup {"exit"} :
        Syscall("upgrade_actor", 2, {}, read_cid(cid, parses) \o Outcome(err))

GetBuiltinActorType ==
    \E cid \in Offs, parses \in BOOLEAN :
        Syscall("get_builtin_actor_type", 1, {}, read_cid(cid, parses) \o get_builtin_actor_type)

GetCodeCidForType ==
    \E out \in Bufs, known \in BOOLEAN :
        Syscall("get_code_cid_for_type", 1, {out},
            try_slice(out[1], out[2]) \o get_code_cid_for_type(known) \o write_cid(out[1], out[2]))

InstallActor ==
    \E typ \in Offs, parses, compiles \in BOOLEAN, size \in Sizes :
        Syscall("install_actor", 0, {}, read_cid(typ, parses) \o install_actor(compiles, size))

BalanceOf ==
    \E found, fits \in BOOLEAN :
        Syscall("balance_of", 1, {}, balance_of(found) \o <<Check(fits, "Fatal")>>)

Root ==
    \E out \in Bufs, exists \in BOOLEAN :
        Syscall("root", 1, {out}, try_slice(out[1], out[2]) \o root(exists) \o write_cid(out[1], out[2]))

SetRoot ==
    \E cid \in Offs, parses \in BOOLEAN, err \in Errors :
        Syscall("set_root", 0, {}, read_cid(cid, parses) \o Outcome(err) \o <<Keep("root", 0)>>)

CurrentBalance ==
    \E fits \in BOOLEAN : Syscall("current_balance", 1, {}, current_balance \o <<Check(fits, "Fatal")>>)

SelfDestruct == \E err \in Errors : Syscall("self_destruct", 0, {}, Outcome(err) \o <<Keep("deleted", 0)>>)

Send ==
    \E to \in Bufs, parses, flags \in BOOLEAN, err \in Errors :
        Syscall("send", 3, {}, read_address(to[1], to[2], parses) \o <<Illegal(flags)>> \o Outcome(err))

-----------------------------------------------------------------------------
(* syscalls/event.rs *)

EmitEvent ==
    \E read_only \in BOOLEAN, num \in {0, 1, 2, MAX_NR_ENTRIES + 1, Word - 1}, event \in Offs,
       key, val \in Bufs, keys \in {"ascii", "wide", "invalid"} :
      \E headers \in IF num <= MAX_NR_ENTRIES THEN [1 .. num -> Headers]
                     ELSE {[n \in 1 .. num |-> CHOOSE h \in Headers : TRUE]} :
        /\ keys = "wide" => key[2] > 1
        /\ Syscall("emit_event", 0, {},
             <<Illegal(num * EVENT_SIZE < Word)>> \o try_slice(event, num * EVENT_SIZE)
             \o try_slice(key[1], key[2]) \o try_slice(val[1], val[2])
             \o emit_event(read_only, headers, keys, key[2], val[2]))

-----------------------------------------------------------------------------
(* syscalls/filecoin.rs *)

ComputeUnsealedSectorCid ==
    \E fails \in {"type", "parse", "commitments", "compute", "none"}, info, out \in Bufs,
       sizes \in UpTo(3, PieceSizes) :
        Syscall("compute_unsealed_sector_cid", 1, {out},
            <<Illegal(fails # "type")>> \o read_cbor(info[1], info[2], fails # "parse") \o try_slice(out[1], out[2])
            \o compute_unsealed_sector_cid(sizes, fails # "commitments", fails # "compute")
            \o write_cid(out[1], out[2]))

VerifyPost ==
    \E info \in Bufs, parses, commitments, verifies \in BOOLEAN,
       types \in UpTo(2, Posts), seals \in UpTo(2, DOMAIN PostOf \cup {"invalid"}) :
        Syscall("verify_post", 1, {},
            read_cbor(info[1], info[2], parses) \o verify_post(types, seals, commitments, verifies))

VerifyConsensusFault ==
    \E h1, h2, extra \in Bufs, answers, by_id \in BOOLEAN :
        Syscall("verify_consensus_fault", 3, {},
            try_slice(h1[1], h1[2]) \o try_slice(h2[1], h2[2]) \o try_slice(extra[1], extra[2])
            \o verify_consensus_fault(answers) \o <<Check(by_id, "Fatal")>>)

VerifyAggregateSeals ==
    \E agg \in Bufs, parses, valid, verifies \in BOOLEAN, num \in 0 .. 3,
       type \in DOMAIN Prices.verify_aggregate_seal_per \cup {"other"} :
        Syscall("verify_aggregate_seals", 1, {},
            read_cbor(agg[1], agg[2], parses) \o verify_aggregate_seals(type, num, valid, verifies))

VerifyReplicaUpdate ==
    \E info \in Bufs, parses, valid, verifies \in BOOLEAN :
        Syscall("verify_replica_update", 1, {},
            read_cbor(info[1], info[2], parses) \o verify_replica_update(valid, verifies))

BatchVerifySeals ==
    \E batch, out \in Bufs, parses \in BOOLEAN, seals \in UpTo(2, BOOLEAN) :
        Syscall("batch_verify_seals", 0, {<<out[1], Len(seals)>>},
            read_cbor(batch[1], batch[2], parses) \o try_slice(out[1], Len(seals))
            \o batch_verify_seals(seals) \o <<Write(out[1], Len(seals))>>)

TotalFilCircSupply ==
    \E fits \in BOOLEAN : Syscall("total_fil_circ_supply", 1, {}, <<Check(fits, "Fatal")>>)

-----------------------------------------------------------------------------
Calls ==
    \/ Instantiate
    \/ VerifySignature \/ VerifyBlsAggregate \/ RecoverSecpPublicKey \/ Hash
    \/ GetChainRandomness \/ GetBeaconRandomness \/ NetworkContext \/ TipsetCid
    \/ MessageContext \/ Exit \/ ChargeGas \/ AvailableGas
    \/ Log \/ Enabled \/ StoreArtifact
    \/ BlockOpen \/ BlockCreate \/ BlockLink \/ BlockRead \/ BlockStat \/ SdkGetBlock
    \/ ResolveAddress \/ LookupDelegatedAddress \/ GetActorCodeCid \/ NextActorAddress
    \/ CreateActor \/ UpgradeActor \/ GetBuiltinActorType \/ GetCodeCidForType
    \/ InstallActor \/ BalanceOf \/ Root \/ SetRoot \/ CurrentBalance \/ SelfDestruct
    \/ Send \/ EmitEvent
    \/ ComputeUnsealedSectorCid \/ VerifyPost \/ VerifyConsensusFault
    \/ VerifyAggregateSeals \/ VerifyReplicaUpdate \/ BatchVerifySeals \/ TotalFilCircSupply

Next == Resume \/ (last = NoCall /\ Calls)

Spec == Init /\ [][Next]_vars

-----------------------------------------------------------------------------
(* Properties. *)

Made == last # NoCall
Notes(what) == {n[2] : n \in {last.notes[m] : m \in {k \in DOMAIN last.notes : last.notes[k][1] = what}}}

\* The calls that learn only from their work what it costs: install_actor
\* compiles the code and block_open reads the block before the charge for its
\* size, so that one that runs out of gas there has had the work for nothing.
ChargedAfterwards == {"install_actor", "block_open"}

\* A call that succeeds has paid at least what the work done for it is worth.
\* In all calls but the two above this is so at every moment, also of those
\* that fail: the charges come first, and cover every argument that the work
\* depends on.  In all calls a block is put in the registry only when the least
\* price of keeping it has been paid.
WorkIsPaid ==
    Made => \A p \in last.trail :
        /\ p.held <= p.paid
        /\ last.call \notin ChargedAfterwards => p.worth <= p.paid
        /\ last.err = "none" => p.worth <= last.paid

\* A call that fails has written nothing to the actor's memory and has left
\* nothing in the kernel, except that block_link, root and the like learn that
\* the buffer is too small after the kernel has answered; one with an argument
\* outside of the memory has cost no more than a call of the host.  A call that
\* succeeds writes only to the buffers that the actor gave it.
FailedCallsLeaveNothing ==
    Made => /\ last.written \subseteq (last.given \cap Cells(0, MemLen))
            /\ last.err # "none" =>
                  /\ last.written = {}
                  /\ last.kept # << >> =>
                        last.err = "BufferTooSmall" /\ \A n \in DOMAIN last.kept : last.kept[n][1] \in {"stored", "reachable"}
            /\ last.outside => last.paid <= Prices.host_call_cost /\ last.kept = << >>

\* The messages of an aggregate signature and the keys and the values of an
\* event are given as lengths of parts of one buffer.  What the kernel accepts
\* is a partition: every part ends within the buffer, also when the sum of the
\* lengths has wrapped in the syscall, and every byte is in exactly one part.
BuffersPartitioned ==
    Made => \A split \in Notes("split") :
        /\ \A n \in DOMAIN split[2] : split[2][n][2] <= split[1]
        /\ \A byte \in 0 .. (split[1] - 1) :
              Cardinality({n \in DOMAIN split[2] : split[2][n][1] <= byte /\ byte < split[2][n][2]}) = 1

\* The pieces of a sector, with the padding between them: the pieces of the
\* actor are there in their order, and the sector is full to a multiple of its
\* size, whatever the sizes.  Where they are powers of two, every piece starts
\* at a multiple of its size; with others, which nothing refuses (no caller of
\* PaddedPieceSize::validate), it may not.
PiecesAligned ==
    Made => \A p \in Notes("pieces") :
        LET sizes == [n \in DOMAIN p[2] |-> p[2][n].size]
            real == SelectSeq(p[2], LAMBDA x : ~x.zero)
        IN  /\ [n \in DOMAIN real |-> real[n].size] = p[1]
            /\ Total(sizes) % Sector = 0 /\ Total(sizes) > 0
            /\ Range(p[1]) \subseteq Range(Powers) =>
                  \A n \in DOMAIN sizes : Sums(sizes)[n] % sizes[n] = 0

\* The client is never asked for randomness or a tipset of an epoch that is yet
\* to come.  For randomness there is no check: the lookback is cast to u64, and
\* no limit of gas is enough for the price of a negative one.
FutureNotAsked == Made => \A epoch \in Notes("asked") : epoch <= Epoch

\* Whatever the actor allocated first, the SDK's get_block ends with the whole
\* block: all of its bytes were read, the vector has its length, and none of
\* its assertions fails.
BlocksReadWhole ==
    Made => \A got \in Notes("got") :
        /\ got[2].read = Cells(0, got[1])
        /\ got[2].size = got[1]
        /\ got[2].left <= 0 /\ got[2].size <= got[2].capacity
=============================================================================
