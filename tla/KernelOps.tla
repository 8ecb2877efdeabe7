------------------------------ MODULE KernelOps ------------------------------
(***************************************************************************)
(* The operations of the kernel (kernel/default.rs, kernel/filecoin.rs) as *)
(* sequences of steps.  What the state tree, the client or a library       *)
(* answers is a parameter.  The operations that call other actors or       *)
(* change actors are modelled in CallManager; here they only succeed or    *)
(* fail.                                                                   *)
(***************************************************************************)
EXTENDS ActorMemory

CONSTANTS
    Epoch,                 \* the epoch of the machine
    I32Max,
    max_block_size,
    MAX_BLOCKS,
    MAX_NR_ENTRIES,
    MAX_KEY_LEN,
    MAX_TOTAL_VALUES_LEN,
    U64Pieces,             \* the number of u64 values, for the sizes of pieces
    Sector,                \* the size of a sector
    PostOf                 \* registered_window_post_proof, of the valid seal proofs

Illegal(ok) == Check(ok, "IllegalArgument")
Outcome(err) == <<Check(err = "none", err)>>

-----------------------------------------------------------------------------
(* Cryptography. *)

verify_signature(type, len, key_address, panics) ==
    <<Pay(on_verify_signature(type, len)), Illegal(key_address),
      Work(Apply(Prices.sig_cost[type], len)), Illegal(~panics)>>

RECURSIVE Total(_)
Total(lens) == IF lens = << >> THEN 0 ELSE Head(lens) + Total(Tail(lens))

\* The running sums of a sequence of lengths, from zero on.
Sums(lens) == [n \in 1 .. (Len(lens) + 1) |-> Total(SubSeq(lens, 1, n - 1))]

\* The ranges of a buffer that parts of these lengths are, one after the other.
Ranges(lens) == LET sums == Sums(lens) IN [n \in DOMAIN lens |-> <<sums[n], sums[n + 1]>>]

\* The parts fill the buffer.
fill(lens, len) == Total(lens) = len

\* A mutation: the caller is trusted to have summed up the lengths.
verify_bls_aggregate_trusting(lens, concat) ==
    <<Pay(on_verify_aggregate_signature(Len(lens), concat)),
      Note("split", <<concat, Ranges(lens)>>)>>

verify_bls_aggregate(lens, concat) ==
    <<Pay(on_verify_aggregate_signature(Len(lens), concat)),
      Illegal(\A n \in DOMAIN lens : Ranges(lens)[n][2] <= concat),
      Illegal(fill(lens, concat)),
      Note("split", <<concat, Ranges(lens)>>),
      Work(Mul(Prices.bls_pairing_cost, Len(lens) + 1) + Apply(Prices.bls_hashing_cost, Total(lens)))>>

recover_secp_public_key(recovered) ==
    <<Pay(on_recover_secp_public_key), Work(Prices.secp256k1_recover_cost), Illegal(recovered)>>

hash(hasher, len) ==
    IF hasher \notin DOMAIN Prices.hashing_cost THEN <<Illegal(FALSE)>>
    ELSE <<Pay(on_hashing(hasher, len)), Work(Apply(Prices.hashing_cost[hasher], len))>>

-----------------------------------------------------------------------------
(* The chain and the message. *)

network_context(fits) == <<Pay(on_network_context), Check(fits, "Fatal")>>
msg_context(fits) == <<Pay(on_message_context), Check(fits, "Fatal")>>

tipset_cid(epoch, answers) ==
    <<Illegal(epoch >= 0), Illegal(epoch < Epoch), Pay(on_tipset_cid(Epoch - epoch)),
      Work(Apply(Prices.lookback_cost, Epoch - epoch)), Note("asked", epoch), Check(answers, "Fatal")>>

\* From tickets and from the beacon.  The subtraction is checked: it is one of
\* i64, whose maximum is MaxGas.
get_randomness(epoch, answers) ==
    <<Illegal(Epoch - epoch <= MaxGas), Pay(on_get_randomness(Epoch - epoch)),
      Work(Apply(Prices.lookback_cost, SatSub(Epoch, epoch))),
      Note("asked", epoch), Illegal(answers)>>

-----------------------------------------------------------------------------
(* Blocks.  A block is its size. *)

\* scan_for_reachable_links charges for every field that it visits.
scan(links, allowed) ==
    <<Pay(Mul(Prices.ipld_cbor_scan_per_field, links + 1)), Check(allowed, "NotFound")>>

put_inner(blocks, size, reachable) ==
    <<Check(Len(blocks) < MAX_BLOCKS, "LimitExceeded"), Check(reachable, "NotFound"),
      Retain(size), Keep("block", size)>>

\* The block is read before its size is known.
block_open(blocks, reachable, present, size, links) ==
    <<Pay(on_block_open_base), Check(reachable, "NotFound"), Check(present, "Fatal"),
      Work(Apply(Prices.block_open, size) + Apply(Prices.block_allocate, size)
           + Apply(Prices.block_memcpy, size))>>
    \o scan(links, TRUE)
    \o <<Pay(on_block_open(size, links)), Work(Mul(Prices.ipld_link_tracked, links))>>
    \o put_inner(blocks, size, TRUE)

block_create(blocks, size, codec, links, allowed, reachable) ==
    <<Check(size <= max_block_size, "LimitExceeded"), Check(codec, "IllegalCodec")>>
    \o scan(links, allowed)
    \o <<Pay(on_block_create(size, links)),
         Work(Apply(Prices.block_allocate, size) + Apply(Prices.block_memcpy, size)
              + Mul(Prices.ipld_link_checked, links))>>
    \o put_inner(blocks, size, reachable)

\* BlockRegistry::get, with handles from one on.
get(blocks, id) == <<Check(id \in DOMAIN blocks, "InvalidHandle")>>
SizeOf(blocks, id) == IF id \in DOMAIN blocks THEN blocks[id] ELSE 0

block_link(blocks, id, blake2b256, stores) ==
    LET size == SizeOf(blocks, id) IN
    <<Check(blake2b256, "IllegalCid")>>
    \o get(blocks, id)
    \o <<Pay(on_block_link("blake2b256", size)),
         Work(Apply(Prices.hashing_cost["blake2b256"], size) + Apply(Prices.block_persist_storage, size)),
         Check(stores, "Fatal"), Keep("stored", id)>>

\* How many bytes block_read reads, and what it returns.
to_read(size, offset, len) == Smaller(SatSub(size, offset), len)

\* A mutation: what is left of the block, and never less than nothing.
read_returns_left(size, offset, len) == SatSub(size, offset + len)

read_returns(size, offset, len) == size - (offset + len)

block_read(blocks, id, offset, out, len) ==
    LET n == to_read(SizeOf(blocks, id), offset, len) IN
    <<Illegal(offset + len <= I32Max)>>
    \o get(blocks, id)
    \o <<Pay(on_block_read(n)), Work(Apply(Prices.block_memcpy, n)), Write(out, n)>>

block_stat(blocks, id) == <<Pay(on_block_stat)>> \o get(blocks, id)

-----------------------------------------------------------------------------
(* Actors. *)

resolve_address(found) == <<Pay(on_resolve_address), Check(found, "NotFound")>>
get_actor_code_cid(found) == <<Pay(on_get_actor_code_cid), Check(found, "NotFound")>>
balance_of(found) == <<Pay(on_balance_of), Check(found, "NotFound")>>
lookup_delegated_address(found) == <<Pay(on_lookup_delegated_address), Check(found, "NotFound")>>
current_balance == <<Pay(on_self_balance)>>
root(exists) == <<Pay(on_get_root), Check(exists, "IllegalOperation"), Keep("reachable", "root")>>
get_builtin_actor_type == <<Pay(on_get_builtin_actor_type)>>
get_code_cid_for_type(known) == <<Pay(on_get_code_cid_for_type), Illegal(known)>>

\* The code is compiled before its size is known.
install_actor(compiles, size) ==
    <<Illegal(compiles), Work(Mul(Prices.install_wasm_per_byte_cost, size)), Pay(on_install_actor(size))>>

-----------------------------------------------------------------------------
(* Debugging. *)

\* The name must not be empty, too long, start with a dot or name a directory.
store_artifact(wellformed, stored) == <<Illegal(wellformed)>> \o (IF stored THEN <<Keep("artifact", 0)>> ELSE << >>)

-----------------------------------------------------------------------------
(* Events.  A header has the lengths of a key and of a value, which follow *)
(* one another in two buffers.  In keys with a wide character the offset 1 *)
(* is not a boundary of characters.                                        *)

Boundary(keys, off) == keys = "wide" => off # 1

entry_checks(headers, n, keys, key_len, val_len) ==
    LET h == headers[n]
        key == Sums([m \in DOMAIN headers |-> headers[m].key_len])
        val == Sums([m \in DOMAIN headers |-> headers[m].val_len])
    IN  <<Illegal(h.flags), Check(h.key_len <= MAX_KEY_LEN, "LimitExceeded"),
          Illegal(h.val_len <= MAX_TOTAL_VALUES_LEN),
          Illegal(key[n + 1] <= key_len /\ Boundary(keys, key[n]) /\ Boundary(keys, key[n + 1])),
          Illegal(val[n + 1] <= val_len),
          Check(h.codec, "IllegalCodec")>>

emit_event(read_only, headers, keys, key_len, val_len) ==
    LET key_lens == [n \in DOMAIN headers |-> headers[n].key_len]
        val_lens == [n \in DOMAIN headers |-> headers[n].val_len]
    IN  <<Check(~read_only, "ReadOnly"), Pay(on_actor_event(Len(headers), key_len, val_len)),
          Check(Len(headers) <= MAX_NR_ENTRIES, "LimitExceeded"),
          Check(val_len <= MAX_TOTAL_VALUES_LEN, "LimitExceeded"),
          Work(Apply(Prices.utf8_validation, key_len)), Illegal(keys # "invalid")>>
        \o FlattenSeq([n \in DOMAIN headers |-> entry_checks(headers, n, keys, key_len, val_len)])
        \o <<Illegal(fill(key_lens, key_len)), Illegal(fill(val_lens, val_len)),
             Note("split", <<key_len, Ranges(key_lens)>>), Note("split", <<val_len, Ranges(val_lens)>>),
             Work(3 * Apply(Prices.block_memcpy, key_len + val_len)
                  + Apply(Prices.hashing_cost["blake2b256"], key_len + val_len)),
             Keep("event", Len(headers))>>

-----------------------------------------------------------------------------
(* Sectors.  A piece is its size, and whether it is padding.  The sum of   *)
(* the sizes is one of u64 and wraps (where a build checks for overflow,   *)
(* it panics instead, which is caught).                                    *)

Powers == [n \in 1 .. 5 |-> 2 ^ (n - 1)]
Pad(size) == [size |-> size, zero |-> TRUE]

\* A mutation: the largest padding first.
required_padding_reversed(old_length, new_length) ==
    LET to_fill == ((0 - old_length) % U64Pieces) % new_length
    IN  Reverse(SelectSeq(Powers, LAMBDA p : (to_fill \div p) % 2 = 1))

\* The powers of two that make up what is missing to a multiple of the length.
get_required_padding(old_length, new_length) ==
    LET to_fill == ((0 - old_length) % U64Pieces) % new_length
    IN  SelectSeq(Powers, LAMBDA p : (to_fill \div p) % 2 = 1)

pad_to(acc, size) ==
    LET pads == get_required_padding(acc.sum, size)
    IN  [sum |-> (acc.sum + Total(pads)) % U64Pieces, all |-> acc.all \o [n \in DOMAIN pads |-> Pad(pads[n])]]

add_piece(acc, size) ==
    LET padded == pad_to(acc, size)
    IN  [sum |-> (padded.sum + size) % U64Pieces, all |-> Append(padded.all, [size |-> size, zero |-> FALSE])]

all_pieces(sizes) ==
    IF sizes = << >> THEN <<Pad(Sector)>>
    ELSE pad_to(FoldLeft(add_piece, [sum |-> 0, all |-> << >>], sizes), Sector).all

\* A piece of size zero makes it panic, which is caught.
compute_unsealed_sector_cid(sizes, commitments, computes) ==
    LET legal == commitments /\ \A n \in DOMAIN sizes : sizes[n] # 0 IN
    <<Pay(on_compute_unsealed_sector_cid), Illegal(legal)>>
    \o (IF legal THEN <<Note("pieces", <<sizes, all_pieces(sizes)>>)>> ELSE << >>)
    \o <<Work(Prices.compute_unsealed_sector_cid_base), Illegal(computes)>>

check_valid_proof_type(post, seal) == seal \in DOMAIN PostOf /\ PostOf[seal] = post

\* What it is worth to verify a sector, by its own type.
SectorWorth(seal) ==
    PerType(Prices.verify_post_lookup, IF seal \in DOMAIN PostOf THEN PostOf[seal] ELSE Window512, Window512).scale

\* Without any proof it panics, which is caught.
verify_post(types, seals, commitments, verifies) ==
    <<Pay(on_verify_post(types, Len(seals))), Illegal(types # << >>),
      Illegal(\A n \in DOMAIN types : types[n] = types[1]),
      Illegal(commitments /\ \A n \in DOMAIN seals, m \in DOMAIN types : check_valid_proof_type(types[m], seals[n])),
      Work(Total([n \in DOMAIN seals |-> SectorWorth(seals[n])])), Illegal(verifies)>>

verify_consensus_fault(answers) ==
    <<Pay(on_verify_consensus_fault), Work(Prices.verify_consensus_fault), Illegal(answers)>>

verify_aggregate_seals(type, num, valid, verifies) ==
    <<Pay(on_verify_aggregate_seals(type, num)), Illegal(num > 0), Illegal(valid),
      Work(Mul(PerType(Prices.verify_aggregate_seal_per, type, Drg32), num)), Illegal(verifies)>>

verify_replica_update(valid, verifies) ==
    <<Pay(on_verify_replica_update), Illegal(valid), Work(Prices.verify_replica_update), Illegal(verifies)>>

\* All seals are paid for before the first is verified.  One that is invalid,
\* cannot be verified or makes the verifier panic is false in the result.
batch_verify_seals(seals) ==
    [n \in DOMAIN seals |-> Pay(on_verify_seal)]
    \o [n \in DOMAIN seals |-> Work(Prices.verify_seal_base)]

-----------------------------------------------------------------------------
(* The start of an invocation. *)

\* charge_for_init: the table, if there is one, and then the memory.
charge_for_init(exports_memory, bytes, tables) ==
    <<Check(exports_memory, "Fatal")>>
    \o [n \in DOMAIN tables |-> Pay(init_table_gas(tables[n]))]
    \o <<Pay(init_memory_gas(bytes)),
         Work(Mul(Prices.memory_fill_per_byte_cost, bytes + TABLE_ELEMENT_SIZE * Total(tables)))>>
=============================================================================
