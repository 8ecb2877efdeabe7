------------------------------ MODULE PriceList ------------------------------
(***************************************************************************)
(* What the syscalls cost (gas/price_list.rs).  A charge is the sum of its *)
(* compute gas and its other gas.  Gas is in milligas, in the saturating   *)
(* arithmetic of GasTracker, and the prices themselves are a parameter.    *)
(***************************************************************************)
EXTENDS GasTracker, SequencesExt

CONSTANTS
    Prices,                \* PriceList, with the WasmGasPrices
    TABLE_ELEMENT_SIZE,
    EVENT_OVERHEAD,
    EVENT_ENTRY_OVERHEAD,
    Drg32,                 \* RegisteredSealProof::StackedDRG32GiBV1P1
    Window512              \* RegisteredPoStProof::StackedDRGWindow512MiBV1P1

\* Mul for Gas; ScalingCost::apply; an i64 as u64.
Mul(gas, n) == Smaller(gas * n, U64Max)
Apply(cost, n) == SatAdd(cost.flat, Mul(cost.scale, n))
AsU64(n) == n % (U64Max + 1)

\* StepCost::lookup: the cost of the last step at or before x, or zero.
Lookup(steps, x) ==
    LET before == SelectSeq(steps, LAMBDA s : s.start <= x)
    IN  IF before = << >> THEN 0 ELSE Last(before).cost

\* Tables that are asked for a proof type they may not have.
PerType(table, type, default) == table[IF type \in DOMAIN table THEN type ELSE default]

\* GasCharge::new and total.
GasCharge(compute, other) == SatAdd(compute, other)

-----------------------------------------------------------------------------
(* Wasm memory and tables. *)

init_memory_gas(bytes) ==
    SatAdd(Prices.memory_fill_base_cost, Mul(Prices.memory_fill_per_byte_cost, bytes))
init_table_gas(elements) ==
    SatAdd(Prices.memory_fill_base_cost,
           Mul(Mul(Prices.memory_fill_per_byte_cost, elements), TABLE_ELEMENT_SIZE))

-----------------------------------------------------------------------------
(* Cryptography. *)

on_verify_signature(type, len) == GasCharge(Apply(Prices.sig_cost[type], len), 0)

on_verify_aggregate_signature(num_sigs, len) ==
    GasCharge(SatAdd(Mul(Prices.bls_pairing_cost, num_sigs + 1), Apply(Prices.bls_hashing_cost, len)), 0)

on_recover_secp_public_key == GasCharge(Prices.secp256k1_recover_cost, 0)
on_hashing(hasher, len) == GasCharge(Apply(Prices.hashing_cost[hasher], len), 0)

-----------------------------------------------------------------------------
(* Proofs. *)

on_compute_unsealed_sector_cid == GasCharge(Prices.compute_unsealed_sector_cid_base, 0)
on_verify_seal == GasCharge(Prices.verify_seal_base, 0)
on_verify_replica_update == GasCharge(Prices.verify_replica_update, 0)
on_verify_consensus_fault == GasCharge(0, Prices.verify_consensus_fault)

on_verify_aggregate_seals(type, num) ==
    GasCharge(SatAdd(Mul(PerType(Prices.verify_aggregate_seal_per, type, Drg32), num),
                     Lookup(PerType(Prices.verify_aggregate_seal_steps, type, Drg32), num)), 0)

\* By the type of the first proof.
on_verify_post(types, sectors) ==
    LET type == IF types = << >> THEN Window512 ELSE Head(types)
    IN  GasCharge(Apply(PerType(Prices.verify_post_lookup, type, Window512), sectors), 0)

-----------------------------------------------------------------------------
(* The chain. *)

\* A mutation: an epoch ahead is as far as one behind.
on_get_randomness_near(lookback) ==
    GasCharge(0, Apply(Prices.lookback_cost, IF lookback < 0 THEN 0 - lookback ELSE lookback))

on_get_randomness(lookback) == GasCharge(0, Apply(Prices.lookback_cost, AsU64(lookback)))
on_tipset_cid(lookback) == GasCharge(0, Apply(Prices.lookback_cost, AsU64(lookback)))

on_network_context == GasCharge(Prices.network_context, 0)
on_message_context == GasCharge(Prices.message_context, 0)

-----------------------------------------------------------------------------
(* Blocks. *)

retention_min(size) == Apply(Prices.block_memory_retention_minimum, size)

on_block_open_base == GasCharge(Prices.ipld_link_checked, Prices.block_open.flat)

on_block_open(size, links) ==
    LET compute == Mul(Prices.ipld_link_tracked, links)
        open == SatAdd(Mul(Prices.block_open.scale, size),
                       SatAdd(Apply(Prices.block_allocate, size), Apply(Prices.block_memcpy, size)))
    IN  GasCharge(compute, SatAdd(open, SatSub(retention_min(size), SatAdd(compute, open))))

on_block_read(size) == GasCharge(Apply(Prices.block_memcpy, size), 0)

create_compute(size, links) ==
    SatAdd(SatAdd(Apply(Prices.block_memcpy, size), Apply(Prices.block_allocate, size)),
           Mul(Prices.ipld_link_checked, links))

\* A mutation: nothing is charged for keeping the block.
on_block_create_only(size, links) == GasCharge(create_compute(size, links), 0)

on_block_create(size, links) ==
    LET compute == create_compute(size, links)
    IN  GasCharge(compute, SatSub(retention_min(size), compute))

on_block_link(hasher, size) ==
    LET copy == SatAdd(Apply(Prices.block_memcpy, size), Apply(Prices.block_allocate, size))
        hashing == Apply(Prices.hashing_cost[hasher], size)
    IN  GasCharge(SatAdd(SatAdd(copy, hashing), Prices.ipld_link_tracked),
                  SatAdd(Prices.block_persist_compute, Apply(Prices.block_persist_storage, size)))

on_block_stat == GasCharge(0, 0)

-----------------------------------------------------------------------------
(* Actors. *)

on_self_balance == GasCharge(0, 0)
on_balance_of == GasCharge(0, 0)
on_resolve_address == GasCharge(0, 0)
on_lookup_delegated_address == GasCharge(0, 0)
on_get_actor_code_cid == GasCharge(0, 0)
on_get_builtin_actor_type == GasCharge(Prices.builtin_actor_manifest_lookup, 0)
on_get_code_cid_for_type == GasCharge(Prices.builtin_actor_manifest_lookup, 0)
on_install_actor(size) == GasCharge(Mul(Prices.install_wasm_per_byte_cost, size), 0)
on_get_root == GasCharge(Prices.ipld_link_tracked, 0)

\* The size of an event is estimated; it is copied three times and hashed once.
on_actor_event(entries, keysize, valuesize) ==
    LET size == SatAdd(SatAdd(SatAdd(EVENT_OVERHEAD, Mul(EVENT_ENTRY_OVERHEAD, entries)), keysize), valuesize)
        mem == SatAdd(Apply(Prices.block_memcpy, size), Apply(Prices.block_allocate, size))
    IN  GasCharge(SatAdd(SatAdd(Mul(mem, 2), Apply(Prices.event_per_entry, entries)),
                         Apply(Prices.utf8_validation, keysize)),
                  SatAdd(Apply(Prices.hashing_cost["blake2b256"], size), mem))
=============================================================================
