----------------------------- MODULE MCSyscalls ------------------------------
(* Small instances of Syscalls. *)
EXTENDS Syscalls

Cost(flat, scale) == [flat |-> flat, scale |-> scale]

MCPrices ==
    [host_call_cost |-> 1,
     memory_fill_base_cost |-> 0, memory_fill_per_byte_cost |-> 1,
     sig_cost |-> [t \in {"bls"} |-> Cost(16, 2)],
     bls_pairing_cost |-> 8, bls_hashing_cost |-> Cost(0, 2), secp256k1_recover_cost |-> 9,
     hashing_cost |-> [h \in {"blake2b256"} |-> Cost(0, 2)],
     compute_unsealed_sector_cid_base |-> 12, verify_seal_base |-> 6, verify_replica_update |-> 9,
     verify_consensus_fault |-> 11,
     verify_aggregate_seal_per |-> [t \in {"drg32", "drg64"} |-> IF t = "drg32" THEN 4 ELSE 3],
     verify_aggregate_seal_steps |->
        [t \in {"drg32", "drg64"} |-> <<[start |-> 2, cost |-> 3], [start |-> 3, cost |-> 5]>>],
     verify_post_lookup |-> [t \in {"w512", "w32"} |-> IF t = "w512" THEN Cost(3, 2) ELSE Cost(4, 5)],
     lookback_cost |-> Cost(5, 2), network_context |-> 2, message_context |-> 2,
     block_memory_retention_minimum |-> Cost(0, 10),
     ipld_link_checked |-> 3, ipld_link_tracked |-> 3, ipld_cbor_scan_per_field |-> 1,
     block_open |-> Cost(5, 1), block_allocate |-> Cost(0, 2), block_memcpy |-> Cost(0, 1),
     block_persist_compute |-> 4, block_persist_storage |-> Cost(2, 3),
     builtin_actor_manifest_lookup |-> 2, install_wasm_per_byte_cost |-> 2,
     event_per_entry |-> Cost(2, 1), utf8_validation |-> Cost(2, 1)]

\* Inside, up to the end of the memory, one past it, and as long as can be.
MCBufs == {<<1, 3>>, <<MemLen - 2, 2>>, <<MemLen - 2, 3>>, <<1, Word - 1>>}
MCOffs == {0, MemLen - 1, Word - 1}
MCRets == {0, MemLen - 1}
MCSizes == {0, 3}
MCEpochs == {0 - MaxGas, 0, Epoch - 1, Epoch, Epoch + 1, MaxGas}
MCHeaders ==
    {[flags |-> TRUE, codec |-> TRUE, key_len |-> k, val_len |-> 1] : k \in 1 .. 2}
    \cup {[flags |-> FALSE, codec |-> TRUE, key_len |-> 1, val_len |-> 1],
          [flags |-> TRUE, codec |-> FALSE, key_len |-> MAX_KEY_LEN + 1, val_len |-> Word - 1]}
MCPostOf == [s \in {"s512", "s32"} |-> IF s = "s512" THEN "w512" ELSE "w32"]
MCGases == {9, 35, MaxGas}
=============================================================================
