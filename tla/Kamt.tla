-------------------------------- MODULE Kamt --------------------------------
(***************************************************************************)
(* The trie of src/ipld/kamt: as the HAMT, but with keys of a fixed length *)
(* that are not hashed, and links and nodes in memory that may skip the    *)
(* levels at which all their keys agree, with an extension.  A key is a    *)
(* number and its bytes are those of the number, most significant first,   *)
(* so that the order of keys is that of their bits.                        *)
(***************************************************************************)
EXTENDS Extensions, TrieNodes

CONSTANTS
    Keys,        \* the keys, numbers
    KeyLen,      \* N, the length of a key in bytes
    Pairs,       \* the <<key, value>> that callers set
    Configs,     \* the configurations: bit_width, min_data_depth, max_array_width
    MaxRoots,    \* how many different roots are published
    MaxBlocks,   \* how many blocks the store is ever given
    MaxBefore    \* how many of them it holds, at most, when it fails

VARIABLES
    conf,         \* Kamt::conf
    root,         \* Kamt::root
    flushed_cid,  \* Kamt::flushed_cid, a set of at most one CID
    store,        \* the blocks of the blockstore
    dict,         \* the map that the KAMT stands for
    published,    \* the roots returned by flush, each with the map of that moment
    adrift        \* whether set_root has put another root under the CID that is remembered

vars == <<conf, root, flushed_cid, store, dict, published, adrift>>

Dirty(node, ext) == [kind |-> "dirty", node |-> node, ext |-> ext]
Link(cid, ext, cache) == [kind |-> "link", cid |-> cid, ext |-> ext, cache |-> cache]

\* A child whose node has been read, and perhaps its caches filled.
Reread(p, node) == IF p.kind = "dirty" THEN Dirty(node, p.ext) ELSE Link(p.cid, p.ext, {node})

----------------------------------------------------------------------------
(* Hashed keys: the identity. *)

Hashed(k) == BytesOf(k, KeyLen)
KeyBits == 8 * KeyLen

\* HashBits::next for the key.
Idx(k, consumed) == NextBits(Hashed(k), consumed, Taken(KeyBits, consumed, conf.bit_width))
Consume(consumed) == consumed + Taken(KeyBits, consumed, conf.bit_width)

\* match_extension: the bits of the extension that the key matches.
Matched(ext, k, consumed) == LongestMatch(ext, 0, Hashed(k), consumed, conf.bit_width)
Skipped(bits) == bits \div conf.bit_width

----------------------------------------------------------------------------
(* Node::get_value, modify_value, rm_value: each returns the node it leaves. *)

RECURSIVE GetValue(_, _, _)
GetValue(node, consumed, k) ==
    LET i == Idx(k, consumed)
        p == node[i]
        next == Consume(consumed)
    IN
    IF i \notin DOMAIN node THEN [node |-> node, value |-> {}]
    ELSE IF p.kind = "values"
      THEN [node |-> node, value |-> {p.kvs[n][2] : n \in Find(p.kvs, k)}]
    ELSE IF Matched(p.ext, k, next) < p.ext.length
      THEN [node |-> PutChild(node, i, Reread(p, Child(p))), value |-> {}]
      ELSE LET got == GetValue(Child(p), next + p.ext.length, k)
           IN  [got EXCEPT !.node = PutChild(node, i, Reread(p, got.node))]

\* split_extension: a node in the middle, with the former child and the new
\* pair.
SplitExtension(p, matched, kv, consumed) ==
    LET parts == SplitExt(p.ext, matched, conf.bit_width)
        midway == PutChild(EmptyNode, parts.idx, [p EXCEPT !.ext = parts.tail])
    IN  Dirty(PutChild(midway, Idx(kv[1], consumed + matched), Values(<<kv>>)), parts.head)

RECURSIVE ModifyValue(_, _, _, _, _)
ModifyValue(node, consumed, depth, kv, overwrite) ==
    LET k == kv[1]
        i == Idx(k, consumed)
        p == node[i]
        next == Consume(consumed)
        Below(n, skip, q) ==
            ModifyValue(n, next + skip, depth + 1 + Skipped(skip), q, overwrite)
        Changed(q, old) == [node |-> PutChild(node, i, q), old |-> old, modified |-> TRUE]
        Kept(old) == [node |-> node, old |-> old, modified |-> FALSE]
    IN
    IF i \notin DOMAIN node
      THEN IF conf.min_data_depth <= depth THEN Changed(Values(<<kv>>), {})
           ELSE Changed(Dirty(Below(EmptyNode, 0, kv).node, NoExt), {})
    ELSE IF p.kind # "values"
      THEN LET matched == Matched(p.ext, k, next)
               sub == Below(Child(p), matched, kv)
           IN  IF matched < p.ext.length
                 THEN Changed(SplitExtension(p, matched, kv, next), {})
                 ELSE [sub EXCEPT !.node =
                         PutChild(node, i, IF sub.modified THEN Dirty(sub.node, p.ext)
                                           ELSE Reread(p, sub.node))]
    ELSE LET at == Find(p.kvs, k)
             n == CHOOSE n \in at : TRUE
             ext == CommonExtension(Hashed(k), next, {Hashed(q[1]) : q \in ToSet(p.kvs)},
                                        conf.bit_width)
         IN
         IF at # {}
           THEN IF ~overwrite THEN Kept({})
                ELSE IF p.kvs[n][2] = kv[2] THEN Kept({kv[2]})
                ELSE Changed(Values([p.kvs EXCEPT ![n] = kv]), {p.kvs[n][2]})
         ELSE IF Len(p.kvs) >= conf.max_array_width
           THEN Changed(Dirty(FoldLeft(LAMBDA m, q : Below(m, ext.length, q).node,
                                       Below(EmptyNode, ext.length, kv).node, p.kvs), ext), {})
           ELSE Changed(Values(Inserted(p.kvs, kv)), {})

\* Pointer::clean, for a child of a node at this depth after a pair was
\* deleted below it: pairs move up when they fit in a bucket, and a node with
\* a single child makes way for it.  The empty sequence stands for a child
\* that is removed (Node::clean).
Clean(node, ext, depth) ==
    LET only == CHOOSE i \in DOMAIN node : TRUE
    IN  IF node = EmptyNode /\ depth < conf.min_data_depth THEN << >>
        ELSE IF node = EmptyNode \/ depth < conf.min_data_depth THEN <<Dirty(node, ext)>>
        ELSE IF Collapses(node, conf.max_array_width) THEN <<Values(Collected(node))>>
        ELSE IF Cardinality(DOMAIN node) = 1
          THEN <<[node[only] EXCEPT !.ext = Unsplit(ext, only, @, conf.bit_width)]>>
          ELSE <<Dirty(node, ext)>>

RECURSIVE RmValue(_, _, _, _)
RmValue(node, consumed, depth, k) ==
    LET i == Idx(k, consumed)
        p == node[i]
        next == Consume(consumed)
        None == [node |-> node, deleted |-> {}]
    IN
    IF i \notin DOMAIN node THEN None
    ELSE IF p.kind # "values"
      THEN LET matched == Matched(p.ext, k, next)
               sub == RmValue(Child(p), next + matched, depth + 1 + Skipped(matched), k)
               cleaned == Clean(sub.node, p.ext, depth)
           IN  IF matched < p.ext.length THEN None
               ELSE IF sub.deleted = {}
                 THEN [None EXCEPT !.node = PutChild(node, i, Reread(p, sub.node))]
                 ELSE [sub EXCEPT !.node = IF cleaned = << >> THEN RmChild(node, i)
                                           ELSE PutChild(node, i, cleaned[1])]
      ELSE LET at == Find(p.kvs, k)
           IN  IF at = {} THEN None
               ELSE [node |-> IF Len(p.kvs) = 1 THEN RmChild(node, i)
                              ELSE PutChild(node, i,
                                     Values(SelectSeq(p.kvs, LAMBDA q : q[1] # k))),
                     deleted |-> {p.kvs[n][2] : n \in at}]

----------------------------------------------------------------------------
(* Blocks: Node::load and Node::flush. *)

Block(node) == [i \in DOMAIN node |->
                  IF node[i].kind = "link" THEN Link(node[i].cid, node[i].ext, {}) ELSE node[i]]

\* The checks of Node::load on a block that is to be a node at this depth.
Loadable(block, depth) ==
    /\ block \in store
    /\ BucketsLoadable(block, depth, conf)
    /\ \A i \in DOMAIN block : block[i].kind = "link" =>
          /\ block[i].ext.length % conf.bit_width = 0
          /\ block[i].ext.length < KeyBits - (depth + 1) * conf.bit_width

\* Node::flush, with a store that takes so many blocks and then fails.
RECURSIVE FlushNode(_, _)
FlushNode(node, room) ==
    LET FlushChild(f, i) ==
            LET p == f.node[i]
                sub == FlushNode(p.node, f.room)
                written == ~sub.failed /\ sub.room > 0
            IN  IF f.failed \/ p.kind # "dirty" THEN f
                ELSE [node |-> PutChild(f.node, i,
                                  IF written THEN Link(Block(sub.node), p.ext, {sub.node})
                                  ELSE Dirty(sub.node, p.ext)),
                      blocks |-> f.blocks \cup sub.blocks
                                 \cup (IF written THEN {Block(sub.node)} ELSE {}),
                      room |-> IF written THEN sub.room - 1 ELSE sub.room,
                      failed |-> ~written]
    IN  FoldLeft(FlushChild, [node |-> node, blocks |-> {}, room |-> room, failed |-> FALSE],
                 Ascending(DOMAIN node))

----------------------------------------------------------------------------
(* Iteration. *)

Iter == [stack |-> <<PointersFrom(root, 0)>>, current |-> << >>]

\* Iter::new_from: a set of at most one iterator, empty for an error.
RECURSIVE IterFromNode(_, _, _, _)
IterFromNode(node, consumed, stack, k) ==
    LET ps == PointersFrom(node, Idx(k, consumed))
        p == Head(ps)
        next == Consume(consumed)
    IN
    IF consumed >= KeyBits THEN {}
    ELSE IF ps = << >> THEN IterFromNode(node, next, Append(stack, ps), k)
    ELSE IF p.kind = "values"
      THEN {[stack |-> Append(stack, Tail(ps)), current |-> SubSeq(p.kvs, n, Len(p.kvs))] :
              n \in Find(p.kvs, k)}
    ELSE IF Matched(p.ext, k, next) < p.ext.length THEN {}
      ELSE IterFromNode(Child(p), next + p.ext.length, Append(stack, Tail(ps)), k)

IterFrom(k) == IterFromNode(root, 0, << >>, k)

\* The caches that a full iteration leaves behind.
RECURSIVE AllCached(_)
AllCached(node) ==
    [i \in DOMAIN node |-> IF node[i].kind = "values" THEN node[i]
                           ELSE Reread(node[i], AllCached(Child(node[i])))]

----------------------------------------------------------------------------
(* The operations of Kamt. *)

Init == /\ conf \in Configs
        /\ root = EmptyNode
        /\ flushed_cid = {}
        /\ store = {}
        /\ dict = EmptyNode
        /\ published = {}
        /\ adrift = FALSE

Entry(k) == IF k \in DOMAIN dict THEN {dict[k]} ELSE {}

Modify(kv, overwrite) ==
    LET r == ModifyValue(root, 0, 0, kv, overwrite)
    IN  /\ root' = r.node
        /\ flushed_cid' = IF r.modified THEN {} ELSE flushed_cid
        /\ adrift' = (adrift /\ flushed_cid' # {})
        /\ UNCHANGED <<conf, store, published>>

KamtSet(kv) ==
    /\ Modify(kv, TRUE)
    /\ dict' = PutChild(dict, kv[1], kv[2])

SetIfAbsent(kv) ==
    /\ Modify(kv, FALSE)
    /\ dict' = IF kv[1] \in DOMAIN dict THEN dict ELSE PutChild(dict, kv[1], kv[2])

Delete(k) ==
    LET r == RmValue(root, 0, 0, k)
    IN  /\ root' = r.node
        /\ flushed_cid' = IF r.deleted # {} THEN {} ELSE flushed_cid
        /\ adrift' = (adrift /\ flushed_cid' # {})
        /\ dict' = RmChild(dict, k)
        /\ UNCHANGED <<conf, store, published>>

\* get and contains_key change nothing but the caches.
Get(k) == /\ root' = GetValue(root, 0, k).node
          /\ UNCHANGED <<conf, flushed_cid, store, dict, published, adrift>>

ForEach == /\ root' = AllCached(root)
           /\ UNCHANGED <<conf, flushed_cid, store, dict, published, adrift>>

Clear == /\ root # EmptyNode
         /\ root' = EmptyNode
         /\ flushed_cid' = {}
         /\ adrift' = FALSE
         /\ dict' = EmptyNode
         /\ UNCHANGED <<conf, store, published>>

\* A caller that is given a root may come back to it later.
Publish(cid) ==
    /\ published' = published \cup {[cid |-> cid, dict |-> dict]}
    /\ Cardinality(published') <= MaxRoots

\* flush returns the CID it remembers; adrift, it is one that it has returned
\* before, of another map.
FlushAgain == /\ flushed_cid # {}
              /\ \A cid \in flushed_cid : IF adrift THEN UNCHANGED published ELSE Publish(cid)
              /\ UNCHANGED <<conf, root, flushed_cid, store, dict, adrift>>

\* flush, with a store that fails after so many blocks.
Flush(puts) ==
    LET f == FlushNode(root, puts)
        written == ~f.failed /\ f.room > 0
    IN  /\ flushed_cid = {}
        /\ root' = f.node
        /\ store' = store \cup f.blocks \cup (IF written THEN {Block(f.node)} ELSE {})
        /\ Cardinality(store') <= MaxBlocks
        /\ written \/ Cardinality(store) <= MaxBefore
        /\ flushed_cid' = IF written THEN {Block(f.node)} ELSE {}
        /\ IF written THEN Publish(Block(f.node)) ELSE UNCHANGED published
        /\ UNCHANGED <<conf, dict, adrift>>

\* load_with_config of a root that was published.
Load(r) ==
    /\ Loadable(r.cid, 0)
    /\ root' = r.cid
    /\ flushed_cid' = {r.cid}
    /\ adrift' = FALSE
    /\ dict' = r.dict
    /\ UNCHANGED <<conf, store, published>>

\* set_root leaves flushed_cid as it is.
SetRoot(r) ==
    /\ Loadable(r.cid, 0)
    /\ root' = r.cid
    /\ adrift' = (flushed_cid \notin {{}, {r.cid}})
    /\ dict' = r.dict
    /\ UNCHANGED <<conf, flushed_cid, store, published>>

Next == \/ \E kv \in Pairs : KamtSet(kv) \/ SetIfAbsent(kv)
        \/ \E k \in Keys : Delete(k) \/ Get(k)
        \/ ForEach
        \/ Clear
        \/ FlushAgain
        \/ \E puts \in 0..MaxBlocks : Flush(puts)
        \/ \E r \in published : Load(r) \/ SetRoot(r)

Spec == Init /\ [][Next]_vars

----------------------------------------------------------------------------
(* What the KAMT promises. *)

\* The tree that a map alone determines: keys that agree go into a bucket as
\* soon as they fit into one, from min_data_depth on; those that do not are
\* in a node at the first level at which they differ.
Digit(k, depth) == BitsOf(Hashed(k), depth * conf.bit_width,
                          Taken(KeyBits, depth * conf.bit_width, conf.bit_width))

Agree(ks, depth) == \A j, k \in ks : Digit(j, depth) = Digit(k, depth)

RECURSIVE Canon(_, _)
Canon(m, depth) ==
    [i \in {Digit(k, depth) : k \in DOMAIN m} |->
       LET ks == {k \in DOMAIN m : Digit(k, depth) = i}
           split == CHOOSE d \in (depth + 1)..KeyBits :
                       /\ depth < conf.min_data_depth => d = depth + 1
                       /\ depth >= conf.min_data_depth => ~Agree(ks, d)
                       /\ \A e \in (depth + 1)..(d - 1) : Agree(ks, e)
           sorted == Ascending(ks)
       IN  IF depth >= conf.min_data_depth /\ Cardinality(ks) <= conf.max_array_width
             THEN Values([n \in DOMAIN sorted |-> <<sorted[n], m[sorted[n]]>>])
             ELSE Dirty(Canon([k \in ks |-> m[k]], split),
                        ExtOf(Hashed(CHOOSE k \in ks : TRUE), (depth + 1) * conf.bit_width,
                              (split - depth - 1) * conf.bit_width))]

\* A tree, whether its nodes are in memory or in the store.
RECURSIVE Shape(_)
Shape(node) == [i \in DOMAIN node |-> IF node[i].kind = "values" THEN node[i]
                                      ELSE Dirty(Shape(Child(node[i])), node[i].ext)]

\* The form of the tree, with the bytes of its extensions, depends on the map
\* alone: splitting an extension for a new key and unsplitting it when the
\* key is deleted, splits and collapses of buckets, flushes and reloads leave
\* no trace (Node::modify_value, split_extension, Pointer::clean).
KamtCanonical == Shape(root) = Canon(dict, 0)

\* Every operation answers as the map would, and the iterators visit every
\* pair once, in the order of the keys, from the beginning and from any key
\* that is present; they refuse a key that is absent.
KamtAnswers ==
    LET keys == Ascending(DOMAIN dict)
        all == [n \in DOMAIN keys |-> <<keys[n], dict[keys[n]]>>]
        Items(it) == TakeItems(it, Cardinality(Keys)).items
    IN
    /\ \A k \in Keys : /\ GetValue(root, 0, k).value = Entry(k)
                       /\ RmValue(root, 0, 0, k).deleted = Entry(k)
    /\ \A kv \in Pairs :
          LET over == ModifyValue(root, 0, 0, kv, TRUE)
              absent == ModifyValue(root, 0, 0, kv, FALSE)
          IN  /\ over.old = Entry(kv[1])
              /\ over.modified = (Entry(kv[1]) # {kv[2]})
              /\ absent.modified = (Entry(kv[1]) = {})
    /\ Items(Iter) = all
    /\ \A k \in Keys \ DOMAIN dict : IterFrom(k) = {}
    /\ \A n \in DOMAIN all :
          {Items(it) : it \in IterFrom(keys[n])} = {SubSeq(all, n, Len(all))}

\* A root and all that it links to are in the store, and pass the checks of
\* Node::load: get_value counts the nodes on the way as the depth, the others
\* count the levels that extensions skip, too.
RECURSIVE Complete(_, _, _)
Complete(block, nodes, depth) ==
    /\ Loadable(block, nodes)
    /\ Loadable(block, depth)
    /\ \A i \in DOMAIN block : block[i].kind = "link" =>
          Complete(block[i].cid, nodes + 1, depth + 1 + Skipped(block[i].ext.length))

\* A cache holds what its link names, and nothing that waits to be written.
RECURSIVE CachesCoherent(_)
CachesCoherent(node) ==
    \A i \in DOMAIN node :
        CASE node[i].kind = "values" -> TRUE
          [] node[i].kind = "dirty" -> CachesCoherent(node[i].node)
          [] node[i].kind = "link" -> \A n \in node[i].cache :
                                         Block(n) = node[i].cid /\ CachesCoherent(n)

\* Every root that flush has ever returned can be loaded in full, and is the
\* map as it was then, also after flushes that failed half-way; the root that
\* is remembered as flushed is that of the present map, except where set_root
\* was called on a KAMT that had been flushed: it leaves the CID of the old
\* root behind, until the next change, and flush returns that one.
KamtFlushSound ==
    /\ CachesCoherent(root)
    /\ \A cid \in flushed_cid : adrift <=> cid # Block(root)
    /\ \A r \in published : Complete(r.cid, 0, 0) /\ Shape(r.cid) = Canon(r.dict, 0)
=============================================================================
