-------------------------------- MODULE Hamt --------------------------------
(***************************************************************************)
(* The hash array mapped trie of src/ipld/hamt: a map from keys to values  *)
(* in a tree of nodes, whose blocks are in a store that addresses them by  *)
(* content.  A key is a number, for the order of keys in a bucket; its     *)
(* hash is given.                                                          *)
(***************************************************************************)
EXTENDS HashBits, TrieNodes

CONSTANTS
    Hash,       \* the hash of every key, a sequence of bytes
    Pairs,      \* the <<key, value>> that callers set
    Configs,    \* the configurations: bit_width, min_data_depth, max_array_width
    MaxRoots,   \* how many different roots are published
    MaxBlocks,  \* how many blocks the store is ever given
    MaxBefore   \* how many of them it holds, at most, when it fails

VARIABLES
    conf,         \* HamtImpl::conf
    root,         \* HamtImpl::root
    flushed_cid,  \* HamtImpl::flushed_cid, a set of at most one CID
    store,        \* the blocks of the blockstore
    dict,         \* the map that the HAMT stands for
    published     \* the roots returned by flush, each with the map of that moment

vars == <<conf, root, flushed_cid, store, dict, published>>

Keys == DOMAIN Hash

----------------------------------------------------------------------------
(* Pointers. *)

Dirty(node) == [kind |-> "dirty", node |-> node]
Link(cid, cache) == [kind |-> "link", cid |-> cid, cache |-> cache]

Length(k) == 8 * Len(Hash[k])

\* HashBits::next for the key: the bit of the node that leads to it.
Idx(k, consumed) ==
    NextBits(Hash[k], consumed, Taken(Length(k), consumed, conf.bit_width))
Consume(k, consumed) == consumed + Taken(Length(k), consumed, conf.bit_width)

----------------------------------------------------------------------------
(* Node::get_value, modify_value, rm_value: each returns the node it leaves. *)

RECURSIVE GetValue(_, _, _)
GetValue(node, consumed, k) ==
    LET i == Idx(k, consumed) IN
    IF i \notin DOMAIN node THEN [node |-> node, value |-> {}]
    ELSE IF node[i].kind = "values"
      THEN [node |-> node,
            value |-> {node[i].kvs[n][2] : n \in Find(node[i].kvs, k)}]
      ELSE LET got == GetValue(Child(node[i]), Consume(k, consumed), k) IN
           [got EXCEPT !.node =
              PutChild(node, i, IF node[i].kind = "dirty" THEN Dirty(got.node)
                                ELSE Link(node[i].cid, {got.node}))]

RECURSIVE ModifyValue(_, _, _, _, _)
ModifyValue(node, consumed, depth, kv, overwrite) ==
    LET i == Idx(kv[1], consumed)
        next == Consume(kv[1], consumed)
        Below(n, p) == ModifyValue(n, next, depth + 1, p, overwrite)
        Changed(p, old) == [node |-> PutChild(node, i, p), old |-> old, modified |-> TRUE]
        Kept(old) == [node |-> node, old |-> old, modified |-> FALSE]
    IN
    IF i \notin DOMAIN node
      THEN IF depth >= conf.min_data_depth THEN Changed(Values(<<kv>>), {})
           ELSE Changed(Dirty(Below(EmptyNode, kv).node), {})
    ELSE IF node[i].kind # "values"
      THEN LET sub == Below(Child(node[i]), kv) IN
           [sub EXCEPT !.node =
              PutChild(node, i,
                       IF sub.modified \/ node[i].kind = "dirty" THEN Dirty(sub.node)
                       ELSE Link(node[i].cid, {sub.node}))]
      ELSE LET kvs == node[i].kvs
               at == Find(kvs, kv[1])
           IN
           IF at # {}
             THEN LET n == CHOOSE n \in at : TRUE IN
                  IF ~overwrite THEN Kept({})
                  ELSE IF kvs[n][2] = kv[2] THEN Kept({kv[2]})
                  ELSE Changed(Values([kvs EXCEPT ![n] = kv]), {kvs[n][2]})
           ELSE IF Len(kvs) >= conf.max_array_width
             THEN Changed(Dirty(FoldLeft(LAMBDA n, p : Below(n, p).node,
                                         Below(EmptyNode, kv).node, kvs)), {})
             ELSE Changed(Values(Inserted(kvs, kv)), {})

\* Pointer::clean, for the child at the given depth of a pair that was
\* deleted below it: its values move up when they fit.  The empty sequence
\* stands for a child that is removed (Node::clean).
Clean(node, depth) ==
    IF node = EmptyNode /\ depth < conf.min_data_depth THEN << >>
    ELSE IF depth >= conf.min_data_depth /\ Collapses(node, conf.max_array_width)
      THEN <<Values(Collected(node))>>
      ELSE <<Dirty(node)>>

RECURSIVE RmValue(_, _, _, _)
RmValue(node, consumed, depth, k) ==
    LET i == Idx(k, consumed)
        None == [node |-> node, deleted |-> {}]
    IN
    IF i \notin DOMAIN node THEN None
    ELSE IF node[i].kind # "values"
      THEN LET sub == RmValue(Child(node[i]), Consume(k, consumed), depth + 1, k)
               cleaned == Clean(sub.node, depth)
           IN  IF sub.deleted = {}
                 THEN [None EXCEPT !.node =
                         PutChild(node, i, IF node[i].kind = "dirty" THEN Dirty(sub.node)
                                           ELSE Link(node[i].cid, {sub.node}))]
                 ELSE [sub EXCEPT !.node = IF cleaned = << >> THEN RmChild(node, i)
                                           ELSE PutChild(node, i, cleaned[1])]
      ELSE LET kvs == node[i].kvs
               at == Find(kvs, k)
           IN  IF at = {} THEN None
               ELSE [node |-> IF Len(kvs) = 1 THEN RmChild(node, i)
                              ELSE PutChild(node, i,
                                     Values(SelectSeq(kvs, LAMBDA p : p[1] # k))),
                     deleted |-> {kvs[n][2] : n \in at}]

----------------------------------------------------------------------------
(* Blocks: Node::load and Node::flush. *)

\* What is serialised of a node: links without their caches.
Block(node) == [i \in DOMAIN node |-> IF node[i].kind = "link" THEN Link(node[i].cid, {})
                                      ELSE node[i]]

\* The checks of Node::load on a block that is to be a node at this depth.
Loadable(block, depth) == block \in store /\ BucketsLoadable(block, depth, conf)

\* Node::flush, with a store that takes so many blocks and then fails.
RECURSIVE FlushNode(_, _)
FlushNode(node, room) ==
    LET FlushChild(f, i) ==
            LET sub == FlushNode(f.node[i].node, f.room)
                written == ~sub.failed /\ sub.room > 0
            IN  IF f.failed \/ f.node[i].kind # "dirty" THEN f
                ELSE [node |-> PutChild(f.node, i,
                                  IF written THEN Link(Block(sub.node), {sub.node})
                                  ELSE Dirty(sub.node)),
                      blocks |-> f.blocks \cup sub.blocks
                                 \cup (IF written THEN {Block(sub.node)} ELSE {}),
                      room |-> IF written THEN sub.room - 1 ELSE sub.room,
                      failed |-> ~written]
    IN  FoldLeft(FlushChild, [node |-> node, blocks |-> {}, room |-> room, failed |-> FALSE],
                 Ascending(DOMAIN node))

----------------------------------------------------------------------------
(* Iteration. *)

Iter == [stack |-> <<PointersFrom(root, 0)>>, current |-> << >>]

\* IterImpl::new_from: a set of at most one iterator, empty for an error.
\* When there is nothing at or behind the bit, the loop goes on with the
\* same node, until no bits are left.
RECURSIVE IterFromNode(_, _, _, _)
IterFromNode(node, consumed, stack, k) ==
    IF consumed >= Length(k) THEN {}
    ELSE LET ps == PointersFrom(node, Idx(k, consumed)) IN
         IF ps = << >> THEN IterFromNode(node, Consume(k, consumed), Append(stack, ps), k)
         ELSE IF Head(ps).kind = "values"
           THEN {[stack |-> Append(stack, Tail(ps)),
                  current |-> SubSeq(Head(ps).kvs, n, Len(Head(ps).kvs))] :
                    n \in Find(Head(ps).kvs, k)}
           ELSE IterFromNode(Child(Head(ps)), Consume(k, consumed), Append(stack, Tail(ps)), k)

IterFrom(k) == IterFromNode(root, 0, << >>, k)

\* for_each_ranged, from an iterator: what is visited, and the key after it.
ForEachRanged(it, max) ==
    LET taken == TakeItems(it, max)
    IN  [visited |-> taken.items, next |-> [n \in DOMAIN NextItem(taken.it).item |->
                                              NextItem(taken.it).item[n][1]]]

\* The caches that a full iteration leaves behind.
RECURSIVE AllCached(_)
AllCached(node) ==
    [i \in DOMAIN node |->
       CASE node[i].kind = "values" -> node[i]
         [] node[i].kind = "dirty" -> Dirty(AllCached(node[i].node))
         [] node[i].kind = "link" -> Link(node[i].cid, {AllCached(Child(node[i]))})]

----------------------------------------------------------------------------
(* The operations of HamtImpl. *)

Init == /\ conf \in Configs
        /\ root = EmptyNode
        /\ flushed_cid = {}
        /\ store = {}
        /\ dict = EmptyNode
        /\ published = {}

\* A mutation: a value that is replaced leaves flushed_cid as it is.
ModifyInPlace(kv, overwrite) ==
    LET r == ModifyValue(root, 0, 0, kv, overwrite)
    IN  /\ root' = r.node
        /\ flushed_cid' = IF r.modified /\ r.old = {} THEN {} ELSE flushed_cid
        /\ UNCHANGED <<conf, store, published>>

Modify(kv, overwrite) ==
    LET r == ModifyValue(root, 0, 0, kv, overwrite)
    IN  /\ root' = r.node
        /\ flushed_cid' = IF r.modified THEN {} ELSE flushed_cid
        /\ UNCHANGED <<conf, store, published>>

Entry(k) == IF k \in DOMAIN dict THEN {dict[k]} ELSE {}

HamtSet(kv) ==
    /\ Modify(kv, TRUE)
    /\ dict' = PutChild(dict, kv[1], kv[2])

SetIfAbsent(kv) ==
    /\ Modify(kv, FALSE)
    /\ dict' = IF kv[1] \in DOMAIN dict THEN dict ELSE PutChild(dict, kv[1], kv[2])

Delete(k) ==
    LET r == RmValue(root, 0, 0, k)
    IN  /\ root' = r.node
        /\ flushed_cid' = IF r.deleted # {} THEN {} ELSE flushed_cid
        /\ dict' = RmChild(dict, k)
        /\ UNCHANGED <<conf, store, published>>

\* get and contains_key change nothing but the caches.
Get(k) == /\ root' = GetValue(root, 0, k).node
          /\ UNCHANGED <<conf, flushed_cid, store, dict, published>>

ForEach == /\ root' = AllCached(root)
           /\ UNCHANGED <<conf, flushed_cid, store, dict, published>>

Clear == /\ root # EmptyNode
         /\ root' = EmptyNode
         /\ flushed_cid' = {}
         /\ dict' = EmptyNode
         /\ UNCHANGED <<conf, store, published>>

\* A caller that is given a root may come back to it later.
Publish(cid) ==
    /\ published' = published \cup {[cid |-> cid, dict |-> dict]}
    /\ Cardinality(published') <= MaxRoots

FlushAgain == /\ flushed_cid # {}
              /\ \A cid \in flushed_cid : Publish(cid)
              /\ UNCHANGED <<conf, root, flushed_cid, store, dict>>

\* flush, with a store that fails after so many blocks.
Flush(puts) ==
    LET f == FlushNode(root, puts)
        written == ~f.failed /\ f.room > 0
    IN  /\ flushed_cid = {}
        /\ root' = f.node
        /\ store' = store \cup f.blocks \cup (IF written THEN {Block(f.node)} ELSE {})
        /\ Cardinality(store') <= MaxBlocks
        /\ written \/ Cardinality(store) <= MaxBefore
        /\ flushed_cid' = IF written THEN {Block(f.node)} ELSE {}
        /\ IF written THEN Publish(Block(f.node)) ELSE UNCHANGED published
        /\ UNCHANGED <<conf, dict>>

\* set_root, and load_with_config, of a root that was published.
SetRoot(r) ==
    /\ Loadable(r.cid, 0)
    /\ root' = r.cid
    /\ flushed_cid' = {r.cid}
    /\ dict' = r.dict
    /\ UNCHANGED <<conf, store, published>>

Next == \/ \E kv \in Pairs : HamtSet(kv) \/ SetIfAbsent(kv)
        \/ \E k \in Keys : Delete(k) \/ Get(k)
        \/ ForEach
        \/ Clear
        \/ FlushAgain
        \/ \E puts \in 0..MaxBlocks : Flush(puts)
        \/ \E r \in published : SetRoot(r)

Spec == Init /\ [][Next]_vars

----------------------------------------------------------------------------
(* What the HAMT promises. *)

\* The tree that a map alone determines: pairs go into a bucket as soon as
\* those that share their bits fit into one, from min_data_depth on.
Digit(k, depth) ==
    LET used == Taken(Length(k), 0, depth * conf.bit_width)
    IN  BitsOf(Hash[k], used, Taken(Length(k), used, conf.bit_width))

RECURSIVE Canon(_, _)
Canon(m, depth) ==
    [i \in {Digit(k, depth) : k \in DOMAIN m} |->
       LET ks == {k \in DOMAIN m : Digit(k, depth) = i} IN
       IF depth >= conf.min_data_depth /\ Cardinality(ks) <= conf.max_array_width
         THEN LET sorted == Ascending(ks)
              IN  Values([n \in DOMAIN sorted |-> <<sorted[n], m[sorted[n]]>>])
         ELSE Dirty(Canon([k \in ks |-> m[k]], depth + 1))]

\* A tree, whether its nodes are in memory or in the store.
RECURSIVE Shape(_)
Shape(node) == [i \in DOMAIN node |-> IF node[i].kind = "values" THEN node[i]
                                      ELSE Dirty(Shape(Child(node[i])))]

RECURSIVE Listing(_)
Listing(tree) ==
    LET ps == PointersFrom(tree, 0)
    IN  FlattenSeq([n \in DOMAIN ps |-> IF ps[n].kind = "values" THEN ps[n].kvs
                                        ELSE Listing(ps[n].node)])

\* The form of the tree, and with it the CID of the root, depends on the map
\* alone and not on the insertions, deletions, splits, collapses, flushes and
\* reloads that led to it (Node::modify_value, Pointer::clean).
HamtCanonical == Shape(root) = Canon(dict, 0)

\* Every operation answers as the map would: get, set with the value it
\* replaces and whether anything changed, set_if_absent, delete, and the
\* iterators, which visit every pair once, from any key on and page by page,
\* and refuse a start key that is absent.
HamtAnswers ==
    LET all == Listing(Canon(dict, 0)) IN
    /\ \A k \in Keys : /\ GetValue(root, 0, k).value = Entry(k)
                       /\ RmValue(root, 0, 0, k).deleted = Entry(k)
    /\ \A kv \in Pairs :
          LET over == ModifyValue(root, 0, 0, kv, TRUE)
              absent == ModifyValue(root, 0, 0, kv, FALSE)
          IN  /\ over.old = Entry(kv[1])
              /\ over.modified = (Entry(kv[1]) # {kv[2]})
              /\ absent.modified = (Entry(kv[1]) = {})
    /\ TakeItems(Iter, Cardinality(Keys)).items = all
    /\ \A k \in Keys \ DOMAIN dict : IterFrom(k) = {}
    /\ \A n \in DOMAIN all : \A max \in 1..Len(all) :
          {ForEachRanged(it, max) : it \in IterFrom(all[n][1])}
             = {[visited |-> SubSeq(all, n, IF n + max - 1 > Len(all) THEN Len(all)
                                            ELSE n + max - 1),
                 next |-> IF n + max > Len(all) THEN << >> ELSE <<all[n + max][1]>>]}

\* A root and all that it links to are in the store, and pass the checks of
\* Node::load at their depth.
RECURSIVE Complete(_, _)
Complete(block, depth) ==
    /\ Loadable(block, depth)
    /\ \A i \in DOMAIN block : block[i].kind = "link" => Complete(block[i].cid, depth + 1)

\* A cache holds what its link names, and nothing that waits to be written.
RECURSIVE CachesCoherent(_)
CachesCoherent(node) ==
    \A i \in DOMAIN node :
        CASE node[i].kind = "values" -> TRUE
          [] node[i].kind = "dirty" -> CachesCoherent(node[i].node)
          [] node[i].kind = "link" -> \A n \in node[i].cache :
                                         Block(n) = node[i].cid /\ CachesCoherent(n)

\* Every root that flush has ever returned can be loaded in full, and is the
\* map as it was then, also after flushes that failed half-way; the root that
\* is remembered as flushed is that of the present map.
HamtFlushSound ==
    /\ CachesCoherent(root)
    /\ \A r \in published : Complete(r.cid, 0) /\ Shape(r.cid) = Canon(r.dict, 0)
    /\ \A cid \in flushed_cid : Complete(cid, 0) /\ cid = Block(root)
=============================================================================
