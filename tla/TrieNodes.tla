----------------------------- MODULE TrieNodes ------------------------------
(***************************************************************************)
(* What the nodes of the HAMT and of the KAMT have in common.  A node is a *)
(* function from the set bits of its bitfield to pointers; the position of *)
(* a pointer in the vector is the number of set bits below it, so the      *)
(* vector is the function in the order of the bits.  A pointer is a bucket *)
(* of pairs, a node in memory that is not stored as it is (dirty), or a    *)
(* link: a CID and perhaps, in its cache, the node that it names.  The CID *)
(* of a block is the block: a node whose links have no caches.             *)
(***************************************************************************)
EXTENDS Integers, FiniteSets, Sequences, SequencesExt

EmptyNode == [i \in {} |-> 0]
Values(kvs) == [kind |-> "values", kvs |-> kvs]

\* A set of numbers in order.
RECURSIVE Ascending(_)
Ascending(s) == IF s = {} THEN << >>
                ELSE LET least == CHOOSE n \in s : \A m \in s : n <= m
                     IN  <<least>> \o Ascending(s \ {least})

\* insert_child, insert_child_dirty, insert_child_link, and the assignments
\* to a child.
PutChild(node, i, p) == [j \in DOMAIN node \cup {i} |-> IF j = i THEN p ELSE node[j]]
RmChild(node, i) == [j \in DOMAIN node \ {i} |-> node[j]]

\* The pointers in the order of the vector, from index_for_bit_pos(i) on.
PointersFrom(node, i) ==
    LET bits == Ascending({j \in DOMAIN node : j >= i})
    IN  [n \in DOMAIN bits |-> node[bits[n]]]

\* A child is read through the cache of its link, or loaded.
Child(p) == IF p.kind = "dirty" THEN p.node
            ELSE IF p.cache # {} THEN CHOOSE n \in p.cache : TRUE ELSE p.cid

Find(kvs, k) == {n \in DOMAIN kvs : kvs[n][1] = k}

\* A bucket is kept in the order of its keys.
Inserted(kvs, kv) ==
    SelectSeq(kvs, LAMBDA p : ~(p[1] > kv[1])) \o <<kv>> \o SelectSeq(kvs, LAMBDA p : p[1] > kv[1])

\* The pairs of the buckets of a node, in one bucket.
Collected(node) ==
    LET ps == PointersFrom(node, 0)
    IN  SortSeq(FlattenSeq([n \in DOMAIN ps |-> IF ps[n].kind = "values" THEN ps[n].kvs ELSE << >>]),
                LAMBDA p, q : p[1] < q[1])

\* A mutation: a full bucket is not made.
CollapsesTooLate(node, width) ==
    /\ \A i \in DOMAIN node : node[i].kind = "values"
    /\ \/ Cardinality(DOMAIN node) = 1
       \/ Cardinality(DOMAIN node) \in 2..width /\ Len(Collected(node)) < width

\* Pointer::clean moves the pairs of a child up when they fit in a bucket.
Collapses(node, width) ==
    /\ \A i \in DOMAIN node : node[i].kind = "values"
    /\ \/ Cardinality(DOMAIN node) = 1
       \/ /\ Cardinality(DOMAIN node) \in 2..width
          /\ Len(Collected(node)) <= width

\* The checks of Node::load on the buckets of a block.
BucketsLoadable(block, depth, conf) ==
    /\ Cardinality(DOMAIN block) <= 2^conf.bit_width
    /\ DOMAIN block = {} => depth = 0
    /\ \A i \in DOMAIN block : block[i].kind = "values" =>
          /\ depth >= conf.min_data_depth
          /\ Len(block[i].kvs) \in 1..conf.max_array_width
          /\ \A n \in 1..(Len(block[i].kvs) - 1) : block[i].kvs[n][1] < block[i].kvs[n + 1][1]

\* Iterator::next of the two iterators, which keep a stack of what is left of
\* the pointers of the nodes on the way, and what is left of the current
\* bucket.  An item is a sequence of at most one pair.
RECURSIVE NextItem(_)
NextItem(it) ==
    IF it.current # << >>
      THEN [item |-> <<Head(it.current)>>, it |-> [it EXCEPT !.current = Tail(@)]]
    ELSE IF it.stack = << >> THEN [item |-> << >>, it |-> it]
    ELSE IF Last(it.stack) = << >> THEN NextItem([it EXCEPT !.stack = Front(@)])
    ELSE LET p == Head(Last(it.stack))
             rest == Append(Front(it.stack), Tail(Last(it.stack)))
         IN  IF p.kind = "values" THEN NextItem([stack |-> rest, current |-> p.kvs])
             ELSE NextItem([it EXCEPT !.stack = Append(rest, PointersFrom(Child(p), 0))])

\* Up to max items of an iterator, and the iterator after them.
RECURSIVE TakeItems(_, _)
TakeItems(it, max) ==
    LET next == NextItem(it) IN
    IF max = 0 \/ next.item = << >> THEN [items |-> << >>, it |-> it]
    ELSE LET rest == TakeItems(next.it, max - 1)
         IN  [rest EXCEPT !.items = next.item \o @]
=============================================================================
