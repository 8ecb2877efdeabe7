-------------------------------- MODULE Amt ---------------------------------
(***************************************************************************)
(* The array mapped trie of src/ipld/amt: a sparse array with indices that *)
(* are machine words, in a tree that grows at the root with the largest    *)
(* index ever set and shrinks when only its first child is left.           *)
(***************************************************************************)
EXTENDS TrieNodes

CONSTANTS
    Indices,       \* the indices that callers use
    Vals,          \* the values
    BitWidths,     \* the bit widths that an array may have
    WordBits,      \* the width of an index: 64 in the code
    MaxRoots,      \* how many different roots are published
    MaxBlocks,     \* how many blocks the store is ever given
    MaxBefore      \* how many of them it holds, at most, when it fails

VARIABLES
    bit_width,    \* RootImpl::bit_width
    root,         \* RootImpl: height, count and node
    flushed_cid,  \* AmtImpl::flushed_cid, a set of at most one CID
    store,        \* the blocks of the blockstore
    dict,         \* the array that the AMT stands for
    published,    \* the roots returned by flush, each with the array of that moment
    adrift        \* whether a for_each_mut has failed since the AMT was created or loaded

vars == <<bit_width, root, flushed_cid, store, dict, published, adrift>>

MAX_INDEX == 2^WordBits - 2

\* nodes_for_height: the indices below a node, saturating at the largest word.
NodesForHeight(height) ==
    IF bit_width * height >= WordBits THEN 2^WordBits - 1 ELSE 2^(bit_width * height)

----------------------------------------------------------------------------
(* Nodes: a leaf has values, any other node has links, where there are any. *)

Dirty(node) == [kind |-> "dirty", node |-> node]
Link(cid, cache) == [kind |-> "link", cid |-> cid, cache |-> cache]

NewNode(height) == [leaf |-> height = 0, at |-> EmptyNode]
IsEmpty(node) == node.at = EmptyNode
With(node, i, p) == [node EXCEPT !.at = PutChild(@, i, p)]
Without(node, i) == [node EXCEPT !.at = RmChild(@, i)]

\* The link to a node that was read, and perhaps given caches, but not changed.
Visited(p, node) == IF p.kind = "dirty" THEN Dirty(node) ELSE Link(p.cid, {node})

RECURSIVE NodeGet(_, _, _)
NodeGet(node, height, i) ==
    LET nfh == NodesForHeight(height)
        at == IF node.leaf THEN i ELSE i \div nfh
    IN  IF at \notin DOMAIN node.at THEN [node |-> node, value |-> {}]
        ELSE IF node.leaf THEN [node |-> node, value |-> {node.at[at]}]
        ELSE LET got == NodeGet(Child(node.at[at]), height - 1, i % nfh)
             IN  [got EXCEPT !.node = With(node, at, Visited(node.at[at], got.node))]

RECURSIVE NodeSet(_, _, _, _)
NodeSet(node, height, i, val) ==
    LET nfh == NodesForHeight(height)
        at == IF height = 0 THEN i ELSE i \div nfh
    IN  IF height = 0
          THEN [node |-> With(node, i, val),
                prev |-> IF i \in DOMAIN node.at THEN {node.at[i]} ELSE {}]
          ELSE LET sub == NodeSet(IF at \in DOMAIN node.at THEN Child(node.at[at])
                                  ELSE NewNode(height - 1), height - 1, i % nfh, val)
               IN  [sub EXCEPT !.node = With(node, at, Dirty(sub.node))]

RECURSIVE NodeDelete(_, _, _)
NodeDelete(node, height, i) ==
    LET nfh == NodesForHeight(height)
        at == IF node.leaf THEN i ELSE i \div nfh
    IN  IF at \notin DOMAIN node.at THEN [node |-> node, deleted |-> {}]
        ELSE IF node.leaf THEN [node |-> Without(node, i), deleted |-> {node.at[i]}]
        ELSE LET sub == NodeDelete(Child(node.at[at]), height - 1, i % nfh) IN
             [sub EXCEPT !.node =
                IF sub.deleted = {} THEN With(node, at, Visited(node.at[at], sub.node))
                ELSE IF IsEmpty(sub.node) THEN Without(node, at)
                ELSE With(node, at, Dirty(sub.node))]

\* Node::for_each_while_mut with a function that writes f.val at the indices
\* f.changes, up to f.last where it ends: by returning false or an error.
RECURSIVE NodeMutate(_, _, _, _)
NodeMutate(node, height, offset, f) ==
    LET Call(r, i) ==
            LET write == offset + i \in f.changes
                node_i == IF write THEN With(r.node, i, f.val) ELSE r.node
                ends == offset + i = f.last
            IN  [node |-> node_i,
                 mutated |-> r.mutated \/ write,
                 end |-> IF ends THEN f.end ELSE "all"]
        Descend(r, i) ==
            LET p == r.node.at[i]
                sub == NodeMutate(Child(p), height - 1, offset + i * NodesForHeight(height), f)
            IN  [node |-> With(r.node, i, IF sub.mutated /\ sub.end # "error" THEN Dirty(sub.node)
                                          ELSE Visited(p, sub.node)),
                 mutated |-> r.mutated \/ sub.mutated,
                 end |-> sub.end]
    IN  FoldLeft(LAMBDA r, i : IF r.end # "all" THEN r
                               ELSE IF node.leaf THEN Call(r, i) ELSE Descend(r, i),
                 [node |-> node, mutated |-> FALSE, end |-> "all"], Ascending(DOMAIN node.at))

----------------------------------------------------------------------------
(* AmtImpl::set and delete, as functions of the root. *)

RECURSIVE Grown(_, _)
Grown(r, i) ==
    IF i < NodesForHeight(r.height + 1) THEN r
    ELSE Grown([r EXCEPT !.height = @ + 1,
                         !.node = IF IsEmpty(@) THEN NewNode(r.height + 1)
                                  ELSE With(NewNode(r.height + 1), 0, Dirty(@))], i)

AmtWithSet(r, i, val) ==
    LET g == Grown(r, i)
        set == NodeSet(g.node, g.height, i, val)
    IN  [g EXCEPT !.node = set.node, !.count = IF set.prev = {} THEN @ + 1 ELSE @]

CanCollapse(node) == ~node.leaf /\ DOMAIN node.at = {0}

RECURSIVE Collapsed(_)
Collapsed(r) ==
    IF CanCollapse(r.node) /\ r.height > 0
      THEN Collapsed([r EXCEPT !.height = @ - 1, !.node = Child(@.at[0])])
      ELSE r

AmtWithDelete(r, i) ==
    LET del == NodeDelete(r.node, r.height, i)
        rest == [r EXCEPT !.node = del.node, !.count = IF del.deleted = {} THEN @ ELSE @ - 1]
    IN  IF i >= NodesForHeight(r.height + 1) THEN [root |-> r, deleted |-> {}]
        ELSE [root |-> IF del.deleted = {} THEN rest
                       ELSE IF IsEmpty(rest.node) THEN [rest EXCEPT !.height = 0, !.node = NewNode(0)]
                       ELSE Collapsed(rest),
              deleted |-> del.deleted]

AmtValue(r, i) == IF i >= NodesForHeight(r.height + 1) THEN {}
                  ELSE NodeGet(r.node, r.height, i).value

----------------------------------------------------------------------------
(* Blocks. *)

\* What is serialised of a node, and read again by CollapsedNode::expand: the
\* bits that are set and, in their order, links without caches, or values.
Block(node) == [node EXCEPT !.at = [i \in DOMAIN @ |-> IF node.leaf THEN @[i] ELSE Link(@[i].cid, {})]]
RootBlock(r) == [r EXCEPT !.node = Block(@)]

\* Node::flush, with a store that takes so many blocks and then fails.
RECURSIVE NodeFlush(_, _)
NodeFlush(node, room) ==
    LET FlushLink(f, i) ==
            LET sub == NodeFlush(f.node.at[i].node, f.room)
                written == ~sub.failed /\ sub.room > 0
            IN  IF f.failed \/ f.node.at[i].kind # "dirty" THEN f
                ELSE [node |-> With(f.node, i, IF written THEN Link(Block(sub.node), {sub.node})
                                               ELSE Dirty(sub.node)),
                      blocks |-> f.blocks \cup sub.blocks
                                 \cup (IF written THEN {Block(sub.node)} ELSE {}),
                      room |-> IF written THEN sub.room - 1 ELSE sub.room,
                      failed |-> ~written]
    IN  FoldLeft(FlushLink, [node |-> node, blocks |-> {}, room |-> room, failed |-> FALSE],
                 IF node.leaf THEN << >> ELSE Ascending(DOMAIN node.at))

----------------------------------------------------------------------------
(* Iteration: Iter::new, iter_from and next, with the stack of nodes and    *)
(* the positions reached in them, and the index that is counted up.         *)

IterNew(node, height, offset) ==
    [stack |-> <<[node |-> node, idx |-> 0]>>, height |-> height, key |-> offset]

RECURSIVE IterDown(_, _, _, _)
IterDown(node, offset, stack, start) ==
    LET nfh == NodesForHeight(root.height - Len(stack))
        idx == IF node.leaf THEN start - offset ELSE (start - offset) \div nfh
        At(n) == Append(stack, [node |-> node, idx |-> n])
    IN  IF node.leaf \/ idx \notin DOMAIN node.at
          THEN [stack |-> At(idx), height |-> root.height, key |-> start]
          ELSE IterDown(Child(node.at[idx]), offset + idx * nfh, At(idx + 1), start)

AmtIterFrom(start) ==
    IF start = 0 THEN IterNew(root.node, root.height, 0)
    ELSE IF start >= NodesForHeight(root.height + 1)
      THEN [stack |-> << >>, height |-> root.height, key |-> start]
      ELSE IterDown(root.node, 0, << >>, start)

SaturatingAdd(a, b) == IF a + b > 2^WordBits - 1 THEN 2^WordBits - 1 ELSE a + b

\* The items that next returns until it returns none, at most so many.
RECURSIVE AmtItems(_, _)
AmtItems(it, max) ==
    LET top == Last(it.stack)
        Stepped(key, pushed) ==
            [it EXCEPT !.stack = Append(Front(@), [top EXCEPT !.idx = @ + 1]) \o pushed,
                       !.key = key]
    IN  IF max = 0 \/ it.key > MAX_INDEX \/ it.stack = << >> THEN << >>
        ELSE IF top.idx >= 2^bit_width THEN AmtItems([it EXCEPT !.stack = Front(@)], max)
        ELSE IF top.idx \notin DOMAIN top.node.at
          THEN AmtItems(Stepped(IF top.node.leaf THEN it.key + 1
                                ELSE SaturatingAdd(it.key, NodesForHeight(it.height - Len(it.stack) + 1)),
                                << >>), max)
        ELSE IF top.node.leaf
          THEN <<<<it.key, top.node.at[top.idx]>>>> \o AmtItems(Stepped(it.key + 1, << >>), max - 1)
          ELSE AmtItems(Stepped(it.key, <<[node |-> Child(top.node.at[top.idx]), idx |-> 0]>>), max)

\* A mutation: the next index is the last one visited.
AmtRangedTwice(start, limit) ==
    LET items == AmtItems(AmtIterFrom(start), limit + 1)
    IN  [visited |-> SubSeq(items, 1, IF Len(items) > limit THEN limit ELSE Len(items)),
         next |-> IF Len(items) > limit THEN <<items[limit][1]>> ELSE << >>]

\* for_each_ranged and for_each_while_ranged: what the function is given,
\* and the index after it.
AmtRanged(start, limit) ==
    LET items == AmtItems(AmtIterFrom(start), limit + 1)
    IN  [visited |-> SubSeq(items, 1, IF Len(items) > limit THEN limit ELSE Len(items)),
         next |-> IF Len(items) > limit THEN <<items[limit + 1][1]>> ELSE << >>]

\* The caches that a full iteration leaves behind.
RECURSIVE AllCached(_)
AllCached(node) ==
    IF node.leaf THEN node
    ELSE [node EXCEPT !.at = [i \in DOMAIN @ |-> Visited(@[i], AllCached(Child(@[i])))]]

----------------------------------------------------------------------------
(* diff.  Both arrays have the same bit width here; other pairs are refused. *)

AllOf(node, height, offset) == Range(AmtItems(IterNew(node, height, offset), 2^WordBits))
AddAll(node, height, offset) ==
    {[key |-> kv[1], before |-> {}, after |-> {kv[2]}] : kv \in AllOf(node, height, offset)}
RemoveAll(node, height, offset) ==
    {[key |-> kv[1], before |-> {kv[2]}, after |-> {}] : kv \in AllOf(node, height, offset)}

ValueAt(node, i) == IF i \in DOMAIN node.at THEN {node.at[i]} ELSE {}

\* A mutation: a value that is only changed is not reported.
DiffLeavesPresence(prev, curr, offset) ==
    {[key |-> offset + i, before |-> ValueAt(prev, i), after |-> ValueAt(curr, i)] :
       i \in (DOMAIN prev.at \ DOMAIN curr.at) \cup (DOMAIN curr.at \ DOMAIN prev.at)}

DiffLeaves(prev, curr, offset) ==
    {[key |-> offset + i, before |-> ValueAt(prev, i), after |-> ValueAt(curr, i)] :
       i \in {j \in DOMAIN prev.at \cup DOMAIN curr.at : ValueAt(prev, j) # ValueAt(curr, j)}}

RECURSIVE DiffNode(_, _, _, _, _)
DiffNode(prev, ph, curr, ch, offset) ==
    LET Sub(node, i) == Child(node.at[i])
        To(i, height) == offset + NodesForHeight(height) * i
        SameCid(p, c) == p.kind = "link" /\ c.kind = "link" /\ p.cid = c.cid
    IN
    IF ph = 0 /\ ch = 0 THEN DiffLeaves(prev, curr, offset)
    ELSE IF ch > ph
      THEN UNION {IF i = 0 THEN DiffNode(prev, ph, Sub(curr, i), ch - 1, To(i, ch))
                  ELSE AddAll(Sub(curr, i), ch - 1, To(i, ch)) : i \in DOMAIN curr.at}
    ELSE IF ch < ph
      THEN UNION {IF i = 0 THEN DiffNode(Sub(prev, i), ph - 1, curr, ch, To(i, ph))
                  ELSE RemoveAll(Sub(prev, i), ph - 1, To(i, ph)) : i \in DOMAIN prev.at}
      ELSE UNION {IF i \notin DOMAIN curr.at THEN RemoveAll(Sub(prev, i), ph - 1, To(i, ph))
                  ELSE IF i \notin DOMAIN prev.at THEN AddAll(Sub(curr, i), ph - 1, To(i, ph))
                  ELSE IF SameCid(prev.at[i], curr.at[i]) THEN {}
                  ELSE DiffNode(Sub(prev, i), ph - 1, Sub(curr, i), ph - 1, To(i, ph)) :
                    i \in DOMAIN prev.at \cup DOMAIN curr.at}

Diff(prev, curr) ==
    IF prev.count = 0 /\ curr.count # 0 THEN AddAll(curr.node, curr.height, 0)
    ELSE IF prev.count # 0 /\ curr.count = 0 THEN RemoveAll(prev.node, prev.height, 0)
    ELSE DiffNode(prev.node, prev.height, curr.node, curr.height, 0)

----------------------------------------------------------------------------
(* The operations of AmtImpl. *)

EmptyRoot == [height |-> 0, count |-> 0, node |-> NewNode(0)]

Init == /\ bit_width \in BitWidths
        /\ root = EmptyRoot
        /\ flushed_cid = {}
        /\ store = {}
        /\ dict = EmptyNode
        /\ published = {}
        /\ adrift = FALSE

\* Indices above MAX_INDEX are refused, and nothing changes.
OutOfRange(i) == i > MAX_INDEX

Set(i, val) == /\ ~OutOfRange(i)
               /\ root' = AmtWithSet(root, i, val)
               /\ flushed_cid' = {}
               /\ dict' = PutChild(dict, i, val)
               /\ UNCHANGED <<bit_width, store, published, adrift>>

Delete(i) == LET r == AmtWithDelete(root, i)
             IN  /\ ~OutOfRange(i)
                 /\ root' = r.root
                 /\ flushed_cid' = IF r.deleted # {} THEN {} ELSE flushed_cid
                 /\ dict' = RmChild(dict, i)
                 /\ UNCHANGED <<bit_width, store, published, adrift>>

\* batch_delete stops at the first index that is out of range, a strict one
\* also where it is absent; it leaves what it has deleted before deleted.
BatchDelete(is, strict) ==
    LET Step(b, i) ==
            LET r == AmtWithDelete(b.root, i)
            IN  IF b.failed \/ OutOfRange(i) THEN [b EXCEPT !.failed = TRUE]
                ELSE [root |-> r.root, modified |-> b.modified \/ r.deleted # {},
                      failed |-> strict /\ r.deleted = {}]
        b == FoldLeft(Step, [root |-> root, modified |-> FALSE, failed |-> FALSE], Ascending(is))
        gone == {i \in is : strict => \A j \in is : j <= i => j \in DOMAIN dict}
    IN  /\ root' = b.root
        /\ flushed_cid' = IF b.modified THEN {} ELSE flushed_cid
        /\ dict' = [i \in DOMAIN dict \ gone |-> dict[i]]
        /\ UNCHANGED <<bit_width, store, published, adrift>>

\* get changes nothing but the caches, nor does an iteration.
Get(i) == /\ ~OutOfRange(i)
          /\ i < NodesForHeight(root.height + 1)
          /\ root' = [root EXCEPT !.node = NodeGet(@, root.height, i).node]
          /\ UNCHANGED <<bit_width, flushed_cid, store, dict, published, adrift>>

ForEach == /\ root' = [root EXCEPT !.node = AllCached(@)]
           /\ UNCHANGED <<bit_width, flushed_cid, store, dict, published, adrift>>

\* for_each_mut and for_each_while_mut.  Where the function fails, what it has
\* changed stays in the caches and in the leaf at the root, but no link becomes
\* dirty and the CID that is remembered stays.
ForEachMut(f) ==
    LET r == NodeMutate(root.node, root.height, 0, f)
    IN  /\ root' = [root EXCEPT !.node = r.node]
        /\ flushed_cid' = IF r.mutated /\ r.end # "error" THEN {} ELSE flushed_cid
        /\ dict' = [i \in DOMAIN dict |-> IF i \in f.changes THEN f.val ELSE dict[i]]
        /\ adrift' = (adrift \/ r.end = "error")
        /\ UNCHANGED <<bit_width, store, published>>

\* The array that is in the store under a root.
Stored(cid) == LET items == AllOf(cid.node, cid.height, 0)
               IN  [i \in {kv[1] : kv \in items} |-> CHOOSE v \in Vals : <<i, v>> \in items]

\* Once a for_each_mut has failed, a root that is returned may lack changes.
Publish(cid) ==
    /\ published' = published \cup {[cid |-> cid, dict |-> IF adrift THEN Stored(cid) ELSE dict]}
    /\ Cardinality(published') <= MaxRoots

FlushAgain == /\ flushed_cid # {}
              /\ \A cid \in flushed_cid : Publish(cid)
              /\ UNCHANGED <<bit_width, root, flushed_cid, store, dict, adrift>>

\* flush, with a store that fails after so many blocks.
Flush(puts) ==
    LET f == NodeFlush(root.node, puts)
        cid == RootBlock([root EXCEPT !.node = f.node])
        written == ~f.failed /\ f.room > 0
    IN  /\ flushed_cid = {}
        /\ root' = [root EXCEPT !.node = f.node]
        /\ store' = store \cup f.blocks \cup (IF written THEN {cid} ELSE {})
        /\ Cardinality(store') <= MaxBlocks
        /\ written \/ Cardinality(store) <= MaxBefore
        /\ flushed_cid' = IF written THEN {cid} ELSE {}
        /\ IF written THEN Publish(cid) ELSE UNCHANGED published
        /\ UNCHANGED <<bit_width, dict, adrift>>

\* load, of a root that was published.
Load(r) == /\ r.cid \in store
           /\ r.cid.height <= WordBits
           /\ root' = r.cid
           /\ flushed_cid' = {r.cid}
           /\ adrift' = FALSE
           /\ dict' = r.dict
           /\ UNCHANGED <<bit_width, store, published>>

\* Batches have two indices or all; one of a single index is a delete.
Next == \/ \E i \in Indices, v \in Vals : Set(i, v)
        \/ \E i \in Indices : Delete(i) \/ Get(i)
        \/ \E is \in kSubset(2, Indices) \cup {Indices}, strict \in BOOLEAN : BatchDelete(is, strict)
        \/ ForEach
        \/ \E last \in DOMAIN dict, v \in Vals, end \in {"stop", "error"} :
           \E is \in SUBSET {i \in DOMAIN dict : i <= last} :
              ForEachMut([changes |-> is, last |-> last, val |-> v, end |-> end])
        \/ FlushAgain
        \/ \E puts \in 0..MaxBlocks : Flush(puts)
        \/ \E r \in published : Load(r)

Spec == Init /\ [][Next]_vars

----------------------------------------------------------------------------
(* What the AMT promises. *)

\* The tree that an array alone determines: as low as its largest index
\* allows, with no node that has nothing below it.
LeastHeight(m) ==
    CHOOSE h \in 0..WordBits : /\ \A i \in DOMAIN m : i < NodesForHeight(h + 1)
                               /\ h = 0 \/ \E i \in DOMAIN m : i >= NodesForHeight(h)

RECURSIVE Canon(_, _)
Canon(m, height) ==
    LET nfh == NodesForHeight(height)
        Below(i) == {k \in DOMAIN m : k \div nfh = i}
    IN  IF height = 0 THEN [leaf |-> TRUE, at |-> m]
        ELSE [leaf |-> FALSE,
              at |-> [i \in {k \div nfh : k \in DOMAIN m} |->
                        Dirty(Canon([j \in {k % nfh : k \in Below(i)} |-> m[i * nfh + j]],
                                    height - 1))]]

CanonRoot(m) == [height |-> LeastHeight(m), count |-> Cardinality(DOMAIN m),
                 node |-> Canon(m, LeastHeight(m))]

\* A tree, whether its nodes are in memory or in the store.
RECURSIVE Shape(_)
Shape(node) == IF node.leaf THEN node
               ELSE [node EXCEPT !.at = [i \in DOMAIN @ |-> Dirty(Shape(Child(@[i])))]]
RootShape(r) == [r EXCEPT !.node = Shape(@)]

Listing(m, start) == LET ks == Ascending({k \in DOMAIN m : k >= start})
                     IN  [n \in DOMAIN ks |-> <<ks[n], m[ks[n]]>>]

Entry(m, i) == IF i \in DOMAIN m THEN {m[i]} ELSE {}

\* The tree, its height and its count depend on the array alone and not on
\* the order of the sets, deletes, batches, changes in place, flushes and
\* reloads that led to it (AmtImpl::set, delete).
AmtCanonical == RootShape(root) = CanonRoot(dict)

\* The pages of an iteration that starts at an index.
RangedFrom(m, start, limit) ==
    LET all == Listing(m, start)
    IN  [visited |-> SubSeq(all, 1, IF Len(all) > limit THEN limit ELSE Len(all)),
         next |-> IF Len(all) > limit THEN <<all[limit + 1][1]>> ELSE << >>]

\* get and delete answer as the array would, up to the largest index; so do
\* the iterations from the beginning, from every index that is set, and from
\* beyond the end, page by page.
AmtAnswers ==
    /\ \A i \in Indices : ~OutOfRange(i) => /\ AmtValue(root, i) = Entry(dict, i)
                                            /\ AmtWithDelete(root, i).deleted = Entry(dict, i)
    /\ \A start \in {0, MAX_INDEX} \cup DOMAIN dict, limit \in {1} \cup DOMAIN Listing(dict, 0) :
          AmtRanged(start, limit) = RangedFrom(dict, start, limit)

\* "If `start_at` is provided traversal begins at the first index >=
\* `start_at`" (for_each_ranged): also from an index that is not set.  It does
\* not hold where the start lies inside an absent subtree: next adds the whole
\* width of the subtree to it.  No run checks it.
AmtRangedFromAnywhere ==
    \A start \in 0..MAX_INDEX : AmtRanged(start, 1) = RangedFrom(dict, start, 1)

Changes(m, n) ==
    {[key |-> i, before |-> Entry(m, i), after |-> Entry(n, i)] :
       i \in {j \in DOMAIN m \cup DOMAIN n : Entry(m, j) # Entry(n, j)}}

\* diff lists, for two arrays of the same height, exactly the entries that
\* were added, removed or changed, also where it skips a subtree because the
\* CIDs agree; no for_each_mut may have failed on them, see AmtFlushSound.
AmtDiffSameHeight ==
    \A r \in published : ~adrift /\ root.height = r.cid.height =>
        Diff(r.cid, root) = Changes(r.dict, dict) /\ Diff(root, r.cid) = Changes(dict, r.dict)

\* diff "Returns a set of changes that transform node 'a' into node 'b'", for
\* arrays of any height.  It does not hold where the higher array has no
\* first child: the entries of the lower one are left out.  No run checks it.
AmtDiffTransforms ==
    \A r \in published : Diff(r.cid, root) = Changes(r.dict, dict)

\* A node and all that it links to are in the store.
RECURSIVE Complete(_)
Complete(block) == ~block.leaf => \A i \in DOMAIN block.at :
                       block.at[i].cid \in store /\ Complete(block.at[i].cid)

\* A cache holds what its link names, and nothing that waits to be written.
RECURSIVE CachesCoherent(_)
CachesCoherent(node) ==
    ~node.leaf => \A i \in DOMAIN node.at :
        CASE node.at[i].kind = "dirty" -> CachesCoherent(node.at[i].node)
          [] node.at[i].kind = "link" -> \A n \in node.at[i].cache :
                CachesCoherent(n) /\ (n.leaf \/ \A j \in DOMAIN n.at : n.at[j].kind = "link")
                                  /\ Block(n) = node.at[i].cid

\* Every root that flush has returned can be loaded in full and is the array
\* as it was then, also after flushes that failed half-way; a link that is
\* not dirty is unchanged, and the remembered CID is that of the present array.
\* The exception is an AMT on which the function given to for_each_mut has
\* failed: it may return changed values that flush does not write, until it is
\* loaded again; but its roots are complete, and have the same indices.
AmtFlushSound ==
    /\ \A r \in published : /\ r.cid \in store /\ Complete(r.cid.node)
                            /\ RootShape(r.cid) = CanonRoot(r.dict)
    /\ ~adrift => CachesCoherent(root.node)
    /\ \A cid \in flushed_cid : /\ cid \in store
                                /\ DOMAIN Stored(cid) = DOMAIN dict
                                /\ ~adrift => RootShape(root) = RootShape(cid)
=============================================================================
