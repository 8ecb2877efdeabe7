---------------------------- MODULE MCCollections ----------------------------
(***************************************************************************)
(* The persistent collections of src/ipld, each on a small instance.  They *)
(* have nothing to do with each other: a behaviour is one of a HAMT, of a  *)
(* KAMT, of an AMT, of a bit field, or of a bit field that was received as *)
(* bytes, and which it is never changes.                                   *)
(***************************************************************************)
EXTENDS Integers, Sequences, TLC

CONSTANTS V1, V2  \* the values of the AMT

VARIABLES which, conf, root, flushed_cid, store, dict, published, adrift

shared == <<conf, flushed_cid, store, published, adrift>>
vars == <<which, root, dict, shared>>

\* Hashes that agree in the first five bits, and in all but the last level.
HHash == 1 :> <<16, 64>> @@ 2 :> <<16, 72>> @@ 3 :> <<16, 65>>
HPairs == {<<1, 1>>, <<1, 2>>, <<2, 1>>, <<3, 1>>}
HConfigs == {[bit_width |-> 5, min_data_depth |-> 0, max_array_width |-> 1],
             [bit_width |-> 5, min_data_depth |-> 1, max_array_width |-> 2]}
H == INSTANCE Hamt WITH
       Hash <- HHash, Pairs <- HPairs, Configs <- HConfigs,
       MaxRoots <- 1, MaxBlocks <- 5, MaxBefore <- 0

\* Keys of two bytes in levels of three bits, which extensions skip across
\* the bytes.
KKeys == {0, 1, 16, 128}
KPairs == KKeys \X {1}
KConfigs == {[bit_width |-> 3, min_data_depth |-> 0, max_array_width |-> 1],
             [bit_width |-> 3, min_data_depth |-> 1, max_array_width |-> 2]}
K == INSTANCE Kamt WITH
       Keys <- KKeys, KeyLen <- 2, Pairs <- KPairs, Configs <- KConfigs,
       MaxRoots <- 2, MaxBlocks <- 3, MaxBefore <- 0

\* Words of five bits; 30 is the largest index, and 31 is out of range.
AIndices == {1, 6, 30, 31}
AVals == {V1, V2}
A == INSTANCE Amt WITH
       bit_width <- conf,
       Indices <- AIndices, Vals <- AVals, BitWidths <- {2}, WordBits <- 5,
       MaxRoots <- 1, MaxBlocks <- 3, MaxBefore <- 0

\* Bits with gaps of one, of sixteen and of more than 127 between them.
BBits == {0, 2, 3, 20, 254}
Field(ranges, set, unset, members) ==
    [field |-> [ranges |-> ranges, set |-> set, unset |-> unset], members |-> members]
BOthers == {Field(<< >>, {}, {}, {}),
            Field(<< >>, {}, {2}, {}),
            Field(<<<<2, 4>>>>, {}, {}, {2, 3}),
            Field(<<<<0, 1>>, <<3, 4>>, <<254, 255>>>>, {20}, {}, {0, 3, 20, 254}),
            Field(<<<<0, 1>>, <<2, 4>>, <<20, 21>>>>, {}, {2}, {0, 3, 20}),
            Field(<<<<0, 1>>, <<20, 21>>>>, {2}, {0}, {2, 20})}
B == INSTANCE BitField WITH
       bf <- root, members <- dict,
       WordBits <- 8, Bits <- BBits, Others <- BOthers,
       MaxBuffered <- 2, MAX_ENCODED_SIZE <- 16

\* Bytes with every header, and with lengths of each form.
UBytes == {0, 1, 2, 4, 12, 16, 17, 32, 36, 64, 65, 80, 84, 128, 129, 152, 160, 224, 255}
U == INSTANCE Unvalidated WITH
       wire <- root, received <- dict,
       WordBits <- 8, MAX_ENCODED_SIZE <- 3, Bytes <- UBytes

Alone == conf = 0 /\ flushed_cid = {} /\ store = {} /\ published = {} /\ adrift = FALSE

Init == \/ which = "hamt" /\ H!Init /\ adrift = FALSE
        \/ which = "kamt" /\ K!Init
        \/ which = "amt" /\ A!Init
        \/ which = "bitfield" /\ B!Init /\ Alone
        \/ which = "unvalidated" /\ U!Init /\ Alone

Next == \/ which = "hamt" /\ H!Next /\ UNCHANGED <<which, adrift>>
        \/ which = "kamt" /\ K!Next /\ UNCHANGED which
        \/ which = "amt" /\ A!Next /\ UNCHANGED which
        \/ which = "bitfield" /\ B!Next /\ UNCHANGED <<which, shared>>
        \/ which = "unvalidated" /\ U!Next /\ UNCHANGED <<which, shared>>

Spec == Init /\ [][Next]_vars

----------------------------------------------------------------------------

\* The form of a HAMT, a KAMT or an AMT, and with it the CID of its root,
\* depends on its content alone, and not on the insertions, deletions,
\* splits, collapses, failed flushes and reloads that led to it.
Canonical == /\ which = "hamt" => H!HamtCanonical
             /\ which = "kamt" => K!KamtCanonical
             /\ which = "amt" => A!AmtCanonical

\* get, set, delete and the iterators of a HAMT, a KAMT or an AMT answer as
\* the map or the array would, whatever of it is cached, dirty or stored.
Answers == /\ which = "hamt" => H!HamtAnswers
           /\ which = "kamt" => K!KamtAnswers
           /\ which = "amt" => A!AmtAnswers

\* Every root that flush has returned can be loaded in full, and is the
\* content as it was then, also after flushes that failed half-way; no link
\* hides a change, and a CID that is remembered is that of the content now.
\* There are two exceptions, in which flush returns the root of other content
\* than get reads: Kamt::set_root on a KAMT that is flushed leaves the old CID
\* behind (exactly until the next change, see KamtFlushSound), and a function
\* that fails in for_each_mut leaves changed values in the caches of an AMT
\* (until it is loaded again, see AmtFlushSound).
FlushSound == /\ which = "hamt" => H!HamtFlushSound
              /\ which = "kamt" => K!KamtFlushSound
              /\ which = "amt" => A!AmtFlushSound

\* diff of two AMTs of the same height is exactly what was added, removed and
\* changed between them, in both directions, unless a for_each_mut failed on one.
DiffSameHeight == which = "amt" => A!AmtDiffSameHeight

\* A bit field is the set of its bits, whatever was set, unset, combined and
\* reloaded: get, first, last, is_empty and len agree on it, and cut,
\* contains_any, contains_all and slice do on ranges what they do on sets.
BitFieldIsSet == which = "bitfield" => B!BitFieldIsSet /\ B!BitFieldCombines

\* Bit fields and their encodings correspond one to one: ranges that are written
\* as RLE+ or as JSON are read back the same, and bytes that are accepted as a
\* bit field are the only ones that encode it.
EncodingExact ==
    CASE which = "bitfield" -> B!BitFieldRoundTrips
      [] which = "unvalidated" -> U!EncodingUnique
      [] OTHER -> TRUE
=============================================================================
