---------------------------- MODULE BlocksProofs ----------------------------
(***************************************************************************)
(* Proofs about Blocks, for machines that are not used after their flush   *)
(* failed: what actors can reach can be read, what a flush returned is     *)
(* complete in the client's blockstore, and flushes are not rejected.      *)
(***************************************************************************)
EXTENDS Blocks, SequenceTheorems, TLAPS

\* The blocks of the client's blockstore that have all the blocks below them there,
\* too.  A flush that was interrupted leaves blocks that are not.
Durable == {c \in base : Below[c] \subseteq base}

\* What may be relied upon: it is closed under links.
Known == write \cup Durable

\* A registry that has, of what is known, the links of all its blocks.
FrameSound(known, f) ==
    /\ f \in Frames
    /\ Len(f.blocks) <= MaxBlocks
    /\ f.reachable \subseteq known
    /\ Roots(f.saved) \subseteq known
    /\ \A i \in 1 .. Len(f.blocks) : Scan[f.blocks[i]] \subseteq f.reachable

\* A call stack: a frame that waits for a call has room for what the call returns.
FramesSound(known, s) ==
    /\ s \in Seq(Frames)
    /\ Len(s) <= MaxDepth
    /\ \A n \in 1 .. Len(s) : /\ FrameSound(known, s[n])
                              /\ n < Len(s) => Len(s[n].blocks) < MaxBlocks

\* The inductive invariant.
Inv ==
    /\ TypeOK
    /\ Roots(flushed) \cup {EmptyArray} \subseteq Durable
    /\ broken => frames = <<>>
    /\ ~ broken => /\ \A c \in write : Scan[c] \subseteq Known
                   /\ Roots(tree) \subseteq Known
                   /\ FramesSound(Known, frames)

-----------------------------------------------------------------------------
(* Links and what is below a block. *)

\* The links of a block are CIDs that are neither inline nor pieces.
LEMMA ScanType ==
    ASSUME NEW c \in Cids
    PROVE  /\ Scan[c] \subseteq Cids
           /\ Scan[c] \cap (Inline \cup Pieces) = {}
BY DEF Scan

\* A set that has a block's CIDs and, with every inline CID, those in it, has the
\* block's links.
LEMMA ScanLeast ==
    ASSUME NEW c \in Cids, NEW S \in SUBSET Cids,
           Contents(c) \subseteq S,
           \A j \in S \cap Inline : Contents(j) \subseteq S
    PROVE  Scan[c] \subseteq S
BY DEF Scan

\* A CID in a block is a link, unless it is inline or a piece, and the links of an
\* inline CID in it are links of the block.
LEMMA ScanContents ==
    ASSUME NEW c \in Cids, NEW r \in Contents(c)
    PROVE  /\ r \in Cids
           /\ r \notin Inline \cup Pieces => r \in Scan[c]
           /\ r \in Inline => Scan[r] \subseteq Scan[c]
<1>1. r \in Cids
  BY BlocksAssumption DEF Contents
<1>2. r \notin Inline \cup Pieces => r \in Scan[c]
  BY <1>1 DEF Scan
<1>3. ASSUME r \in Inline, NEW k \in Scan[r]
      PROVE  k \in Scan[c]
  <2>1. k \in Cids \ (Inline \cup Pieces)
    BY <1>1, <1>3, ScanType
  <2>2. ASSUME NEW S \in SUBSET Cids,
               Contents(c) \subseteq S,
               \A j \in S \cap Inline : Contents(j) \subseteq S
        PROVE  k \in S
    <3>1. Contents(r) \subseteq S
      BY <1>3, <2>2
    <3> QED
      BY <1>1, <1>3, <2>2, <3>1, ScanLeast
  <2> QED
    BY <2>1, <2>2 DEF Scan
<1> QED
  BY <1>1, <1>2, <1>3

\* A block is below itself, and what is below it is closed under links.
LEMMA BelowClosed ==
    ASSUME NEW c \in Cids
    PROVE  /\ c \in Below[c]
           /\ Below[c] \subseteq Cids
           /\ \A d \in Below[c] : Scan[d] \subseteq Below[c]
<1>1. c \in Below[c] /\ Below[c] \subseteq Cids
  BY DEF Below
<1>2. ASSUME NEW d \in Below[c], NEW e \in Scan[d]
      PROVE  e \in Below[c]
  <2>1. d \in Cids /\ e \in Cids
    BY <1>1, <1>2, ScanType
  <2>2. ASSUME NEW S \in SUBSET Cids, c \in S, \A x \in S : Scan[x] \subseteq S
        PROVE  e \in S
    <3>1. d \in S
      BY <1>2, <2>2 DEF Below
    <3> QED
      BY <1>2, <2>2, <3>1
  <2> QED
    BY <2>1, <2>2 DEF Below
<1> QED
  BY <1>1, <1>2

\* A set that is closed under links has, with a block, all that is below it.
LEMMA BelowLeast ==
    ASSUME NEW c \in Cids, NEW S \in SUBSET Cids, c \in S,
           \A x \in S : Scan[x] \subseteq S
    PROVE  Below[c] \subseteq S
BY DEF Below

\* What is below a block's link is below the block.
LEMMA BelowLink ==
    ASSUME NEW c \in Cids, NEW d \in Below[c]
    PROVE  Below[d] \subseteq Below[c]
<1>1. d \in Cids /\ Below[c] \in SUBSET Cids
  BY BelowClosed
<1> QED
  BY <1>1, BelowClosed, BelowLeast

-----------------------------------------------------------------------------
(* What take_reachable takes. *)

\* It pops the roots, and with a CID everything it pushes.
LEMMA PoppedClosed ==
    ASSUME NEW cache \in SUBSET Cids, NEW roots \in SUBSET Cids
    PROVE  /\ Popped(cache, roots) \subseteq Cids
           /\ roots \subseteq Popped(cache, roots)
           /\ \A k \in Popped(cache, roots) : Pushed(cache, k) \subseteq Popped(cache, roots)
<1>1. Popped(cache, roots) \subseteq Cids /\ roots \subseteq Popped(cache, roots)
  BY DEF Popped
<1>2. ASSUME NEW k \in Popped(cache, roots), NEW r \in Pushed(cache, k)
      PROVE  r \in Popped(cache, roots)
  <2>1. r \in Cids
    BY <1>1, <1>2, ScanContents DEF Pushed
  <2>2. ASSUME NEW S \in SUBSET Cids, roots \subseteq S,
               \A j \in S : Pushed(cache, j) \subseteq S
        PROVE  r \in S
    <3>1. k \in S
      BY <1>2, <2>2 DEF Popped
    <3> QED
      BY <1>2, <2>2, <3>1
  <2> QED
    BY <2>1, <2>2 DEF Popped
<1> QED
  BY <1>1, <1>2

\* It pops nothing else.
LEMMA PoppedLeast ==
    ASSUME NEW cache \in SUBSET Cids, NEW roots \in SUBSET Cids, NEW S \in SUBSET Cids,
           roots \subseteq S, \A j \in S : Pushed(cache, j) \subseteq S
    PROVE  Popped(cache, roots) \subseteq S
BY DEF Popped

\* With a block of the cache it pops all the block's links: it agrees with
\* LinkVisitor on what they are.
LEMMA PoppedScan ==
    ASSUME NEW cache \in SUBSET Cids, NEW roots \in SUBSET Cids,
           NEW c \in Popped(cache, roots) \cap cache
    PROVE  Scan[c] \subseteq Popped(cache, roots)
<1> DEFINE P == Popped(cache, roots)
<1>1. P \in SUBSET Cids /\ c \in Cids
  BY PoppedClosed
<1>2. Contents(c) \subseteq P
  BY PoppedClosed DEF Pushed
<1>3. \A j \in P \cap Inline : Contents(j) \subseteq P
  BY PoppedClosed DEF Pushed
<1> QED
  BY <1>1, <1>2, <1>3, ScanLeast

\* A set of CIDs that is closed under the links of the cache's blocks has all that is
\* popped, but for pieces and for inline CIDs, whose links it has.
LEMMA PoppedWithin ==
    ASSUME NEW cache \in SUBSET Cids, NEW roots \in SUBSET Hashed, NEW K \in SUBSET Cids,
           roots \subseteq K, \A c \in K \cap cache : Scan[c] \subseteq K,
           K \cap Inline = {}
    PROVE  \A k \in Popped(cache, roots) :
             k \in K \/ k \in Pieces \/ k \in Inline
<1> DEFINE S == K \cup Pieces \cup {j \in Inline : Scan[j] \subseteq K}
<1>1. S \in SUBSET Cids /\ roots \subseteq S /\ roots \in SUBSET Cids
  BY DEF Cids
<1>2. ASSUME NEW k \in S, NEW r \in Pushed(cache, k)
      PROVE  r \in S
  <2>1. k \in Cids /\ r \in Contents(k) /\ k \in Inline \cup cache
    BY <1>1, <1>2 DEF Pushed
  <2>2. Scan[k] \subseteq K
    <3>1. CASE k \in K
      BY <2>1, <3>1
    <3>2. CASE k \in Inline
      BY <1>2, <3>2, BlocksAssumption
    <3>3. CASE k \in Pieces
      BY <2>1, <3>3, BlocksAssumption DEF Contents
    <3> QED
      BY <1>2, <3>1, <3>2, <3>3
  <2>3. /\ r \in Cids
        /\ r \notin Inline \cup Pieces => r \in Scan[k]
        /\ r \in Inline => Scan[r] \subseteq Scan[k]
    BY <2>1, ScanContents
  <2> QED
    BY <2>2, <2>3
<1>3. \A j \in S : Pushed(cache, j) \subseteq S
  BY <1>2
<1> HIDE DEF S
<1>4. Popped(cache, roots) \subseteq S
  BY <1>1, <1>3, PoppedLeast
<1> QED
  BY <1>4 DEF S

-----------------------------------------------------------------------------
(* Registries and call stacks. *)

LEMMA RootsType ==
    ASSUME NEW t \in Trees
    PROVE  Roots(t) \subseteq Hashed
BY DEF Roots, Trees

LEMMA FrameGrows ==
    ASSUME NEW K, NEW L, K \subseteq L, NEW f, FrameSound(K, f)
    PROVE  FrameSound(L, f)
BY DEF FrameSound

LEMMA FramesGrow ==
    ASSUME NEW K, NEW L, K \subseteq L, NEW s, FramesSound(K, s)
    PROVE  FramesSound(L, s)
BY FrameGrows DEF FramesSound

\* put_reachable, of a block whose links are known.
LEMMA PutReachableSound ==
    ASSUME NEW K, NEW f, FrameSound(K, f), Len(f.blocks) < MaxBlocks,
           NEW b \in Hashed, Scan[b] \subseteq K \cap Hashed
    PROVE  /\ FrameSound(K, PutReachable(f, b))
           /\ PutReachable(f, b).blocks = Append(f.blocks, b)
<1> DEFINE g == PutReachable(f, b)
<1>1. f \in Frames /\ f.blocks \in Seq(Hashed) /\ f.reachable \subseteq Hashed
  BY DEF FrameSound, Frames
<1>2. /\ g.blocks = Append(f.blocks, b)
      /\ g.reachable = f.reachable \cup Scan[b]
      /\ g.saved = f.saved
  BY <1>1 DEF PutReachable, Frames
<1>3. g \in Frames
  <2>1. Append(f.blocks, b) \in Seq(Hashed)
    BY <1>1
  <2>2. f.reachable \cup Scan[b] \subseteq Hashed
    BY <1>1
  <2> QED
    BY <1>1, <2>1, <2>2 DEF PutReachable, Frames
<1>4. Len(g.blocks) <= MaxBlocks
  BY <1>1, <1>2, BlocksAssumption
<1>5. \A i \in 1 .. Len(g.blocks) : Scan[g.blocks[i]] \subseteq g.reachable
  <2> TAKE i \in 1 .. Len(g.blocks)
  <2>1. CASE i = Len(f.blocks) + 1
    BY <1>1, <1>2, <2>1
  <2>2. CASE i \in 1 .. Len(f.blocks)
    BY <1>1, <1>2, <2>2 DEF FrameSound
  <2> QED
    BY <1>1, <1>2, <2>1, <2>2
<1> QED
  BY <1>2, <1>3, <1>4, <1>5 DEF FrameSound

\* put_check_reachable, of a block whose links are reachable.
LEMMA PutBlockSound ==
    ASSUME NEW K, NEW f, FrameSound(K, f), Len(f.blocks) < MaxBlocks,
           NEW b \in Hashed, Scan[b] \subseteq f.reachable
    PROVE  FrameSound(K, PutBlock(f, b))
<1> DEFINE g == PutBlock(f, b)
<1>1. f \in Frames /\ f.blocks \in Seq(Hashed)
  BY DEF FrameSound, Frames
<1>2. /\ g.blocks = Append(f.blocks, b)
      /\ g.reachable = f.reachable
      /\ g.saved = f.saved
  BY <1>1 DEF PutBlock, Frames
<1>3. g \in Frames
  <2>1. Append(f.blocks, b) \in Seq(Hashed)
    BY <1>1
  <2> QED
    BY <1>1, <2>1 DEF PutBlock, Frames
<1>4. Len(g.blocks) <= MaxBlocks
  BY <1>1, <1>2, BlocksAssumption
<1>5. \A i \in 1 .. Len(g.blocks) : Scan[g.blocks[i]] \subseteq g.reachable
  <2> TAKE i \in 1 .. Len(g.blocks)
  <2>1. CASE i = Len(f.blocks) + 1
    BY <1>1, <1>2, <2>1
  <2>2. CASE i \in 1 .. Len(f.blocks)
    BY <1>1, <1>2, <2>2 DEF FrameSound
  <2> QED
    BY <1>1, <1>2, <2>1, <2>2
<1> QED
  BY <1>2, <1>3, <1>4, <1>5 DEF FrameSound

LEMMA MarkReachableSound ==
    ASSUME NEW K, NEW f, FrameSound(K, f), NEW c \in K \cap Hashed
    PROVE  FrameSound(K, MarkReachable(f, c))
BY DEF FrameSound, MarkReachable, Frames

\* A call begins: its caller has room for its result.
LEMMA AppendSound ==
    ASSUME NEW K, NEW s, FramesSound(K, s), NEW f, FrameSound(K, f),
           Len(s) < MaxDepth,
           s # <<>> => Len(s[Len(s)].blocks) < MaxBlocks
    PROVE  FramesSound(K, Append(s, f))
<1>1. s \in Seq(Frames) /\ f \in Frames
  BY DEF FramesSound, FrameSound
<1>2. Append(s, f) \in Seq(Frames) /\ Len(Append(s, f)) = Len(s) + 1
  BY <1>1
<1>3. Len(Append(s, f)) <= MaxDepth
  BY <1>1, <1>2, BlocksAssumption DEF FramesSound
<1>4. ASSUME NEW n \in 1 .. Len(s) + 1
      PROVE  /\ FrameSound(K, Append(s, f)[n])
             /\ n < Len(s) + 1 => Len(Append(s, f)[n].blocks) < MaxBlocks
  <2>1. CASE n = Len(s) + 1
    BY <1>1, <2>1
  <2>2. CASE n \in 1 .. Len(s)
    <3>1. Append(s, f)[n] = s[n]
      BY <1>1, <2>2
    <3>2. n < Len(s) \/ n = Len(s)
      BY <1>1, <2>2
    <3>3. s # <<>>
      BY <2>2
    <3> QED
      BY <2>2, <3>1, <3>2, <3>3 DEF FramesSound
  <2> QED
    BY <1>1, <1>4, <2>1, <2>2
<1> QED
  BY <1>2, <1>3, <1>4 DEF FramesSound

\* The innermost frame changes.
LEMMA UpdateSound ==
    ASSUME NEW K, NEW s, FramesSound(K, s), s # <<>>, NEW f, FrameSound(K, f)
    PROVE  FramesSound(K, [s EXCEPT ![Len(s)] = f])
<1> DEFINE t == [s EXCEPT ![Len(s)] = f]
<1>1. s \in Seq(Frames) /\ f \in Frames
  BY DEF FramesSound, FrameSound
<1>2. t \in Seq(Frames) /\ Len(t) = Len(s)
  BY <1>1
<1>3. ASSUME NEW n \in 1 .. Len(s)
      PROVE  FrameSound(K, t[n]) /\ (n < Len(s) => Len(t[n].blocks) < MaxBlocks)
  <2>1. t[n] = IF n = Len(s) THEN f ELSE s[n]
    BY <1>1, <1>3
  <2> QED
    BY <1>1, <2>1 DEF FramesSound
<1> QED
  BY <1>2, <1>3 DEF FramesSound

\* The innermost call ends.
LEMMA FrontSound ==
    ASSUME NEW K, NEW s, FramesSound(K, s), s # <<>>
    PROVE  /\ FramesSound(K, Front(s))
           /\ Front(s) # <<>> => Len(Front(s)[Len(Front(s))].blocks) < MaxBlocks
<1>1. s \in Seq(Frames) /\ Len(s) \in Nat \ {0}
  BY DEF FramesSound
<1>2. /\ Front(s) \in Seq(Frames)
      /\ Len(Front(s)) = Len(s) - 1
      /\ \A n \in 1 .. Len(s) - 1 : Front(s)[n] = s[n]
  <2> DEFINE N == Len(s) - 1
  <2>1. 1 \in Int /\ N \in Int /\ \A n \in 1 .. N : s[n] \in Frames
    BY <1>1
  <2> HIDE DEF N
  <2>2. /\ SubSeq(s, 1, N) \in Seq(Frames)
        /\ Len(SubSeq(s, 1, N)) = IF 1 <= N THEN N - 1 + 1 ELSE 0
        /\ \A n \in 1 .. N - 1 + 1 : SubSeq(s, 1, N)[n] = s[1 + n - 1]
    BY <2>1, SubSeqProperties
  <2>3. N \in Nat /\ Front(s) = SubSeq(s, 1, N)
    BY <1>1 DEF N, Front
  <2>4. Len(SubSeq(s, 1, N)) = N
    BY <2>2, <2>3
  <2>5. \A n \in 1 .. N : n \in 1 .. N - 1 + 1 /\ 1 + n - 1 = n
    BY <2>3
  <2>6. \A n \in 1 .. N : SubSeq(s, 1, N)[n] = s[n]
    BY <2>2, <2>5
  <2> QED
    BY <2>2, <2>3, <2>4, <2>6 DEF N
<1>3. \A n \in 1 .. Len(s) - 1 : FrameSound(K, s[n]) /\ Len(s[n].blocks) < MaxBlocks
  BY <1>1 DEF FramesSound
<1>4. Len(Front(s)) <= MaxDepth
  BY <1>1, <1>2, BlocksAssumption DEF FramesSound
<1>5. Front(s) # <<>> => Len(Front(s)) \in 1 .. Len(s) - 1
  BY <1>1, <1>2
<1> QED
  BY <1>2, <1>3, <1>4, <1>5 DEF FramesSound

-----------------------------------------------------------------------------
(* What is known. *)

\* A base store that grows loses no durable block.
LEMMA DurableGrows ==
    ASSUME base \subseteq base'
    PROVE  Durable \subseteq Durable'
BY DEF Durable

\* The durable blocks, and what is known, are closed under links.
LEMMA DurableClosed ==
    ASSUME TypeOK, NEW c \in Durable
    PROVE  Scan[c] \subseteq Durable /\ Below[c] \subseteq Durable
<1>1. c \in Cids /\ Below[c] \subseteq base
  BY DEF Durable, TypeOK, Cids
<1>2. \A d \in Below[c] : d \in base /\ Below[d] \subseteq base
  BY <1>1, BelowLink
<1>3. Below[c] \subseteq Durable
  BY <1>2 DEF Durable
<1>4. Scan[c] \subseteq Below[c]
  BY <1>1, BelowClosed
<1> QED
  BY <1>3, <1>4

LEMMA KnownClosed ==
    ASSUME Inv, ~ broken
    PROVE  /\ Known \subseteq Hashed
           /\ Known \subseteq Held
           /\ \A c \in Known : Scan[c] \subseteq Known
<1>1. Known \subseteq Hashed /\ Known \subseteq Held
  BY DEF Inv, TypeOK, Known, Durable, Held
<1>2. \A c \in Known : Scan[c] \subseteq Known
  BY DurableClosed DEF Inv, Known
<1> QED
  BY <1>1, <1>2

\* What is below a known block is held.
LEMMA BelowKnown ==
    ASSUME Inv, ~ broken, NEW c \in Known
    PROVE  Below[c] \subseteq Held
<1>1. /\ Known \in SUBSET Cids /\ Known \subseteq Held
      /\ \A d \in Known : Scan[d] \subseteq Known
  BY KnownClosed DEF Cids
<1> QED
  BY <1>1, BelowLeast

\* take_reachable rejects no CID that is below the state tree.
LEMMA NotRejected ==
    ASSUME Inv, ~ broken
    PROVE  ~ Rejects(write, Roots(tree))
<1>1. /\ Known \subseteq Hashed
      /\ \A c \in Known : Scan[c] \subseteq Known
  BY KnownClosed
<1>2. /\ write \in SUBSET Cids /\ Roots(tree) \in SUBSET Hashed
      /\ Known \in SUBSET Cids /\ Roots(tree) \subseteq Known
      /\ Known \cap Inline = {}
  BY <1>1, RootsType, BlocksAssumption DEF Inv, TypeOK, Cids
<1>3. \A c \in Known \cap write : Scan[c] \subseteq Known
  BY <1>1
<1>4. \A k \in Popped(write, Roots(tree)) : k \in Known \/ k \in Pieces \/ k \in Inline
  BY <1>2, <1>3, PoppedWithin
<1> QED
  BY <1>1, <1>4, BlocksAssumption DEF Rejects

\* What it takes, with the durable blocks, is closed under links and has the roots.
LEMMA TakenClosed ==
    ASSUME Inv, ~ broken
    PROVE  LET taken == TakeReachable(write, Roots(tree))
           IN  /\ taken \subseteq write
               /\ Roots(tree) \subseteq taken \cup Durable
               /\ \A c \in taken \cup Durable : Scan[c] \subseteq taken \cup Durable
<1> DEFINE P == Popped(write, Roots(tree))
           taken == TakeReachable(write, Roots(tree))
<1>1. /\ write \in SUBSET Cids /\ Roots(tree) \in SUBSET Cids
      /\ Roots(tree) \subseteq Known
  BY RootsType DEF Inv, TypeOK, Cids
<1>2. taken = P \cap write
  BY DEF TakeReachable
<1>3. Roots(tree) \subseteq P
  BY <1>1, PoppedClosed
<1>4. ASSUME NEW c \in taken
      PROVE  Scan[c] \subseteq taken \cup Durable
  <2>1. Scan[c] \subseteq P
    BY <1>1, <1>2, <1>4, PoppedScan
  <2>2. Scan[c] \subseteq Known
    BY <1>2, <1>4 DEF Inv
  <2> QED
    BY <1>2, <2>1, <2>2 DEF Known
<1>5. \A c \in Durable : Scan[c] \subseteq Durable
  BY DurableClosed DEF Inv
<1> QED
  BY <1>1, <1>2, <1>3, <1>4, <1>5 DEF Known

-----------------------------------------------------------------------------
(* The invariant. *)

\* The empty array has no links.
LEMMA EmptyBelow == Scan[EmptyArray] = {} /\ Below[EmptyArray] = {EmptyArray}
<1>1. EmptyArray \in Cids /\ Contents(EmptyArray) = {}
  BY BlocksAssumption DEF Contents, Cids
<1>2. Scan[EmptyArray] = {}
  <2> DEFINE T == {}
  <2>1. /\ T \in SUBSET Cids /\ Contents(EmptyArray) \subseteq T
        /\ \A j \in T \cap Inline : Contents(j) \subseteq T
    BY <1>1
  <2> HIDE DEF T
  <2>2. Scan[EmptyArray] \subseteq T
    BY <1>1, <2>1, ScanLeast
  <2> QED
    BY <2>2 DEF T
<1> DEFINE S == {EmptyArray}
<1>3. S \in SUBSET Cids /\ EmptyArray \in S /\ \A x \in S : Scan[x] \subseteq S
  BY <1>1, <1>2
<1> HIDE DEF S
<1>4. Below[EmptyArray] \subseteq S
  BY <1>1, <1>3, BelowLeast
<1> QED
  BY <1>1, <1>2, <1>4, BelowClosed DEF S

\* An empty call stack is sound.
LEMMA EmptySound ==
    /\ \A K : FramesSound(K, <<>>)
    /\ <<>> \in Seq(Frames) /\ Len(<<>>) <= MaxDepth /\ Len(<<>>) = 0
BY BlocksAssumption DEF FramesSound

\* The invariant of a machine that was just made from a tree that is complete.
LEMMA NewMachineInv ==
    ASSUME NEW store \in SUBSET Hashed, NEW root \in Trees,
           \A c \in Roots(root) : Below[c] \subseteq store \cup {EmptyArray},
           base = store \cup {EmptyArray}, write = {}, tree = root, frames = <<>>,
           flushed = root, broken = FALSE
    PROVE  Inv
<1>1. TypeOK
  <2>1. base \subseteq Hashed /\ write \subseteq Hashed /\ tree \in Trees /\ flushed \in Trees
    BY BlocksAssumption
  <2>2. frames \in Seq(Frames) /\ Len(frames) <= MaxDepth /\ 1 .. Len(frames) = {}
    BY EmptySound
  <2> QED
    BY <2>1, <2>2 DEF TypeOK
<1>2. Roots(root) \subseteq Durable
  <2>1. \A c \in Roots(root) : c \in Cids /\ c \in Below[c]
    BY RootsType, BelowClosed DEF Cids
  <2> QED
    BY <2>1 DEF Durable
<1>3. EmptyArray \in Durable
  BY EmptyBelow DEF Durable
<1>4. FramesSound(Known, frames)
  BY EmptySound
<1> QED
  BY <1>1, <1>2, <1>3, <1>4 DEF Inv, Known

LEMMA InitInv == Init => Inv
<1> SUFFICES ASSUME Init PROVE Inv
  OBVIOUS
<1>1. PICK store \in Stores : /\ base = NewMachine(store, Genesis).base
                              /\ write = NewMachine(store, Genesis).write
                              /\ tree = NewMachine(store, Genesis).tree
  BY DEF Init
<1>2. base = store \cup {EmptyArray} /\ write = {} /\ tree = Genesis
  BY <1>1 DEF NewMachine
<1>3. frames = <<>> /\ flushed = Genesis /\ broken = FALSE
  BY DEF Init
<1>4. store \in SUBSET Hashed /\ Genesis \in Trees
  BY BlocksAssumption
<1>5. \A c \in Roots(Genesis) : Below[c] \subseteq store \cup {EmptyArray}
  BY GenesisComplete
<1> QED
  BY <1>2, <1>3, <1>4, <1>5, NewMachineInv

\* Restart makes a machine from the last tree a flush returned.
LEMMA RestartInv ==
    ASSUME Inv, Restart
    PROVE  Inv'
<1>1. /\ base' = base \cup {EmptyArray} /\ write' = {} /\ tree' = flushed
      /\ frames' = <<>> /\ broken' = FALSE /\ flushed' = flushed
  BY DEF Restart, NewMachine
<1>2. Durable \subseteq Durable'
  BY <1>1, DurableGrows
<1>3. TypeOK'
  <2>1. /\ base' \subseteq Hashed /\ write' \subseteq Hashed
        /\ tree' \in Trees /\ flushed' \in Trees
    BY <1>1, BlocksAssumption DEF Inv, TypeOK
  <2>2. frames' \in Seq(Frames) /\ Len(frames') <= MaxDepth /\ 1 .. Len(frames') = {}
    BY <1>1, EmptySound
  <2> QED
    BY <1>1, <2>1, <2>2 DEF TypeOK
<1>4. Roots(flushed') \cup {EmptyArray} \subseteq Durable'
  BY <1>1, <1>2 DEF Inv
<1>5. Roots(tree') \subseteq Known'
  BY <1>1, <1>4 DEF Known
<1>6. FramesSound(Known', frames')
  BY <1>1, EmptySound
<1> QED
  BY <1>1, <1>3, <1>4, <1>5, <1>6 DEF Inv

\* A flush, successful or not, leaves the last tree it returned complete.
LEMMA FlushInv ==
    ASSUME Inv, ~ Retry, NEW ok \in BOOLEAN, Flush(ok)
    PROVE  Inv'
<1> DEFINE taken == TakeReachable(write, Roots(tree))
<1>1. ~ broken /\ frames = <<>>
  BY DEF Flush
<1>2. ~ Rejects(write, Roots(tree))
  BY <1>1, NotRejected
<1>3. PICK lost, stored \in SUBSET taken :
             /\ IF Rejects(write, Roots(tree)) THEN stored = {} ELSE lost = taken
             /\ ok => stored = taken
             /\ write' = write \ lost
             /\ base' = base \cup stored
  BY DEF Flush
<1>4. /\ flushed' = IF ok THEN tree ELSE flushed
      /\ broken' = ~ ok
      /\ UNCHANGED <<tree, frames>>
  BY DEF Flush
<1>5. /\ taken \subseteq write
      /\ Roots(tree) \subseteq taken \cup Durable
      /\ \A c \in taken \cup Durable : Scan[c] \subseteq taken \cup Durable
  BY <1>1, TakenClosed
<1> HIDE DEF taken
<1>6. Durable \subseteq Durable'
  BY <1>3, DurableGrows
<1>7. TypeOK'
  BY <1>3, <1>4, <1>5 DEF Inv, TypeOK
<1>8. CASE ~ ok
  BY <1>1, <1>4, <1>6, <1>7, <1>8 DEF Inv
<1>9. CASE ok
  <2>1. base' = base \cup taken /\ write' = write \ taken
    BY <1>2, <1>3, <1>9
  <2>2. taken \cup Durable \in SUBSET Cids /\ taken \cup Durable \subseteq base'
    BY <1>5, <2>1 DEF Inv, TypeOK, Durable, Cids
  <2>3. ASSUME NEW c \in taken \cup Durable
        PROVE  c \in Durable'
    <3>1. Below[c] \subseteq taken \cup Durable
      BY <1>5, <2>2, <2>3, BelowLeast
    <3> QED
      BY <2>2, <2>3, <3>1 DEF Durable
  <2>4. Roots(flushed') \cup {EmptyArray} \subseteq Durable'
    BY <1>4, <1>5, <1>6, <1>9, <2>3 DEF Inv
  <2>5. Known \subseteq Known'
    BY <2>1, <2>3 DEF Known
  <2>6. \A c \in write' : Scan[c] \subseteq Known'
    BY <1>1, <2>1, <2>5 DEF Inv
  <2>7. Roots(tree') \subseteq Known'
    BY <1>1, <1>4, <2>5 DEF Inv
  <2>8. FramesSound(Known', frames')
    BY <1>1, <1>4, EmptySound
  <2> QED
    BY <1>1, <1>4, <1>7, <2>4, <2>6, <2>7, <2>8 DEF Inv
<1> QED
  BY <1>8, <1>9

\* What is left to show for the steps of actors: they use no blockstore but the
\* write buffer.
LEMMA ActorStepInv ==
    ASSUME Inv, ~ broken, UNCHANGED <<base, flushed, broken>>,
           write \subseteq write', write' \subseteq Hashed,
           \A c \in write' : Scan[c] \subseteq Known',
           tree' \in Trees, Roots(tree') \subseteq Known',
           FramesSound(Known', frames')
    PROVE  Inv'
<1>1. Durable \subseteq Durable'
  BY DurableGrows
<1>2. TypeOK'
  BY DEF Inv, TypeOK, FramesSound, FrameSound
<1>3. Roots(flushed') \cup {EmptyArray} \subseteq Durable'
  BY <1>1 DEF Inv
<1> QED
  BY <1>2, <1>3 DEF Inv

\* The innermost frame of a call stack.
LEMMA SelfSound ==
    ASSUME Inv, ~ broken, Running
    PROVE  FrameSound(Known, Self) /\ Self = frames[Len(frames)] /\ Len(frames) \in Nat \ {0}
<1>1. frames \in Seq(Frames) /\ Len(frames) \in Nat \ {0}
  BY DEF Inv, TypeOK, Running
<1>2. Self = frames[Len(frames)]
  BY DEF Self, Last
<1> QED
  BY <1>1, <1>2 DEF Inv, FramesSound

\* The block of a handle is a block whose links are reachable.
LEMMA HandleSound ==
    ASSUME NEW K, NEW f, FrameSound(K, f), NEW i \in Handles(f)
    PROVE  Data(f, i) = None \/ /\ Data(f, i) \in Hashed
                                /\ Scan[Data(f, i)] \subseteq f.reachable
                                /\ Scan[Data(f, i)] \subseteq K \cap Hashed
<1>1. f.blocks \in Seq(Hashed) /\ f.reachable \subseteq K \cap Hashed
  BY DEF FrameSound, Frames
<1>2. CASE i = 0
  BY <1>2 DEF Data
<1>3. CASE i # 0
  <2>1. i \in 1 .. Len(f.blocks) /\ Data(f, i) = f.blocks[i]
    BY <1>1, <1>3 DEF Data, Handles
  <2> QED
    BY <1>1, <2>1 DEF FrameSound
<1> QED
  BY <1>2, <1>3

\* A step that changes the tree and the call stack only.
LEMMA TreeStepInv ==
    ASSUME Inv, ~ broken, UNCHANGED <<base, write, flushed, broken>>,
           tree' \in Trees, Roots(tree') \subseteq Known, FramesSound(Known, frames')
    PROVE  Inv'
<1>1. Known' = Known
  BY DEF Known, Durable
<1>2. write' \subseteq Hashed /\ \A c \in write' : Scan[c] \subseteq Known'
  BY <1>1 DEF Inv, TypeOK
<1> QED
  BY <1>1, <1>2, ActorStepInv

\* A call begins.
LEMMA CallInv ==
    ASSUME Inv, ~ broken, UNCHANGED <<base, write, flushed, broken>>,
           Len(frames) < MaxDepth,
           frames # <<>> => Len(frames[Len(frames)].blocks) < MaxBlocks,
           NEW actor \in Actors, NEW readOnly \in BOOLEAN, NEW params,
           params = None \/ (params \in Hashed /\ Scan[params] \subseteq Known \cap Hashed),
           Call(actor, readOnly, params)
    PROVE  Inv'
<1>1. tree \in Trees /\ Roots(tree) \subseteq Known /\ FramesSound(Known, frames)
  BY DEF Inv, TypeOK
<1>2. tree' \in Trees /\ Roots(tree') \subseteq Known
  <2>1. EmptyArray \in Hashed /\ EmptyArray \in Known
    BY BlocksAssumption DEF Inv, Known
  <2>2. CASE tree[actor] = None
    <3>1. tree' = [tree EXCEPT ![actor] = EmptyArray]
      BY <2>2 DEF Call
    <3> QED
      BY <1>1, <2>1, <3>1 DEF Trees, Roots
  <2>3. CASE tree[actor] # None
    BY <1>1, <2>3 DEF Call
  <2> QED
    BY <2>2, <2>3
<1>3. FrameSound(Known, Frame(actor, readOnly, params))
  <2> DEFINE empty == [actor |-> actor, readOnly |-> readOnly, blocks |-> <<>>,
                       reachable |-> {}, saved |-> tree]
  <2>1. empty \in Frames
    BY <1>1 DEF Frames
  <2>2. Len(empty.blocks) < MaxBlocks /\ Len(empty.blocks) = 0
    BY BlocksAssumption
  <2>3. FrameSound(Known, empty)
    BY <1>1, <2>1, <2>2, BlocksAssumption, SMTT(30) DEF FrameSound
  <2> HIDE DEF empty
  <2>4. CASE params = None
    BY <2>3, <2>4 DEF Frame, empty
  <2>5. CASE params # None
    <3>1. FrameSound(Known, PutReachable(empty, params))
      BY <2>2, <2>3, <2>5, PutReachableSound
    <3> QED
      BY <2>5, <3>1 DEF Frame, empty
  <2> QED
    BY <2>4, <2>5
<1>4. FramesSound(Known, Append(frames, Frame(actor, readOnly, params)))
  BY <1>1, <1>3, AppendSound
<1>5. FramesSound(Known, frames')
  BY <1>4 DEF Call
<1> QED
  BY <1>2, <1>5, TreeStepInv

LEMMA StartMessageInv ==
    ASSUME Inv, ~ Retry, NEW actor \in Actors, NEW params \in Hashed \cup {None},
           StartMessage(actor, params)
    PROVE  Inv'
<1>1. ~ broken /\ frames = <<>> /\ params \notin DagCbor /\ Call(actor, FALSE, params)
  BY DEF StartMessage
<1>2. Len(frames) < MaxDepth
  BY <1>1, BlocksAssumption
<1>3. ASSUME params # None
      PROVE  Scan[params] = {}
  <2> DEFINE T == {}
  <2>1. /\ T \in SUBSET Cids /\ Contents(params) \subseteq T
        /\ \A j \in T \cap Inline : Contents(j) \subseteq T
    BY <1>1 DEF Contents
  <2>2. params \in Cids
    BY <1>3 DEF Cids
  <2> HIDE DEF T
  <2>3. Scan[params] \subseteq T
    BY <2>1, <2>2, ScanLeast
  <2> QED
    BY <2>3 DEF T
<1>4. params = None \/ (params \in Hashed /\ Scan[params] \subseteq Known \cap Hashed)
  BY <1>3
<1>5. UNCHANGED <<base, write, flushed, broken>>
  BY DEF StartMessage
<1> QED
  BY <1>1, <1>2, <1>4, <1>5, CallInv

LEMMA SendInv ==
    ASSUME Inv, ~ broken, NEW actor \in Actors, NEW readOnly \in BOOLEAN, NEW i,
           Send(actor, readOnly, i)
    PROVE  Inv'
<1>1. Running /\ i \in Handles(Self) /\ ~ IsFull(Self) /\ Len(frames) < MaxDepth
  BY DEF Send
<1>2. FrameSound(Known, Self) /\ Self = frames[Len(frames)]
  BY <1>1, SelfSound
<1>3. Len(Self.blocks) < MaxBlocks
  BY <1>1, <1>2, BlocksAssumption, SMTT(30) DEF FrameSound, Frames, IsFull
<1>4. \/ Data(Self, i) = None
      \/ Data(Self, i) \in Hashed /\ Scan[Data(Self, i)] \subseteq Known \cap Hashed
  BY <1>1, <1>2, HandleSound
<1>5. (Self.readOnly \/ readOnly) \in BOOLEAN
  OBVIOUS
<1>6. UNCHANGED <<base, write, flushed, broken>>
  BY DEF Send, Inv, TypeOK
<1>7. Call(actor, Self.readOnly \/ readOnly, Data(Self, i))
  BY DEF Send
<1>8. frames # <<>> => Len(frames[Len(frames)].blocks) < MaxBlocks
  BY <1>2, <1>3
<1> QED
  BY <1>1, <1>4, <1>5, <1>6, <1>7, <1>8, CallInv

\* A call ends, with a value whose links are known.
LEMMA EndCallInv ==
    ASSUME Inv, ~ broken, Running, NEW revert \in BOOLEAN, NEW value,
           value = None \/ (value \in Hashed /\ Scan[value] \subseteq Known \cap Hashed),
           EndCall(revert, value)
    PROVE  Inv'
<1> DEFINE callers == Front(frames)
<1>1. FramesSound(Known, frames) /\ frames # <<>> /\ FrameSound(Known, Self)
  BY SelfSound DEF Inv, Running
<1>2. tree' \in Trees /\ Roots(tree') \subseteq Known
  BY <1>1 DEF EndCall, Inv, TypeOK, FrameSound, Frames
<1>3. /\ FramesSound(Known, callers)
      /\ callers # <<>> => Len(callers[Len(callers)].blocks) < MaxBlocks
  BY <1>1, FrontSound
<1>4. FramesSound(Known, frames')
  <2>1. CASE callers = <<>>
    BY <2>1, EmptySound DEF EndCall
  <2>2. CASE callers # <<>>
    <3> DEFINE last == callers[Len(callers)]
    <3>1. FrameSound(Known, last) /\ callers \in Seq(Frames) /\ Len(callers) \in DOMAIN callers
      BY <1>3, <2>2 DEF FramesSound
    <3>2. FrameSound(Known, Returned(last, value))
      BY <1>3, <2>2, <3>1, PutReachableSound DEF Returned
    <3>3. frames' = [callers EXCEPT ![Len(callers)] = Returned(last, value)]
      BY <2>2, <3>1 DEF EndCall
    <3> HIDE DEF last, callers
    <3>4. FramesSound(Known, [callers EXCEPT ![Len(callers)] = Returned(last, value)])
      BY <1>3, <2>2, <3>2, UpdateSound
    <3> QED
      BY <3>3, <3>4
  <2> QED
    BY <2>1, <2>2
<1>5. UNCHANGED <<base, write, flushed, broken>>
  BY DEF EndCall, Inv, TypeOK
<1> QED
  BY <1>2, <1>4, <1>5, TreeStepInv

LEMMA FatalInv ==
    ASSUME Inv, ~ broken, Running, FatalError
    PROVE  Inv'
<1>1. FrameSound(Known, frames[1])
  BY SelfSound DEF Inv, FramesSound, Running
<1>2. tree' \in Trees /\ Roots(tree') \subseteq Known
  BY <1>1 DEF FatalError, FrameSound, Frames
<1>3. FramesSound(Known, frames')
  BY EmptySound DEF FatalError
<1>4. UNCHANGED <<base, write, flushed, broken>>
  BY DEF FatalError
<1> QED
  BY <1>2, <1>3, <1>4, TreeStepInv

\* A syscall that changes the registry only.
LEMMA UpdateInv ==
    ASSUME Inv, ~ broken, Running, NEW f, FrameSound(Known, f), Update(f),
           UNCHANGED <<write, tree>>
    PROVE  Inv'
<1>1. FramesSound(Known, frames) /\ frames # <<>>
  BY DEF Inv, Running
<1>2. FramesSound(Known, frames')
  BY <1>1, UpdateSound DEF Update
<1>3. UNCHANGED <<base, write, flushed, broken>>
  BY DEF Update, Inv, TypeOK
<1>4. tree' \in Trees /\ Roots(tree') \subseteq Known
  BY DEF Inv, TypeOK
<1> QED
  BY <1>2, <1>3, <1>4, TreeStepInv

LEMMA RootInv ==
    ASSUME Inv, ~ broken, Root
    PROVE  Inv'
<1>1. FrameSound(Known, Self) /\ tree \in Trees /\ Roots(tree) \subseteq Known
  BY SelfSound DEF Root, Inv, TypeOK
<1>2. tree[Self.actor] \in Known \cap Hashed
  BY <1>1 DEF Root, FrameSound, Frames, Roots, Trees
<1>3. FrameSound(Known, MarkReachable(Self, tree[Self.actor]))
  BY <1>1, <1>2, MarkReachableSound
<1> QED
  BY <1>3, UpdateInv DEF Root

LEMMA SetRootInv ==
    ASSUME Inv, ~ broken, NEW c \in Hashed, SetRoot(c)
    PROVE  Inv'
<1>1. FrameSound(Known, Self) /\ tree \in Trees /\ Roots(tree) \subseteq Known
  BY SelfSound DEF SetRoot, Inv, TypeOK
<1>2. c \in Known
  BY <1>1 DEF SetRoot, FrameSound
<1>3. tree' \in Trees /\ Roots(tree') \subseteq Known
  BY <1>1, <1>2 DEF SetRoot, Trees, Roots
<1>4. UNCHANGED <<base, write, flushed, broken>>
  BY DEF SetRoot, Inv, TypeOK
<1>5. FramesSound(Known, frames')
  BY DEF SetRoot, Inv
<1> QED
  BY <1>3, <1>4, <1>5, TreeStepInv

LEMMA BlockOpenInv ==
    ASSUME Inv, ~ broken, NEW c \in Hashed, BlockOpen(c)
    PROVE  Inv'
<1>1. Running /\ c \in Self.reachable
  BY DEF BlockOpen
<1>2. FrameSound(Known, Self)
  BY <1>1, SelfSound
<1>3. CASE c \notin Held
  BY <1>1, <1>3, FatalInv DEF BlockOpen
<1>4. CASE c \in Held
  <2>1. Scannable(c) /\ ~ IsFull(Self) /\ Update(PutReachable(Self, c)) /\ UNCHANGED <<write, tree>>
    BY <1>4 DEF BlockOpen
  <2>2. Len(Self.blocks) < MaxBlocks
    BY <1>2, <2>1, BlocksAssumption DEF FrameSound, Frames, IsFull
  <2>3. Scan[c] \subseteq Known \cap Hashed
    BY <1>1, <1>2, KnownClosed DEF FrameSound
  <2>4. FrameSound(Known, PutReachable(Self, c))
    BY <1>2, <2>2, <2>3, PutReachableSound
  <2> QED
    BY <1>1, <2>1, <2>4, UpdateInv
<1> QED
  BY <1>3, <1>4

LEMMA BlockCreateInv ==
    ASSUME Inv, ~ broken, NEW c \in Hashed, BlockCreate(c)
    PROVE  Inv'
<1>1. /\ Running /\ ~ IsFull(Self) /\ Scan[c] \subseteq Self.reachable
      /\ Update(PutBlock(Self, c)) /\ UNCHANGED <<write, tree>>
  BY DEF BlockCreate
<1>2. FrameSound(Known, Self)
  BY <1>1, SelfSound
<1>3. Len(Self.blocks) < MaxBlocks
  BY <1>1, <1>2, BlocksAssumption, SMTT(30) DEF FrameSound, Frames, IsFull
<1>4. FrameSound(Known, PutBlock(Self, c))
  BY <1>1, <1>2, <1>3, PutBlockSound
<1> QED
  BY <1>1, <1>4, UpdateInv

\* block_link stores a block whose links are reachable, and hence known.
LEMMA BlockLinkInv ==
    ASSUME Inv, ~ broken, NEW i, BlockLink(i)
    PROVE  Inv'
<1> DEFINE b == Data(Self, i)
<1>1. /\ Running /\ i \in Handles(Self) /\ i # 0
      /\ write' = write \cup {b}
      /\ Update(MarkReachable(Self, b)) /\ UNCHANGED tree
  BY DEF BlockLink
<1>2. FrameSound(Known, Self)
  BY <1>1, SelfSound
<1>3. b \in Hashed /\ Scan[b] \subseteq Known
  <2>1. Self.blocks \in Seq(Hashed) /\ i \in 1 .. Len(Self.blocks)
    BY <1>1, <1>2 DEF FrameSound, Frames, Handles
  <2>2. b = Self.blocks[i]
    BY <1>1 DEF Data
  <2> QED
    BY <1>2, <2>1, <2>2 DEF FrameSound
<1> HIDE DEF b
<1>4. base' = base
  BY <1>1 DEF Update
<1>5. Known' = Known \cup {b}
  BY <1>1, <1>4 DEF Known, Durable
<1>6. /\ write' \subseteq Hashed /\ tree' \in Trees
      /\ Roots(tree') \subseteq Known'
      /\ \A c \in write' : Scan[c] \subseteq Known'
  BY <1>1, <1>3, <1>5 DEF Inv, TypeOK
<1>7. FramesSound(Known', frames) /\ frames # <<>>
  BY <1>1, <1>5, FramesGrow DEF Inv, Running
<1>8. FrameSound(Known', MarkReachable(Self, b))
  <2>1. FrameSound(Known', Self)
    BY <1>2, <1>5, FrameGrows
  <2> QED
    BY <1>3, <1>5, <2>1, MarkReachableSound
<1>9. FramesSound(Known', frames')
  BY <1>1, <1>7, <1>8, UpdateSound DEF Update
<1> QED
  BY <1>1, <1>6, <1>9, ActorStepInv DEF Update, Inv, TypeOK

\* Every step preserves the invariant.
LEMMA NextInv ==
    ASSUME Inv, ~ Retry, Next
    PROVE  Inv'
<1>1. ASSUME Running PROVE ~ broken
  BY <1>1 DEF Inv, Running
<1>2. CASE Restart
  BY <1>2, RestartInv
<1>3. CASE \E ok \in BOOLEAN : Flush(ok)
  BY <1>3, FlushInv
<1>4. CASE \E a \in Actors, params \in Hashed \cup {None} : StartMessage(a, params)
  BY <1>4, StartMessageInv
<1>5. CASE \E a \in Actors, readOnly \in BOOLEAN, i \in 0 .. MaxBlocks : Send(a, readOnly, i)
  BY <1>1, <1>5, SendInv DEF Send
<1>6. CASE \E revert \in BOOLEAN, i \in 0 .. MaxBlocks : Return(revert, i)
  <2>1. PICK revert \in BOOLEAN, i \in 0 .. MaxBlocks : Return(revert, i)
    BY <1>6
  <2>2. Running /\ i \in Handles(Self) /\ EndCall(revert, Data(Self, i))
    BY <2>1 DEF Return
  <2>3. FrameSound(Known, Self)
    BY <1>1, <2>2, SelfSound
  <2>4. \/ Data(Self, i) = None
        \/ Data(Self, i) \in Hashed /\ Scan[Data(Self, i)] \subseteq Known \cap Hashed
    BY <2>2, <2>3, HandleSound
  <2> QED
    BY <1>1, <2>2, <2>4, EndCallInv
<1>7. CASE Abort
  <2>1. Running /\ EndCall(TRUE, None)
    BY <1>7 DEF Abort
  <2> QED
    BY <1>1, <2>1, EndCallInv
<1>8. CASE ExitMissing
  BY <1>1, <1>8, FatalInv DEF ExitMissing
<1>9. CASE Root
  BY <1>1, <1>9, RootInv DEF Root
<1>10. CASE \E c \in Hashed : SetRoot(c) \/ BlockOpen(c) \/ BlockCreate(c)
  <2>1. PICK c \in Hashed : SetRoot(c) \/ BlockOpen(c) \/ BlockCreate(c)
    BY <1>10
  <2>2. CASE SetRoot(c)
    BY <1>1, <2>2, SetRootInv DEF SetRoot
  <2>3. CASE BlockOpen(c)
    BY <1>1, <2>3, BlockOpenInv DEF BlockOpen
  <2>4. CASE BlockCreate(c)
    BY <1>1, <2>4, BlockCreateInv DEF BlockCreate
  <2> QED
    BY <2>1, <2>2, <2>3, <2>4
<1>11. CASE \E i \in 1 .. MaxBlocks : BlockLink(i)
  BY <1>1, <1>11, BlockLinkInv DEF BlockLink
<1> QED
  BY <1>2, <1>3, <1>4, <1>5, <1>6, <1>7, <1>8, <1>9, <1>10, <1>11 DEF Next

LEMMA StutterInv ==
    ASSUME Inv, UNCHANGED vars
    PROVE  Inv'
BY DEF Inv, vars, TypeOK, Durable, Known

\* The invariant holds in every state.
THEOREM Invariance ==
    ASSUME ~ Retry
    PROVE  Spec => []Inv
<1>1. Init => Inv
  BY InitInv
<1>2. Inv /\ [Next]_vars => Inv'
  BY NextInv, StutterInv
<1> QED
  BY <1>1, <1>2, PTL DEF Spec

\* The blockstores, the state tree and the registries have their types; a frame that
\* waits for a call has room for what the call returns (send's "This can't fail").
THEOREM TypeCorrect ==
    ASSUME ~ Retry
    PROVE  Spec => []TypeOK
<1>1. Inv => TypeOK
  BY DEF Inv
<1> QED
  BY <1>1, Invariance, PTL

\* Whatever an actor can reach can be read, through any number of links.
THEOREM ReachableIsHeld ==
    ASSUME ~ Retry
    PROVE  Spec => []ReachableHeld
<1>1. Inv => ReachableHeld
  <2> SUFFICES ASSUME Inv, ~ broken, NEW n \in 1 .. Len(frames), NEW c \in frames[n].reachable
               PROVE  Below[c] \cap Hashed \subseteq Held
    BY DEF ReachableHeld
  <2>1. c \in Known
    BY DEF Inv, FramesSound, FrameSound
  <2> QED
    BY <2>1, BelowKnown
<1> QED
  BY <1>1, Invariance, PTL

\* The client's blockstore has all of the tree whose root a flush returned last,
\* whichever flushes failed and whichever machines were lost.
THEOREM FlushedIsComplete ==
    ASSUME ~ Retry
    PROVE  Spec => []FlushedComplete
<1>1. Inv => FlushedComplete
  BY DEF Inv, FlushedComplete, Durable
<1> QED
  BY <1>1, Invariance, PTL

\* take_reachable never rejects a CID of the state.
THEOREM FlushIsNotRejected ==
    ASSUME ~ Retry
    PROVE  Spec => []FlushNotRejected
<1>1. Inv => FlushNotRejected
  BY NotRejected DEF FlushNotRejected
<1> QED
  BY <1>1, Invariance, PTL

\* take_reachable takes only what is below the roots.
LEMMA TakenBelow ==
    ASSUME TypeOK
    PROVE  TakeReachable(write, Roots(tree)) \subseteq UNION {Below[c] : c \in Roots(tree)}
<1> DEFINE U == UNION {Below[c] : c \in Roots(tree)}
<1>1. write \in SUBSET Cids /\ Roots(tree) \in SUBSET Hashed /\ write \subseteq Hashed
  BY RootsType DEF TypeOK, Cids
<1>2. \A c \in Roots(tree) : c \in Cids
  BY <1>1 DEF Cids
<1>3. ASSUME NEW c \in Roots(tree)
      PROVE  Below[c] \cap Inline = {}
  <2> DEFINE S == Cids \ Inline
  <2>1. S \in SUBSET Cids /\ c \in S /\ \A x \in S : Scan[x] \subseteq S
    BY <1>1, <1>2, <1>3, ScanType, BlocksAssumption
  <2> HIDE DEF S
  <2>2. Below[c] \subseteq S
    BY <1>2, <1>3, <2>1, BelowLeast
  <2> QED
    BY <2>2 DEF S
<1>4. U \in SUBSET Cids /\ Roots(tree) \subseteq U /\ U \cap Inline = {}
  BY <1>2, <1>3, BelowClosed
<1>5. \A c \in U \cap write : Scan[c] \subseteq U
  BY <1>2, BelowClosed
<1> HIDE DEF U
<1>6. \A k \in Popped(write, Roots(tree)) : k \in U \/ k \in Pieces \/ k \in Inline
  BY <1>1, <1>4, <1>5, PoppedWithin
<1>7. TakeReachable(write, Roots(tree)) \subseteq U
  BY <1>1, <1>6, BlocksAssumption DEF TakeReachable
<1> QED
  BY <1>7 DEF U

\* A flush stores nothing but state, whatever else is in the write buffer.
THEOREM FlushStoresState ==
    ASSUME ~ Retry
    PROVE  Spec => FlushStoresOnlyState
<1> DEFINE Stored == base' \ base \subseteq {EmptyArray} \cup UNION {Below[c] : c \in Roots(tree)}
<1>1. ASSUME Inv, Next
      PROVE  Stored
  <2>1. CASE Restart
    BY <2>1 DEF Restart, NewMachine
  <2>2. CASE \E ok \in BOOLEAN : Flush(ok)
    <3>1. base' \ base \subseteq TakeReachable(write, Roots(tree))
      BY <2>2 DEF Flush
    <3> QED
      BY <1>1, <3>1, TakenBelow DEF Inv
  <2>3. CASE UNCHANGED base
    BY <2>3
  <2>4. Restart \/ (\E ok \in BOOLEAN : Flush(ok)) \/ UNCHANGED base
    BY <1>1 DEF Next, StartMessage, Send, Return, Abort, ExitMissing, FatalError, EndCall,
                Root, SetRoot, BlockOpen, BlockCreate, BlockLink, Update
  <2> QED
    BY <2>1, <2>2, <2>3, <2>4
<1>2. Inv /\ [Next]_vars => [Stored]_vars
  BY <1>1
<1> QED
  BY <1>2, Invariance, PTL DEF Spec, FlushStoresOnlyState
=============================================================================
