------------------------------ MODULE MCBlocks ------------------------------
(***************************************************************************)
(* Instances of Blocks for TLC: the empty array, a raw leaf, a block that  *)
(* links to the leaf through an inline CID, next to a piece commitment,    *)
(* and a block with a forbidden link.                                      *)
(***************************************************************************)
EXTENDS Blocks

CONSTANTS leaf, inline, piece, foreign, node, bad, emptyArr, a1

MCDagCbor == (Hashed \cup Inline) \ {leaf}
MCRefs ==
    [c \in MCDagCbor |-> CASE c = node     -> {inline, piece}
                           [] c = inline   -> {leaf}
                           [] c = bad      -> {leaf, foreign}
                           [] c = emptyArr -> {}]

\* At first one actor exists, or none, and the client may have a stray block.
MCGenesis == [a \in Actors |-> IF a = a1 THEN emptyArr ELSE None]
MCStores == {{emptyArr}, {emptyArr, node}}
NoGenesis == [a \in Actors |-> None]
NoStores == {{}, {node}}
=============================================================================
