CONSTANTS
    leaf = leaf
    inline = inline
    piece = piece
    foreign = foreign
    node = node
    bad = bad
    emptyArr = emptyArr
    a1 = a1
    None = None
    Hashed = {leaf, node, bad, emptyArr}
    Inline = {inline}
    Pieces = {piece}
    Forbidden = {foreign}
    DagCbor <- MCDagCbor
    Refs <- MCRefs
    EmptyArray = emptyArr
    Actors = {a1}
    Stores <- MCStores
    Genesis <- MCGenesis
    Retry = TRUE
    MaxDepth = 1
    MaxBlocks = 1
SPECIFICATION Spec
INVARIANTS
    FlushedComplete
