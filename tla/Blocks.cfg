CONSTANTS
    leaf = leaf
    inline = inline
    piece = piece
    foreign = foreign
    node = node
    bad = bad
    emptyArr = emptyArr
    a1 = a1
    None = None
    Hashed = {leaf, node, bad, emptyArr}
    Inline = {inline}
    Pieces = {piece}
    Forbidden = {foreign}
    DagCbor <- MCDagCbor
    Refs <- MCRefs
    EmptyArray = emptyArr
    Actors = {a1}
    Stores <- NoStores
    Genesis <- NoGenesis
    Retry = FALSE
    MaxDepth = 2
    MaxBlocks = 2
SPECIFICATION Spec
INVARIANTS
    ReachableHeld
    FlushedComplete
PROPERTIES
    FlushStoresOnlyState
