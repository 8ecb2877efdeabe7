SPECIFICATION Spec
CONSTANTS
    MaxGas = 400
    Precision = 1
    Prices <- MCPrices
    TABLE_ELEMENT_SIZE = 2
    EVENT_OVERHEAD = 1
    EVENT_ENTRY_OVERHEAD = 1
    Drg32 = "drg32"
    Window512 = "w512"
    MemLen = 8
    Word = 16
    CidLen = 3
    Epoch = 3
    I32Max = 7
    max_block_size = 3
    MAX_BLOCKS = 1
    MAX_NR_ENTRIES = 2
    MAX_KEY_LEN = 3
    MAX_TOTAL_VALUES_LEN = 3
    U64Pieces = 32
    Sector = 8
    PostOf <- MCPostOf
    Gases <- MCGases
    Bufs <- MCBufs
    Offs <- MCOffs
    Rets <- MCRets
    Sizes <- MCSizes
    Epochs <- MCEpochs
    ADDRESS_LEN = 2
    BLS_SIG_LEN = 2
    BLS_PUB_LEN = 2
    SECP_SIG_LEN = 2
    SECP_PUB_LEN = 1
    DIGEST_LEN = 2
    EVENT_SIZE = 1
    Headers <- MCHeaders
    PieceSizes = {0, 1, 3, 4, 16}
    Posts = {"w512", "w32"}
INVARIANTS
    WorkIsPaid
    FailedCallsLeaveNothing
    BuffersPartitioned
    PiecesAligned
    FutureNotAsked
    BlocksReadWhole
