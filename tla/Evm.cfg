SPECIFICATION MCSpec
CONSTANTS
    ByteBits = 4
    WordBytes = 2
    STACK_LIMIT = 7
    MaxUsize = 63
    ExcessBlobGas = 8
    BlobFraction = 4
    BlockWindow = 8
    Programs <- MCPrograms
    Environment <- MCEnvironment
    BlobHashes <- MCBlobHashes
    SubOutputs <- MCSubOutputs
    Address <- MCAddress
    Key = {"k"}
    Precompiles = {"p"}
    PrecompileCosts = {0, 3000}
    Databases <- MCDatabases
    Txs <- MCTxs
    CreateAddress <- MCCreateAddress
    Create2Address <- MCCreate2Address
    Coinbase = "c"
    BaseFee = 2
    BlockGasLimit = 300000
    Callees = {"a", "p", "m"}
    Values = {0, 1}
    Gases = {500, 100000}
    Sizes = {32}
    Words = {0, 1, 2}
    Outputs <- MCOutputs
    MaxDepth = 2
    MaxNonce = 3
    EarlyFunding = FALSE
    MaxSteps = 3
    MaxTxs = 1
INVARIANTS
    FrameSound ExecutionSound
PROPERTIES
    OpcodesRight CallsIsolated TxSettles
CHECK_DEADLOCK FALSE
