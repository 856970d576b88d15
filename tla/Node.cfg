SPECIFICATION MCSpec
CONSTANTS
    Txs <- MCTxs
    Tx <- MCTx
    Senders = {"A", "B", "C"}
    GAS_PER_BLOB = 1
    TARGET_BLOB_GAS_PER_BLOCK = 1
    MAX_BLOB_GAS_PER_BLOCK = 2
    BLOB_BASE_FEE_UPDATE_FRACTION = 2
    INITIAL_BASE_FEE = 1000
    DEFAULT_BUILDER_GAS_CEIL = 30000000
    Handlers = {1, 2}
    GenesisHeader <- MCHeader
    GenesisAccounts <- MCAccounts
    Withdrawals <- MCWithdrawals
    Waiting <- MCWaiting
    Eip155Block = 0
    max_tries = 3
    MaxProduced = 2
    MaxLead = 1
    MaxLosses = 1
    MaxSubmits = 1
    LogsOf <- MCLogsOf
    FilterIds = {1}
    Polls = {1, 2}
    Requests <- MCRequests
    MaxChain = 2
    MaxReplaced = 1
    MaxDepth = 1
    g = g
    b1 = b1
    b2 = b2
    f1 = f1
    None = None
    Blocks = {g, b1, b2, f1}
    Genesis = g
    Parent <- MCParent
    Number <- MCNumber
    Defect <- MCDefect
    MaxHeight = 2
    State <- MCState
    Slots <- MCSlots
    Codes = {"c1", "c2"}
    Empty = "none"
    Peers = {"ahead", "behind"}
    Connected = {"ahead"}
    PeerStore <- MCPeerStore
    HeaderLimit = 2
    BodyLimit = 2
    AccountLimit = 2
    CodeLimit = 1
    SlotLimit = 5
    CodeBatch = 2
    StorageBatch = 2
    ChannelCap = 1
    BootMode = "Snap"
    Imported <- MCImported
    Calls = {b1, b2}
    MaxEvents = 2
INVARIANTS ProducerSound NoLogMissed 
PROPERTIES ChainGrows SyncReaches
CHECK_DEADLOCK FALSE
