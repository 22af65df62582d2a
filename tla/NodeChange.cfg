CONSTANTS
    TxOf <- MC_TxOf
    Pubkey <- Me
    FirstNode = "n1"
    FirstChain <- MC_FirstChain
    FirstLists <- MC_FirstLists
    ForeignValue = 10
    Setups <- MC_Setups
    stop_gap = 1
    CACHE_ADDR_BATCH_SIZE = 2
    start_script_count = 3
    LIST_TX_PAGE_SIZE = 1
    COINBASE_MATURITY = 2
    ResetIndexes = {3}
    MaxTip = 3
    MaxBitcoinChanges = 3
    MaxCalls = 2
    Options = {"lrc20_only"}
    page_size = 1
    ChunkSize = 2
    MaxSyncs = 2
    MaxChanges = 3
SPECIFICATION MCSpec
INVARIANT CompleteOnNewNode
CHECK_DEADLOCK FALSE
