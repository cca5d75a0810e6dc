SPECIFICATION StoreSpec
CONSTANTS
    TxDef <- SmallTxs
    RuleRefused = {3}
    Pegs <- SmallPegs
    PegoutMin = 2
    MinFeeRate = 1
    MaxWeight = 4
    MaxSigops = 4
    MedianTime <- SmallTimes
    Maturity = 1
    BlockTxs <- SmallLists
    BlockFees <- SmallFees
    ClaimLists <- SmallClaims
    ClaimRequests <- OneClaim
    MaxHeight = 2
    MaxFaults = 1
INVARIANTS
    ReplayIsPrefix
    SupplyBacked
    MempoolMakesBlock
CHECK_DEADLOCK FALSE
