SPECIFICATION Spec
CONSTANTS
    MaxAmount = 100
    From = 1
    Configurations <- MCConfigurations
    Amounts <- MCAmounts
    Sats <- MCSats
    MarketSats <- MCMarketSats
    Expiry = 2
    Grace = 1
    MaxTx = 4
    MaxWaiting = 2
    LastPair = 3
    MaxHeight = 4
    MaxEach = 1
CHECK_DEADLOCK FALSE
INVARIANTS
    IssuedIsConserved
    MarketsAreSolvent
    SequenceMakesBlock
PROPERTIES
    PoolsKeepValue
