SPECIFICATION FaucetSpec
CONSTANTS
    MinFeeRate = 1
    FeeBoundSize = 5
    BaseSize = 1
    InSize = 1
    OutSize = 1
    Dust = 2
    DustPkh = 3
    Carrier = 2
    Maturity = 2
    PegoutMin = 5
    Rules <- SmallRules
    Reserve <- SmallReserve
    Order = 7
    Doc <- SmallDoc
    Decimals = 2
    MaxCoins = 21
    MaxWords = 4
    Requests <- SmallRequests
    Commands <- SmallCommands
    FaucetKey = "faucet"
    UserKey = "user"
    OtherKey = "other"
    GrantSats = 12
    GrantAssets <- SmallAssets
    GrantUnits = 1
    PerAddress = 1
    PerHour = 2
    Hour = 2
    Hold = 1
    GenesisCoins <- SmallCoins
    MaxTime = 2
    MaxHeight = 2
    MaxLives = 2
    MaxFaults = 1
    MaxWork = 3
    MaxCommands = 1
CHECK_DEADLOCK FALSE
INVARIANT SpendsAreSound
INVARIANT GrantsRespectLimits
INVARIANT GrantsNeverConflict
INVARIANT ReadsBackAsWritten
