SPECIFICATION Spec
CONSTANTS
    LowKey = "A"
    h = h
    g = g
    Hashes = {h, g}
    HashesBy <- OwnHashes
    Expiries = {1}
    Margin = 0
    Fee = 1
    Funds <- SmallFunds
    Lag = 0
    None = None
    MaxN = 2
    MaxProposals = 2
    MaxSyncs = 1
    MaxHeight = 1
INVARIANTS
    CloseIsFair
    CanCatchUp
    SplitOnlyAtDeadline
    SnapshotRestores
    LiveReleaseIsSafe
CHECK_DEADLOCK FALSE
