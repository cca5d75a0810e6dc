SPECIFICATION Spec
CONSTANTS
    DUST = 2
    FeeBounds = {1}
    DelayBounds = {2}
    Scenarios <- MCScenarios
    CLOSE_DEPTH = 3
    CLAIM_MARGIN = 1
    CLOSE_REBROADCAST = 1
    CLAIM_REBROADCAST = 1
    REPAIR_GAP = 2
    MaxHeight = 5
    MaxPerBlock = 1
    MaxReorgs = 1
    MaxDepth = 2
    MaxFaults = 1
    MaxLag = 1
INVARIANTS FollowsTheChain ClaimsAreMade PostedIsValid
CHECK_DEADLOCK FALSE
