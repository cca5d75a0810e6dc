SPECIFICATION Spec
CONSTANTS
    Relays = {r1}
    Alias = "a"
    NodeKey = "s"
    AgentKey = "g"
    Doc <- MCDoc
    Mirror = "m"
    Rival = "m2"
    RivalServes <- MCRivalServes
    Earlier <- MCEarlier
    Foreign <- MCForeign
    Asks <- MCAsks
    TipHeaders = 2
    ChanCap = 1
    SeenCap = 1
    MaxTip = 1
    MaxFaults = 1
INVARIANTS OkIsStored ResolvedIsOwn
CHECK_DEADLOCK FALSE
PROPERTIES RelaysDeliver
