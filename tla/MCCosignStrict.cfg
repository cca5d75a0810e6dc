SPECIFICATION Spec
CONSTANTS
    N = 3
    K = 2
    ProposeAfter = 0
    ResignAfter = Never
    Never = Never
    MaxFuture = 1
    Skew = 0
    None = None
    MaxHeight = 2
    MaxTime = 1
    LastProposal = 1
    MaxFaults = 2
    TimeSize = 5
    TimeSlack = 1
    MedianSpan = 3
    MaxTxCount = 3
    Meets <- SmallMeets
    MaxNonce = 1
INVARIANTS
    SignaturesAreJournalled
    VotesRespectWindow
    BlocksHaveQuorum
    Agreement
    SealsNeedQuorum
PROPERTY
    ImplementsLedger
