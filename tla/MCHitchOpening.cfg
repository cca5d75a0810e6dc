SPECIFICATION Spec
CONSTANTS
    Offers <- SmallOffers
    MinOpen = 3
    Dust = 1
    MaxAmount = 5
    MinDelay = 2
    MaxFails = 1
    MaxDeaths = 2
    MaxLosses = 2
INVARIANTS
    FundingIsRecoverable
    AnswersAreSaved
PROPERTIES
    OpeningCompletes
CHECK_DEADLOCK FALSE
