SPECIFICATION TellerSpec
CONSTANTS
    Order = 7
    Accounts <- MCAccounts
    Operator = "operator"
    Tweak <- MCTweak
    Ids = {1, 2}
    MinPay = 546
    Dust = 330
    MaxSats = 100000
    Rate = 1
    Secrets = {2, 5}
    Values <- MCValues
    Wanted <- MCWanted
    MaxDeposits = 2
    MaxRequests = 2
    MaxPublished = 2
CHECK_DEADLOCK FALSE
INVARIANTS
    EveryChangeIsSigned
    DepositsCanBeSpent
