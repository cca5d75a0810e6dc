SPECIFICATION Spec
CONSTANTS
    Nodes = {n1, n2}
    WalletNodes = {n2}
    ChainId = "c"
    Challenge <- MCChallenge
    PegConfirmations = 2
    From = 1
    RawLimit = 3
    Txs <- MCTxs
    Outputs <- MCOutputs
    Funded = {}
    MaxParent = 3
    MaxEvents = 2
INVARIANT ClaimsStayBacked
 
CHECK_DEADLOCK FALSE
