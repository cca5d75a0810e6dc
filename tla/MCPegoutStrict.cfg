SPECIFICATION Spec
CONSTANTS
    N = 2
    K = 2
    ProposeAfter = 1
    Never = Never
    ResignAfter = Never
    Skew = 0
    None = None
    tx1 = tx1
    Burns = {b1, b2}
    TxOf <- OneTx
    HeightOf <- OneHeight
    Coins = {c1, c2}
    MaxTime = 3
    LastProposal = 1
SYMMETRY BurnAndCoinSymmetry
INVARIANTS
    BurnVotesRespectWindow
    PaidOnce
    RecordedWasPaid
