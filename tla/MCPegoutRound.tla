--------------------------- MODULE MCPegoutRound ---------------------------
EXTENDS PegoutRound, TLC

CONSTANT tx1

\* The burns are those of one transaction, at height 1.
OneTx == [b \in Burns |-> tx1]
OneHeight == [b \in Burns |-> 1]

\* No burn and no coin is told from another.
BurnAndCoinSymmetry == Permutations(Burns) \cup Permutations(Coins)
============================================================================
