------------------------------ MODULE MCTeller ------------------------------
EXTENDS Teller

MCAccounts == {"alice", "operator"}
MCTweak == [a \in MCAccounts |-> IF a = "alice" THEN 6 ELSE 3]
MCValues == {700, 1200}
MCWanted == {600}
=============================================================================
