---------------------------- MODULE MCChainStore ----------------------------
(***************************************************************************)
(* Five transactions on a genesis of three coins: 1 pays and burns, 2      *)
(* spends the same coin as 1, 3 waits one block and is refused by a        *)
(* further rule, 4 spends an output of 1 after it is two blocks old, 5 has *)
(* a time for an nLockTime that block 1 is too early for, and signature    *)
(* operations that leave no room for those of 1.                           *)
(***************************************************************************)
EXTENDS ChainStore

SmallPegs == <<4, 3, 2>>
SmallTimes == <<1, 2, 3>>

Pay(v) == [v |-> v, kind |-> "pay"]
Burn(v) == [v |-> v, kind |-> "burn"]

Plain == [ins |-> {<<"cb", 0, 1>>}, outs |-> <<Pay(2)>>, w |-> 1, ops |-> 0,
          wait |-> 0, span |-> FALSE, lock |-> 0, until |-> 0]
SmallTxs ==
    [t \in 1 .. 5 |->
        CASE t = 1 -> [Plain EXCEPT !.outs = <<Pay(1), Burn(2)>>, !.ops = 1]
          [] t = 2 -> Plain
          [] t = 3 -> [Plain EXCEPT !.ins = {<<"cb", 0, 2>>}, !.outs = <<Pay(1)>>, !.lock = 1]
          [] t = 4 -> [Plain EXCEPT !.ins = {<<"tx", 1, 1>>}, !.outs = <<>>, !.wait = 2]
          [] t = 5 -> [Plain EXCEPT !.ins = {<<"cb", 0, 3>>}, !.outs = <<>>, !.ops = 1, !.until = 1]]

SmallLists == {<<>>, <<1>>, <<2>>, <<1, 2>>, <<1, 4>>, <<3>>, <<5>>}
Claim(v) == [op |-> "peg", v |-> v]
SmallClaims == {<<>>, <<Claim(1)>>, <<Claim(1), Claim(1)>>}
OneClaim == {<<>>, <<Claim(1)>>}
SmallFees == {0, 1}
=============================================================================
