------------------------------ MODULE MCFaucet ------------------------------
(***************************************************************************)
(* A faucet with two plain coins and two carriers, and a user with a coin, *)
(* a coinbase and a carrier.  Two requests name one script in two ways; to *)
(* a faucet of satoshis alone, others name what is no key's script.        *)
(***************************************************************************)
EXTENDS Faucet

Gold == <<"gold">>
SmallAssets == {{Gold}, {}}
SmallReserve == ScriptFor("reserve")
SmallDoc == [id |-> "chain", hash |-> "hash", federation |-> TRUE, signer |-> {}, challenge |-> ScriptFor("peg"),
             refundBlocks |-> 9]

Coin(i, key, value, carry, coinbase) ==
    [op |-> <<<<"genesis">>, i>>, script |-> ScriptFor(key), value |-> value, height |-> 0,
     coinbase |-> coinbase, carry |-> carry]
SmallCoins ==
    {Coin(1, "faucet", 60, {}, FALSE), Coin(2, "faucet", 28, {}, FALSE),
     Coin(3, "faucet", 2, {<<Gold, 2>>}, FALSE), Coin(4, "faucet", 2, {<<Gold, 1>>}, FALSE),
     Coin(5, "user", 20, {}, FALSE), Coin(6, "user", 9, {}, TRUE), Coin(7, "user", 2, {<<Gold, 3>>}, FALSE)}

Ask(id, chain, to) == [id |-> id, chain |-> chain, to |-> to]
ToUser == Ask(1, "chain", <<"address", ScriptFor("user")>>)
SmallRequests ==
    [asset \in SmallAssets |->
        IF asset # {} THEN {ToUser, Ask(3, "chain", <<"script", ScriptFor("user")>>),
                            Ask(4, "chain", <<"address", ScriptFor("faucet")>>)}
        ELSE {ToUser, Ask(5, "chain", <<"hex64", "other">>), Ask(6, "chain", <<"script", <<"byte", "any">>>>)}]

Give(what, to, amount, asset, fee, post, elsewhere) ==
    [what |-> what, to |-> to, amount |-> amount, asset |-> asset, memos |-> <<>>, fee |-> fee,
     post |-> post, elsewhere |-> elsewhere]
Other == <<"npub", "other">>
SmallCommands ==
    {Give("send", Other, 5, Gold, {}, TRUE, FALSE), Give("send", Other, 14, Gold, {4}, FALSE, FALSE),
     Give("send", <<"hex64", "other">>, 5, Gold, {}, FALSE, FALSE), Give("send", Other, 6, Gold, {}, FALSE, TRUE),
     Give("burn", <<"address", ScriptFor("other")>>, 6, Gold, {}, FALSE, FALSE),
     Give("burn", <<"hex64", "other">>, 6, Gold, {}, FALSE, FALSE),
     Give("burn", <<"script", <<"byte", "any">>>>, 6, Gold, {}, FALSE, FALSE),
     Give("evm", <<"evm", "other">>, 6, Gold, {}, FALSE, FALSE), Give("transfer", Other, 2, Gold, {}, FALSE, FALSE),
     Give("transfer", Other, 4, Gold, {}, FALSE, FALSE), Give("issue", Other, 5, <<"new">>, {}, FALSE, FALSE)}
SmallRules == {"assets", "evm"}
=============================================================================
