----------------------------- MODULE MCRelayNet -----------------------------
EXTENDS RelayNet
MCDoc == [id |-> "a", signer |-> {"s"}, signers |-> {}, challenge |-> <<"p2tr", "s">>]
RivalDoc == [id |-> "a", signer |-> {"x"}, signers |-> {}, challenge |-> <<"p2tr", "x">>]
RivalChain == SignChainEvent("x", RivalDoc, 0)
RivalTip == SignTipWithPeg("x", WithChainHash(CHOOSE t \in
    TipTemplate("a", 3, <<<<"stock", "b", 3>>>>, <<"m2">>) : TRUE, RivalChain.id), {}, 0)
\* A tip of the chain's own signer for a chain it sealed before under the same alias.
OldTip == SignTipWithPeg("s", WithChainHash(CHOOSE t \in
    TipTemplate("a", 3, <<<<"stock", "c", 3>>>>, <<"m">>) : TRUE,
    SignChainEvent("s", [MCDoc EXCEPT !.challenge = <<"old">>], 0).id), {}, 0)
\* A tip of a chain made before chain events: only its mirror's document vouches for it.
LegacyTip == SignTipWithPeg("x", CHOOSE t \in TipTemplate("a", 3, <<>>, <<"m", "m2">>) : TRUE, {}, 0)
\* A transaction from before, which arrives beside the agent's payment.
MCEarlier == SignTransactionEvent("x", "a", "other", 1)
MCForeign == {RivalTip, OldTip, LegacyTip}
MCRivalServes == [doc |-> {RivalDoc}, event |-> {RivalChain}]
MCAsks == {[alias |-> {"a"}, hash |-> {}], [alias |-> {}, hash |-> {ChainHash}]}
=============================================================================
