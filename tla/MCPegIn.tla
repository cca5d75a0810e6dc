------------------------------ MODULE MCPegIn ------------------------------
EXTENDS PegIn

MCChallenge == <<"tr", "peg">>
Out(spk, value) == [spk |-> spk, value |-> value]
Marker(chain, script) == Out(Data(PegMarkerData(chain, script)), 0)

\* The marker of another chain, the payer's change, then two outputs that pay the peg
\* around the marker.
\* And a marker of the chain beside a taproot output that is not the peg's.
MCOutputs ==
    [pegin |-> <<Marker("d", <<1>>), Out(<<"tr", "other">>, 9), Out(MCChallenge, 3),
                 Marker("c", <<1, 2, 3, 4>>), Out(MCChallenge, 4)>>,
     stray |-> <<Out(<<"tr", "other">>, 5), Marker("c", <<1>>)>>]
MCTxs == {"pegin", "stray"}
=============================================================================
