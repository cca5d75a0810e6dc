----------------------------- MODULE MCOverlays -----------------------------
EXTENDS Overlays

MCConfigurations == {{"pool"}, {"markets"}}
MCAmounts == {1, 2}
MCSats == {1, 4}
MCMarketSats == {1, 3}
=============================================================================
