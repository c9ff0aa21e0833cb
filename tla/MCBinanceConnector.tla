-------------------------- MODULE MCBinanceConnector --------------------------
\* Two interchangeable callers; weights and times scaled down.
EXTENDS BinanceConnector, TLC
CONSTANTS c1, c2

MCCallers == {c1, c2}
CallerSymmetry == Permutations(MCCallers)
=============================================================================
