-------------------------- MODULE MCKrakenConnector --------------------------
\* Two interchangeable callers; costs and decay scaled down from 6, 2 and 3 s.
EXTENDS KrakenConnector, TLC
CONSTANTS c1, c2

MCCallers == {c1, c2}
CallerSymmetry == Permutations(MCCallers)
=============================================================================
