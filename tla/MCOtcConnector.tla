--------------------------- MODULE MCOtcConnector ---------------------------
\* Two interchangeable callers, a window of two clock ticks.
EXTENDS OtcConnector, TLC
CONSTANTS c1, c2

MCCallers == {c1, c2}
CallerSymmetry == Permutations(MCCallers)
=============================================================================
