-------------------------- MODULE MCSecretsManager --------------------------
\* Two goroutines that call the manager.
EXTENDS SecretsManager
CONSTANTS g1, g2

MCCallers == {g1, g2}
=============================================================================
