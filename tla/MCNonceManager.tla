--------------------------- MODULE MCNonceManager ---------------------------
\* NonceManager on small instances.
EXTENDS NonceManager, TLC

CallerSymmetry == Permutations(Callers)
=============================================================================
