--------------------------- MODULE MCCircuitBreaker ---------------------------
\* CircuitBreaker on small instances.
EXTENDS CircuitBreaker, TLC

CallerSymmetry == Permutations(Callers)
=============================================================================
