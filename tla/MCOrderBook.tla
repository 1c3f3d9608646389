----------------------------- MODULE MCOrderBook -----------------------------
\* OrderBook on small instances.
EXTENDS OrderBook, TLC

CONSTANTS x1, x2

\* One order is due a tick before the other.
Deadlines == x1 :> 0 @@ x2 :> 1

TaskSymmetry == Permutations(Discoverers) \union Permutations(Cleaners)
=============================================================================
