--------------------------- MODULE NonceDispenser ---------------------------
(***************************************************************************)
(* What the nonce manager of phantom-execution promises its callers, and   *)
(* nothing of how it does it: for every key (an address on a chain) it     *)
(* hands out nonces, never the same one twice, until somebody deliberately *)
(* restarts the key (sync_nonce or reset).  NonceManager implements it.    *)
(***************************************************************************)
EXTENDS Naturals

CONSTANT Keys

VARIABLES
    given,   \* given[k]: the nonces handed out since k was last restarted
    grants   \* grants[k]: how many times one was handed out since then

vars == <<given, grants>>

Init == given = [k \in Keys |-> {}] /\ grants = [k \in Keys |-> 0]

\* A caller receives a nonce nobody received since the last restart of k.
Give(k) ==
    /\ \E n \in given'[k] \ given[k] : given' = [given EXCEPT ![k] = @ \union {n}]
    /\ grants' = [grants EXCEPT ![k] = @ + 1]

\* The tracking of k is overwritten or removed.
Restart(k) ==
    /\ given' = [given EXCEPT ![k] = {}]
    /\ grants' = [grants EXCEPT ![k] = 0]

Next == \E k \in Keys : Give(k) \/ Restart(k)

Spec == Init /\ [][Next]_vars
=============================================================================
