-------------------------- MODULE SettlementLedger --------------------------
(***************************************************************************)
(* What the settlement contract promises its readers: a fill is entered    *)
(* once, is never altered or taken out, and the total counts the entries.  *)
(* Disputes and the recorders' permissions are not part of it.             *)
(***************************************************************************)
EXTENDS Integers

CONSTANTS
    Hashes,  \* order hashes
    Fills    \* what is entered for a fill: filler, amounts and time

VARIABLES
    entered,  \* the entry of each hash, a set of at most one
    total     \* number of entries

LedgerInit ==
    /\ entered = [h \in Hashes |-> {}]
    /\ total = 0

Enter(h) ==
    /\ entered[h] = {}
    /\ \E f \in entered'[h] : f \in Fills /\ entered' = [entered EXCEPT ![h] = {f}]
    /\ total' = total + 1

LedgerNext == \E h \in Hashes : Enter(h)

LedgerSpec == LedgerInit /\ [][LedgerNext]_<<entered, total>>
=============================================================================
