----------------------------- MODULE MCInventory -----------------------------
(***************************************************************************)
(* RiskManager, PnlTracker and BalanceTracker on small instances.  They    *)
(* share nothing: a behaviour is one of the component `focus` names, the   *)
(* others stay in their first state.                                       *)
(***************************************************************************)
EXTENDS RiskManager, PnlTracker, BalanceTracker, TLC

VARIABLE focus

inventoryVars == <<focus, vars, pnlVars, balanceVars>>

InventoryInit ==
    /\ focus \in {"risk", "pnl", "balance"}
    /\ Init /\ PnlInit /\ BalanceInit
    /\ focus # "risk" => \A s \in Submitters : value[s] = 1

InventoryNext ==
    \/ focus = "risk" /\ Next /\ UNCHANGED <<focus, pnlVars, balanceVars>>
    \/ focus = "pnl" /\ PnlNext /\ UNCHANGED <<focus, vars, balanceVars>>
    \/ focus = "balance" /\ BalanceNext /\ UNCHANGED <<focus, vars, pnlVars>>

InventorySpec == InventoryInit /\ [][InventoryNext]_inventoryVars

\* A confirmed fill with a profit, a pending one, a reverted one of the next
\* day that cost gas and has one coin on both sides.
SomeRecords == {
    [status |-> "Confirmed", day |-> "d1", pnl |-> 3, spent |-> "a", received |-> "b"],
    [status |-> "Pending", day |-> "d1", pnl |-> 2, spent |-> "a", received |-> "b"],
    [status |-> "Reverted", day |-> "d2", pnl |-> -1, spent |-> "a", received |-> "a"]}

InventorySymmetry ==
    Permutations(Submitters) \union Permutations(FillIds) \union Permutations(PnlTasks)
=============================================================================
