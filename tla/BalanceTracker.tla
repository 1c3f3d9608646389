--------------------------- MODULE BalanceTracker ---------------------------
(***************************************************************************)
(* crates/phantom-inventory/src/balance.rs: BalanceTracker, one map of     *)
(* balances that tasks refresh from the chain, each map access a step.     *)
(*                                                                         *)
(* An amount is known by the moment at which the node read it off the      *)
(* chain: all that matters about it is how old it is.                      *)
(***************************************************************************)
EXTENDS Integers, FiniteSetsExt, Functions

CONSTANTS
    BalanceTasks,    \* tasks that refresh and clear balances
    Wallets,         \* wallets, each on its chain
    WalletTokens,    \* tokens, the native one included
    MaxEntries,      \* config.max_entries
    StaleThreshold,  \* config.stale_threshold_secs
    MaxDelay,        \* the network: longest way from the node's read to the map
    MaxTime          \* bound: the clock stops here

BalanceKeys == Wallets \X WalletTokens

ASSUME BalanceAssumption ==
    /\ IsFiniteSet(BalanceTasks) /\ BalanceTasks # {}
    /\ MaxEntries \in Nat /\ StaleThreshold \in Nat
    /\ MaxDelay \in Nat /\ MaxTime \in Nat

VARIABLES
    balances,   \* balances: the tracked entries [amount, updatedAt]
    refresh,    \* what each task is doing, with its local variables
    now         \* the system clock

balanceVars == <<balances, refresh, now>>

Free == [at |-> "idle"]

BalanceInit ==
    /\ balances = << >>
    /\ refresh = [t \in BalanceTasks |-> Free]
    /\ now = 0

Keys == DOMAIN balances
Ends(t) == refresh' = [refresh EXCEPT ![t] = Free]
Moves(t, label) == refresh' = [refresh EXCEPT ![t].at = label]

-----------------------------------------------------------------------------
(* refresh_native_balance and update_balance                               *)

\* The node answers with the balance of this moment, or the caller of
\* update_balance has it from elsewhere; a failed request changes nothing.
Fetch(t, k) ==
    /\ refresh[t].at = "idle"
    /\ refresh' = [refresh EXCEPT ![t] = [at |-> "answer", key |-> k, amount |-> now]]
    /\ UNCHANGED <<balances, now>>

CheckLen(t) ==
    /\ refresh[t].at = "answer"
    /\ Moves(t, IF Cardinality(Keys) >= MaxEntries THEN "full" ELSE "admitted")
    /\ UNCHANGED <<balances, now>>

\* A full map still takes a new amount for a key it has.
CheckKnown(t) ==
    /\ refresh[t].at = "full"
    /\ IF refresh[t].key \in Keys THEN Moves(t, "admitted") ELSE Ends(t)
    /\ UNCHANGED <<balances, now>>

\* The entry is dated with the time of its insertion.
Insert(t) ==
    LET k == refresh[t].key IN
    /\ refresh[t].at = "admitted"
    /\ balances' = [x \in Keys \union {k} |->
            IF x = k THEN [amount |-> refresh[t].amount, updatedAt |-> now] ELSE balances[x]]
    /\ Ends(t)
    /\ UNCHANGED now

-----------------------------------------------------------------------------
(* clear_wallet and clear_all                                              *)

ClearBegins(t, w) ==
    /\ refresh[t].at = "idle"
    /\ refresh' = [refresh EXCEPT ![t] = [at |-> "scan", left |-> {w} \X WalletTokens, found |-> {}]]
    /\ UNCHANGED <<balances, now>>

\* The walk over the map comes by one key.
ClearVisits(t, k) ==
    /\ refresh[t].at = "scan" /\ k \in refresh[t].left
    /\ refresh' = [refresh EXCEPT ![t].left = @ \ {k},
                                  ![t].found = IF k \in Keys THEN @ \union {k} ELSE @]
    /\ UNCHANGED <<balances, now>>

\* One key that was found is removed, whatever its entry is by now.
ClearRemoves(t, k) ==
    /\ refresh[t].at = "scan" /\ refresh[t].left = {} /\ k \in refresh[t].found
    /\ balances' = Restrict(balances, Keys \ {k})
    /\ refresh' = [refresh EXCEPT ![t].found = @ \ {k}]
    /\ UNCHANGED now

ClearEnds(t) ==
    /\ refresh[t].at = "scan" /\ refresh[t].left = {} /\ refresh[t].found = {}
    /\ Ends(t)
    /\ UNCHANGED <<balances, now>>

\* clear_all empties the map part by part; a part may be of one key.
ClearPart ==
    /\ \E k \in Keys : balances' = Restrict(balances, Keys \ {k})
    /\ UNCHANGED <<refresh, now>>

\* No answer travels longer than MaxDelay.
ClockTicks ==
    /\ now < MaxTime
    /\ \A t \in BalanceTasks :
            refresh[t].at \in {"answer", "full", "admitted"} => now < refresh[t].amount + MaxDelay
    /\ now' = now + 1
    /\ UNCHANGED <<balances, refresh>>

-----------------------------------------------------------------------------
RefreshStep(t) ==
    \/ \E k \in BalanceKeys : Fetch(t, k)
    \/ CheckLen(t) \/ CheckKnown(t) \/ Insert(t)

ClearStep(t) ==
    \/ \E w \in Wallets : ClearBegins(t, w)
    \/ \E k \in BalanceKeys : ClearVisits(t, k) \/ ClearRemoves(t, k)
    \/ ClearEnds(t)

BalanceNext ==
    \/ \E t \in BalanceTasks : RefreshStep(t) \/ ClearStep(t)
    \/ ClearPart
    \/ ClockTicks

BalanceSpec == BalanceInit /\ [][BalanceNext]_balanceVars

-----------------------------------------------------------------------------
(* Properties                                                              *)

\* Faulty: stale one second later.
Stale_Late(k) == k \notin Keys \/ now - balances[k].updatedAt > StaleThreshold + 1

\* is_stale; an unknown balance is stale.
Stale(k) == k \notin Keys \/ now - balances[k].updatedAt > StaleThreshold

\* get_balance: an amount, or none.
Balance(k) == {balances[x].amount : x \in Keys \intersect {k}}

\* get_wallet_balances, as if the walk took no time.
WalletBalances(w) ==
    {[key |-> k, amount |-> balances[k].amount, isStale |-> Stale(k)] :
        k \in Keys \intersect ({w} \X WalletTokens)}

\* chain_summary of the chain that these wallets are on
ChainSummary(chain) ==
    LET of == {k \in Keys : k[1] \in chain} IN
    [entries |-> Cardinality(of), wallets |-> Cardinality({k[1] : k \in of}),
     stale |-> Cardinality({k \in of : Stale(k)})]

\* What get_balance or get_wallet_balances returns was on the chain no longer
\* ago than the threshold and the way of one answer together, unless is_stale
\* says otherwise: an answer that arrives late, over a younger one that overtook
\* it, is dated with its arrival (balance.rs:138-146, 170-212).  A summary
\* without stale entries promises it of all entries of its chain, and they are
\* more than the limit only by the tasks that had passed the check together
\* (balance.rs:119-130, 266-292).
FreshIsRecent ==
    LET Recent(amount) == now - amount <= StaleThreshold + MaxDelay IN
    /\ \A k \in BalanceKeys : ~Stale(k) => Balance(k) # {} /\ \A a \in Balance(k) : Recent(a)
    /\ \A w \in Wallets : \A b \in WalletBalances(w) : b.isStale \/ Recent(b.amount)
    /\ \A chain \in SUBSET Wallets :
         /\ ChainSummary(chain).stale = 0 =>
                \A k \in Keys : k[1] \in chain => Recent(balances[k].amount)
         /\ ChainSummary(chain).entries <= MaxEntries + Cardinality(BalanceTasks) - 1
=============================================================================
