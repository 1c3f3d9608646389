----------------------------- MODULE ArbStrategy -----------------------------
(***************************************************************************)
(* crates/phantom-strategy/src/arb.rs: SimpleArbStrategy decides whether   *)
(* to fill an order.  It reads the clock, waits for a quote of what the    *)
(* order's output costs and calculates the profit.                         *)
(*                                                                         *)
(* The orders are ones the reactor accepts, so their deadline is not       *)
(* before the end of the decay.                                            *)
(***************************************************************************)
EXTENDS DutchOrder

CONSTANTS
    ArbTasks,     \* evaluations under way
    RawOrders,    \* encoded orders
    Costs,        \* what the quoter may answer, in input tokens
    GasCosts,     \* (base_fee + priority_fee) * default_gas_limit
    MinProfitWei, \* config.min_profit_wei
    MinProfitBps, \* config.min_profit_bps
    MaxGasCost,   \* config.max_gas_cost_wei
    MaxSeconds    \* bound of the clock, for TLC

ASSUME ArbAssumption ==
    /\ MinProfitWei \in Nat /\ MinProfitBps \in Nat /\ MaxGasCost \in Nat
    /\ Costs \subseteq Nat /\ GasCosts \subseteq Nat
    /\ RawOrders \subseteq [decayStart : Nat, decayEnd : Nat, deadline : Nat, input : Nat,
                            outputs : Seq([start : Nat, end : Nat])]
    /\ \A raw \in RawOrders :
         raw.decayStart <= raw.decayEnd /\ raw.decayEnd <= raw.deadline

VARIABLES
    arb,      \* per task: where it is, its order, the output it asked a quote for
    arbClock  \* Utc::now()

arbVars == <<arb, arbClock>>

NoArb == [at |-> "idle", raw |-> {}, quoted |-> 0, gas |-> 0, decision |-> {}]

ArbInit ==
    /\ arb = [t \in ArbTasks |-> NoArb]
    /\ arbClock = 0

\* compute_confidence
ArbConfidence(profit, gas) ==
    LET ratio == profit \div gas IN
    CASE gas = 0                    -> 95
      [] gas > 0 /\ ratio >= 20     -> 95
      [] gas > 0 /\ ratio \in 10..19 -> 90
      [] gas > 0 /\ ratio \in 5..9  -> 75
      [] gas > 0 /\ ratio \in 2..4  -> 60
      [] gas > 0 /\ ratio = 1       -> 50
      [] gas > 0 /\ ratio = 0       -> 40

NetProfit(input, cost, gas) == Monus(input - cost, gas)

\* evaluate after the quote: a decision, or nothing when the cost, the gas or
\* the profit is out of bounds.
Decide(order, cost, gas) ==
    LET profit == NetProfit(order.input, cost, gas) IN
    IF /\ cost < order.input
       /\ gas <= MaxGasCost
       /\ profit >= MinProfitWei
       /\ (profit * 10000) \div order.input >= MinProfitBps
    THEN {[profit |-> profit, gas |-> gas, cost |-> cost,
           confidence |-> ArbConfidence(profit, gas)]}
    ELSE {}

\* An order that was decoded and validated is evaluated: before the first
\* await.  Only its first output counts.
Evaluate(t, raw, gas) ==
    LET order == Decode(raw) IN
    /\ arb[t].at = "idle"
    /\ Valid(order, arbClock)
    /\ arb' = [arb EXCEPT ![t] = [NoArb EXCEPT !.at = "quoting", !.raw = {raw}, !.gas = gas,
                                               !.quoted = CurrentOutput(order, 1, arbClock)]]
    /\ UNCHANGED arbClock

\* An order that was not validated may be expired or without outputs.
Skip(t, raw) ==
    LET order == Decode(raw) IN
    /\ arb[t].at = "idle"
    /\ Expired(order, arbClock) \/ order.outputs = << >>
    /\ arb' = [arb EXCEPT ![t] = [NoArb EXCEPT !.at = "skipped"]]
    /\ UNCHANGED arbClock

\* quote_cost answers, whenever it does.
QuoteArrives(t, cost) ==
    /\ arb[t].at = "quoting"
    /\ \E raw \in arb[t].raw :
         LET found == Decide(Decode(raw), cost, arb[t].gas) IN
         arb' = [arb EXCEPT ![t].at = IF found = {} THEN "skipped" ELSE "decided",
                            ![t].decision = found]
    /\ UNCHANGED arbClock

QuoteFails(t) ==
    /\ arb[t].at = "quoting"
    /\ arb' = [arb EXCEPT ![t].at = "skipped"]
    /\ UNCHANGED arbClock

\* The decision is taken over by the pipeline.
Decided(t) ==
    /\ arb[t].at \in {"decided", "skipped"}
    /\ arb' = [arb EXCEPT ![t] = NoArb]
    /\ UNCHANGED arbClock

SecondPasses ==
    /\ arbClock < MaxSeconds
    /\ arbClock' = arbClock + 1
    /\ UNCHANGED arb

ArbTask(t) ==
    \/ \E raw \in RawOrders, gas \in GasCosts : Evaluate(t, raw, gas)
    \/ \E raw \in RawOrders : Skip(t, raw)
    \/ \E cost \in Costs : QuoteArrives(t, cost)
    \/ QuoteFails(t)
    \/ Decided(t)

ArbNext == SecondPasses \/ \E t \in ArbTasks : ArbTask(t)

ArbSpec == ArbInit /\ [][ArbNext]_arbVars

-----------------------------------------------------------------------------
(* Properties                                                              *)

\* However long the quote took, a decision pays for what the reactor requires
\* at any later moment of the order's life: the output it was quoted is enough
\* by the undecoded order, and cost, gas and profit together are the input, so
\* a fill that is decided on makes no loss (arb.rs:98-208, with its minimum
\* profits set).
DecisionCovers ==
    \A t \in ArbTasks : \A d \in arb[t].decision : \A raw \in arb[t].raw :
        arb[t].at = "decided" /\ MinProfitWei > 0 =>
            /\ CurrentOutput(raw, 1, arbClock) <= arb[t].quoted
            /\ d.cost + d.gas + d.profit = raw.input
            /\ d.profit >= MinProfitWei
=============================================================================
