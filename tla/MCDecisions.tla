----------------------------- MODULE MCDecisions -----------------------------
(***************************************************************************)
(* How an order becomes a decision, on small instances: the order book,    *)
(* the prices, the fees, the strategies that are asked, the arbitrage      *)
(* strategy itself and the simulation of a fill.  They share nothing: a    *)
(* behaviour is one of the component `focus` names, the others stay in     *)
(* their first state.                                                      *)
(***************************************************************************)
EXTENDS OrderBook, PriceAggregator, GasOracle, StrategyPipeline, ArbStrategy,
        FillSimulator, TLC

CONSTANTS x1, x2

VARIABLE focus

decisionVars == <<focus, vars, priceVars, gasVars, pipelineVars, arbVars, simVars>>

DecisionsInit ==
    /\ focus \in {"book", "price", "gas", "pipeline", "arb", "simulation"}
    /\ Init /\ PriceInit /\ GasInit /\ PipelineInit /\ ArbInit /\ SimInit
    /\ focus # "simulation" => simChain = <<[passes |-> TRUE, needs |-> 2]>>
    /\ focus # "book" => \A d \in Discoverers : found[d] = x1

BookStep ==
    focus = "book" /\ Next /\ UNCHANGED <<focus, priceVars, gasVars, pipelineVars, arbVars, simVars>>
PriceStep ==
    focus = "price" /\ PriceNext /\ UNCHANGED <<focus, vars, gasVars, pipelineVars, arbVars, simVars>>
GasStep ==
    focus = "gas" /\ GasNext /\ UNCHANGED <<focus, vars, priceVars, pipelineVars, arbVars, simVars>>
PipelineStep ==
    focus = "pipeline" /\ PipelineNext /\ UNCHANGED <<focus, vars, priceVars, gasVars, arbVars, simVars>>
ArbStep ==
    focus = "arb" /\ ArbNext /\ UNCHANGED <<focus, vars, priceVars, gasVars, pipelineVars, simVars>>
SimulationStep ==
    focus = "simulation" /\ SimNext /\ UNCHANGED <<focus, vars, priceVars, gasVars, pipelineVars, arbVars>>

DecisionsNext == BookStep \/ PriceStep \/ GasStep \/ PipelineStep \/ ArbStep \/ SimulationStep

DecisionsSpec == DecisionsInit /\ [][DecisionsNext]_decisionVars

\* One order is due a tick before the other.
Deadlines == x1 :> 0 @@ x2 :> 1

SomePairs == {[base |-> "weth", quote |-> "usdc", chain |-> 1]}

\* One exchange of each kind, and one of another chain.
SomeSources == {[kind |-> "uniswap_v3", chain |-> 1], [kind |-> "curve", chain |-> 1],
                [kind |-> "balancer_v2", chain |-> 1], [kind |-> "curve", chain |-> 42161]}

\* The multipliers of the urgency levels low and high.
LevelBps == [low |-> 10000, high |-> 15000]

\* More profit, more confidence, a tie of both, and one below each threshold.
SomeDecisions ==
    {[profit |-> p[1], confidence |-> p[2]] : p \in {<<10, 60>>, <<12, 40>>, <<9, 90>>, <<11, 60>>}}

Order(start, end, deadline, input, outputs) ==
    [decayStart |-> start, decayEnd |-> end, deadline |-> deadline,
     input |-> input, outputs |-> outputs]

Out(start, end) == [start |-> start, end |-> end]

\* A decay over three seconds, one in no time, outputs that grow, a deadline
\* chrono cannot represent, an order without outputs.
SomeOrders == {
    Order(1, 4, 4, 20, <<Out(10, 3)>>),
    Order(2, 2, 3, 20, <<Out(10, 3)>>),
    Order(1, 3, 4, 20, <<Out(3, 10)>>),
    Order(1, 3, 9, 20, <<Out(8, 8), Out(1, 0)>>),
    Order(0, 9, 9, 20, << >>)}

DecisionsSymmetry ==
    Permutations(PriceTasks) \union Permutations(GasTasks)
=============================================================================
