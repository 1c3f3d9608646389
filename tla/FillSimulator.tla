---------------------------- MODULE FillSimulator ----------------------------
(***************************************************************************)
(* crates/phantom-strategy/src/simulation.rs: FillSimulator runs a fill    *)
(* without sending it.  Its three requests to the node are answered at     *)
(* three moments of a chain that goes on, all under one timeout.           *)
(*                                                                         *)
(* The clock counts blocks.  A transaction is what it does at each block:  *)
(* whether it passes there and the gas it needs.                           *)
(***************************************************************************)
EXTENDS Integers, Sequences

CONSTANTS
    SimTasks,         \* tasks that simulate
    GasNeeds,         \* gas a transaction may need
    GasLimits,        \* gas_limit of the requests that name one
    DefaultGasLimit,  \* config.default_gas_limit
    BufferBps,        \* config.gas_buffer_bps
    GasMax,           \* u64::MAX
    SimTimeout,       \* config.timeout_ms, in blocks
    MaxHeight         \* bound of the chain, for TLC

ASSUME SimAssumption ==
    /\ GasNeeds \subseteq 0 .. GasMax /\ GasLimits \subseteq 0 .. GasMax
    /\ DefaultGasLimit \in 0 .. GasMax
    /\ BufferBps \in Nat /\ GasMax \in Nat /\ SimTimeout \in Nat

VARIABLES
    simChain,  \* the transaction at each block, the latest last
    sim        \* what each task has at hand of its simulation

simVars == <<simChain, sim>>

Effects == [passes : BOOLEAN, needs : GasNeeds]
Height == Len(simChain)
Latest == simChain[Height]

\* No simulation, or one that has ended with an error.
NoSim == [at |-> "idle", limit |-> 0, block |-> 0, raw |-> 0, used |-> 0,
          since |-> 0, until |-> 0]

SimInit ==
    /\ \E e \in Effects : simChain = <<e>>
    /\ sim = [t \in SimTasks |-> NoSim]

Waiting(s) == s.at \in {"block", "call", "estimate"}

-----------------------------------------------------------------------------
\* request.gas_limit.unwrap_or(default_gas_limit)
Simulate(t, limit) ==
    /\ sim[t].at = "idle"
    /\ sim' = [sim EXCEPT ![t] = [NoSim EXCEPT !.at = "block", !.limit = limit, !.since = Height]]
    /\ UNCHANGED simChain

BlockNumber(t) ==
    /\ sim[t].at = "block"
    /\ sim' = [sim EXCEPT ![t] = [@ EXCEPT !.at = "call", !.block = Height]]
    /\ UNCHANGED simChain

\* SimulationFailed without a block number, EvaluationTimeout at any await.
SimulationEnds(t) ==
    /\ Waiting(sim[t])
    /\ sim' = [sim EXCEPT ![t] = NoSim]
    /\ UNCHANGED simChain

\* A result: what the node estimated, and what is told to the caller.
Report(t, outcome, raw, used) ==
    sim' = [sim EXCEPT ![t] = [@ EXCEPT !.at = outcome, !.raw = raw, !.used = used, !.until = Height]]

\* The transaction passes within a gas limit.
Passes(effect, limit) == effect.passes /\ effect.needs <= limit

CallPasses(t) ==
    /\ sim[t].at = "call"
    /\ Passes(Latest, sim[t].limit)
    /\ sim' = [sim EXCEPT ![t].at = "estimate"]
    /\ UNCHANGED simChain

\* The node refuses the call, or does not answer it: both are a revert.
CallFails(t) ==
    /\ sim[t].at = "call"
    /\ Report(t, "revert", sim[t].limit, sim[t].limit)
    /\ UNCHANGED simChain

\* The estimate with its buffer, computed in u128.
ApplyGasBuffer(gas) ==
    LET buffered == (gas * BufferBps) \div 10000
    IN  IF buffered > GasMax THEN GasMax ELSE buffered

EstimateGas(t) ==
    /\ sim[t].at = "estimate"
    /\ Passes(Latest, sim[t].limit)
    /\ Report(t, "success", Latest.needs, ApplyGasBuffer(Latest.needs))
    /\ UNCHANGED simChain

\* The transaction does not pass any more, or the node does not answer: the
\* limit stands in for the estimate.
EstimateFails(t) ==
    /\ sim[t].at = "estimate"
    /\ Report(t, "success", sim[t].limit, sim[t].limit)
    /\ UNCHANGED simChain

\* The caller has read the result.
ResultRead(t) ==
    /\ sim[t].at \in {"success", "revert"}
    /\ sim' = [sim EXCEPT ![t] = NoSim]
    /\ UNCHANGED simChain

\* The timeout ends a simulation before more blocks come.
NextBlock(e) ==
    /\ Height < MaxHeight
    /\ \A t \in SimTasks : Waiting(sim[t]) => Height < sim[t].since + SimTimeout
    /\ simChain' = Append(simChain, e)
    /\ UNCHANGED sim

-----------------------------------------------------------------------------
RunSimulation(t) ==
    \/ \E limit \in GasLimits \union {DefaultGasLimit} : Simulate(t, limit)
    \/ BlockNumber(t) \/ SimulationEnds(t) \/ CallPasses(t) \/ CallFails(t)
    \/ EstimateGas(t) \/ EstimateFails(t) \/ ResultRead(t)

SimNext == (\E t \in SimTasks : RunSimulation(t)) \/ \E e \in Effects : NextBlock(e)

SimSpec == SimInit /\ [][SimNext]_simVars

-----------------------------------------------------------------------------
(* Properties                                                              *)

\* A success is about the chain as it was between the block it names and its
\* end, which a timeout at most separates: the transaction passed at one of
\* these blocks within its limit, and the gas is what it needed at one of them,
\* with the buffer, or the limit, without (simulation.rs:120-212).
SuccessIsRecent ==
    \A t \in SimTasks : sim[t].at = "success" =>
        LET s == sim[t]
            seen == s.block .. s.until
        IN  /\ s.until <= s.block + SimTimeout
            /\ \E b \in seen : Passes(simChain[b], s.limit)
            /\ \/ s.raw = s.limit /\ s.used = s.limit
               \/ /\ \E b \in seen : Passes(simChain[b], s.limit) /\ simChain[b].needs = s.raw
                  /\ s.used = ApplyGasBuffer(s.raw)
            /\ BufferBps >= 10000 => s.used >= s.raw
=============================================================================
