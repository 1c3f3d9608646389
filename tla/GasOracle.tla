------------------------------ MODULE GasOracle ------------------------------
(***************************************************************************)
(* crates/phantom-pricing/src/gas.rs: GasOracle prices the gas of fills    *)
(* for several tasks from one cached pair of fees, while the base fee of   *)
(* the chain moves with every block.  TransactionBuilder gets the price.   *)
(*                                                                         *)
(* The clock counts blocks.  Fees are in units small enough for TLC; what  *)
(* does not fit in 128 bits is above FeeMax.                               *)
(***************************************************************************)
EXTENDS TransactionBuilder

CONSTANTS
    GasTasks,      \* tasks that ask for a gas price
    Levels,        \* urgency levels
    Bps,           \* the multiplier of each level, in basis points
    FeeMax,        \* u128::MAX
    FeeTtl,        \* config.cache_ttl_seconds, in blocks
    FeeLatency,    \* blocks the provider's two answers may take
    Floor,         \* chain_base_fee_floor
    Fallback,      \* config.fallback_base_fee_gwei
    FallbackTip,   \* config.fallback_priority_fee_gwei
    Tips,          \* priority fees the provider may suggest
    FirstFees,     \* base fees of the chain at the start
    FillGas,       \* gas limits the tasks ask for
    MaxBlocks      \* bound of the chain, for TLC

ASSUME GasAssumption ==
    /\ Bps \in [Levels -> Nat] /\ FeeMax \in Nat
    /\ Tips \subseteq 0 .. FeeMax /\ FallbackTip \in 0 .. FeeMax
    /\ FeeTtl \in Nat /\ FeeLatency \in Nat
    /\ Floor \in Nat /\ Fallback \in Nat /\ FirstFees \subseteq Nat
    /\ FillGas \subseteq Nat

VARIABLES
    fees,      \* the cached base and priority fee, a set of at most one entry
    gasTask,   \* per task: where it is, when it asked, what it was told
    baseFee,   \* base fee of the latest block
    blocks     \* number of blocks so far

gasVars == <<fees, gasTask, baseFee, blocks>>

NoGasTask == [at |-> "idle", since |-> 0, base |-> {}, price |-> {}]

GasInit ==
    /\ fees = {}
    /\ gasTask = [t \in GasTasks |-> NoGasTask]
    /\ baseFee \in FirstFees
    /\ blocks = 0

-----------------------------------------------------------------------------
\* checked_mul of the tip: without room it stays as it is.
ApplyUrgency(tip, level) ==
    IF tip * Bps[level] > FeeMax THEN tip ELSE (tip * Bps[level]) \div 10000

\* Two times the base fee and the tip, or all there is.
ComputeMaxFee(base, tip) == IF 2 * base + tip > FeeMax THEN FeeMax ELSE 2 * base + tip

\* get_gas_price from the two fees.
GasPrice(entry, level) ==
    LET tip == ApplyUrgency(entry.tip, level) IN
    [base |-> entry.base, priority |-> tip,
     maxFee |-> ComputeMaxFee(entry.base, tip), genuine |-> entry.genuine]

\* estimate_fill_cost; the product of 64 and 128 bits fits in U256.
FillCost(gas, price) == gas * price.maxFee

\* Faulty: the entry is not checked for its age.
FreshFees_Ever == fees

FreshFees == {e \in fees : blocks - e.at <= FeeTtl}

-----------------------------------------------------------------------------
(* get_gas_price, estimate_fill_cost                                       *)

UseFees(t, level) ==
    /\ gasTask[t].at = "idle"
    /\ \E e \in FreshFees :
         gasTask' = [gasTask EXCEPT ![t].at = "priced", ![t].price = {GasPrice(e, level)}]
    /\ UNCHANGED <<fees, baseFee, blocks>>

FetchFees(t) ==
    /\ gasTask[t].at = "idle" /\ FreshFees = {}
    /\ gasTask' = [gasTask EXCEPT ![t].at = "base", ![t].since = blocks]
    /\ UNCHANGED <<fees, baseFee, blocks>>

\* fetch_base_fee: the fee of the latest block, at least the floor; with an
\* error or an empty history the fallback.
BaseArrives(t, answered) ==
    /\ gasTask[t].at = "base"
    /\ gasTask' = [gasTask EXCEPT ![t].at = "tip",
         ![t].base = {[fee     |-> IF ~answered THEN Fallback
                                   ELSE IF baseFee > Floor THEN baseFee ELSE Floor,
                       genuine |-> answered]}]
    /\ UNCHANGED <<fees, baseFee, blocks>>

\* fetch_priority_fee, the cache and the price; `suggested` is empty when the
\* provider fails.
TipArrives(t, suggested, level) ==
    /\ gasTask[t].at = "tip"
    /\ \E b \in gasTask[t].base, tip \in IF suggested = {} THEN {FallbackTip} ELSE suggested :
         LET entry == [base |-> b.fee, tip |-> tip, at |-> blocks, genuine |-> b.genuine] IN
         /\ fees' = {entry}
         /\ gasTask' = [gasTask EXCEPT ![t].at = "priced", ![t].price = {GasPrice(entry, level)}]
    /\ UNCHANGED <<baseFee, blocks>>

\* The caller builds its transaction with the price; the oracle is done.
BuildFill(t) ==
    /\ gasTask[t].at = "priced"
    /\ gasTask' = [gasTask EXCEPT ![t] = NoGasTask]
    /\ UNCHANGED <<fees, baseFee, blocks>>

\* invalidate_cache.
DropFees ==
    /\ fees' = {}
    /\ UNCHANGED <<gasTask, baseFee, blocks>>

\* A block: its base fee is an eighth above or below the one before, the most
\* EIP-1559 lets it move.
Block(fee) ==
    /\ blocks < MaxBlocks
    /\ \A t \in GasTasks :
         /\ gasTask[t].at \in {"base", "tip"} => blocks < gasTask[t].since + FeeLatency
         /\ gasTask[t].at # "priced"
    /\ blocks' = blocks + 1
    /\ baseFee' = fee
    /\ UNCHANGED <<fees, gasTask>>

GasTask(t) ==
    \/ \E level \in Levels : UseFees(t, level)
    \/ FetchFees(t)
    \/ \E answered \in BOOLEAN : BaseArrives(t, answered)
    \/ \E suggested \in {{}} \union {{tip} : tip \in Tips}, level \in Levels :
           TipArrives(t, suggested, level)
    \/ BuildFill(t)

GasNext ==
    \/ \E t \in GasTasks : GasTask(t)
    \/ DropFees
    \/ \E change \in {-1, 1} : Block(baseFee + change * (baseFee \div 8))

GasSpec == GasInit /\ [][GasNext]_gasVars

-----------------------------------------------------------------------------
(* Properties                                                              *)

\* A price made from a fee the chain really had covers the base fee of the
\* moment it is used, however old the cached fees are, as long as cache and
\* provider together are no more than five blocks behind ("2 * base_fee +
\* priority_fee", gas.rs:42-44), and the builder refuses it for nothing but its
\* cap (builder.rs:109-138).
FeeCovers ==
    \A t \in GasTasks : \A p \in gasTask[t].price : \A gas \in FillGas :
        LET params == [gas |-> gas, maxFee |-> p.maxFee, priority |-> p.priority,
                       toZero |-> FALSE]
        IN  /\ p.genuine /\ p.maxFee < FeeMax => p.maxFee >= baseFee + p.priority
            /\ gas <= MaxGasLimit /\ Build(params) = {} => p.maxFee > MaxFeeCap
=============================================================================
