------------------------- MODULE TransactionBuilder -------------------------
(***************************************************************************)
(* crates/phantom-execution/src/builder.rs: TransactionBuilder, which only *)
(* checks the parameters of an EIP-1559 fill transaction and copies them.  *)
(***************************************************************************)
EXTENDS Integers

CONSTANTS
    MaxGasLimit,  \* config.max_gas_limit
    MaxFeeCap     \* config.max_fee_cap

ASSUME BuilderAssumption == MaxGasLimit \in Nat /\ MaxFeeCap \in Nat

\* What validate finds wrong first, or "fine".
Validate(params) ==
    CASE params.gas > MaxGasLimit         -> "gas limit"
      [] params.gas <= MaxGasLimit /\ params.maxFee > MaxFeeCap -> "fee cap"
      [] params.gas <= MaxGasLimit /\ params.maxFee <= MaxFeeCap
            /\ params.priority > params.maxFee -> "priority fee"
      [] OTHER -> IF params.toZero THEN "zero target" ELSE "fine"

\* build: the transaction, or nothing.
Build(params) == IF Validate(params) = "fine" THEN {params} ELSE {}
=============================================================================
