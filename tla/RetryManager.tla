---------------------------- MODULE RetryManager ----------------------------
(***************************************************************************)
(* crates/phantom-settlement/src/retry.rs: RetryManager, one atomic        *)
(* counter shared by the tasks that look after failed transactions.        *)
(*                                                                         *)
(* A task evaluates the failure (evaluate_retry), acquires a slot          *)
(* (acquire_retry_slot: a load, then a fetch_add), resubmits, and releases *)
(* the slot when the retry is over.  It starts over when the retry failed. *)
(***************************************************************************)
EXTENDS Integers, FiniteSets

CONSTANTS
    Txs,         \* transactions, one task each
    Messages,    \* error messages: each is the set of the markers it contains
    Budget,      \* config.global_retry_budget
    MaxRetries   \* config.max_retries

\* What classify_revert looks for in a message, in the order it looks.
MarkerRank ==
    [gas |-> 1, nonce_low |-> 2, nonce_high |-> 3, funds |-> 4, filled |-> 5,
     expired |-> 6, slippage |-> 7, revert |-> 8]

Markers == DOMAIN MarkerRank

ASSUME RetryAssumption ==
    /\ IsFiniteSet(Txs)
    /\ Messages \subseteq SUBSET Markers
    /\ Budget \in Nat
    /\ MaxRetries \in Nat

VARIABLES
    active,    \* active_retries
    pc,        \* where the task of each transaction is
    attempt,   \* the transaction's attempt number
    message    \* the error of its last failure

vars == <<active, pc, attempt, message>>

\* classify_revert: the first marker found decides.
Classify(m) ==
    IF m = {} THEN "unknown"
    ELSE CHOOSE x \in m : \A y \in m : MarkerRank[x] <= MarkerRank[y]

\* The reasons is_retryable excludes.
Permanent == {"funds", "filled", "expired"}

Retryable(reason) == reason \notin Permanent

Labels == {"flying", "failed", "scheduled", "acquiring", "retrying", "filled",
           "abandoned"}

TypeOK ==
    /\ active \in Nat
    /\ pc \in [Txs -> Labels]
    /\ attempt \in [Txs -> 0 .. MaxRetries]
    /\ message \in [Txs -> SUBSET Markers]

Init ==
    /\ active = 0
    /\ pc = [t \in Txs |-> "flying"]
    /\ attempt = [t \in Txs |-> 0]
    /\ message = [t \in Txs |-> {}]

Goto(t, label) == pc' = [pc EXCEPT ![t] = label]

-----------------------------------------------------------------------------
\* The first submission ends: filled, or failed for some reason.
FirstOutcome(t) ==
    /\ pc[t] = "flying"
    /\ \/ Goto(t, "filled") /\ UNCHANGED message
       \/ Goto(t, "failed") /\ \E m \in Messages : message' = [message EXCEPT ![t] = m]
    /\ UNCHANGED <<active, attempt>>

\* The three checks of evaluate_retry.
Worth(t) == Retryable(Classify(message[t])) /\ attempt[t] < MaxRetries /\ active < Budget

\* evaluate_retry: retry after a delay, or abandon for good.
Evaluate(t) ==
    /\ pc[t] = "failed"
    /\ Goto(t, IF Worth(t) THEN "scheduled" ELSE "abandoned")
    /\ UNCHANGED <<active, attempt, message>>

\* acquire_retry_slot after the delay: the load and the check.
CheckBudget(t) ==
    /\ pc[t] = "scheduled"
    /\ Goto(t, IF active < Budget THEN "acquiring" ELSE "abandoned")
    /\ UNCHANGED <<active, attempt, message>>

\* Faulty: the retry is not counted.
TakeSlot_Uncounted(t) ==
    /\ pc[t] = "acquiring"
    /\ active' = active + 1
    /\ Goto(t, "retrying")
    /\ UNCHANGED <<attempt, message>>

\* The fetch_add, and the resubmission.
TakeSlot(t) ==
    /\ pc[t] = "acquiring"
    /\ active' = active + 1
    /\ attempt' = [attempt EXCEPT ![t] = @ + 1]
    /\ Goto(t, "retrying")
    /\ UNCHANGED message

\* Faulty: the slot is released only when the retry succeeded.
Release_OnSuccess(t) ==
    /\ pc[t] = "retrying"
    /\ \/ /\ Goto(t, "filled")
          /\ active' = IF active > 0 THEN active - 1 ELSE 0
          /\ UNCHANGED message
       \/ /\ Goto(t, "failed")
          /\ \E m \in Messages : message' = [message EXCEPT ![t] = m]
          /\ UNCHANGED active
    /\ UNCHANGED attempt

\* The retry is over: release_retry_slot, then done or evaluated again.
Release(t) ==
    /\ pc[t] = "retrying"
    /\ active' = IF active > 0 THEN active - 1 ELSE 0
    /\ \/ Goto(t, "filled") /\ UNCHANGED message
       \/ Goto(t, "failed") /\ \E m \in Messages : message' = [message EXCEPT ![t] = m]
    /\ UNCHANGED attempt

\* Every transaction is filled or abandoned.
Done == (\A t \in Txs : pc[t] \in {"filled", "abandoned"}) /\ UNCHANGED vars

TxStep(t) == FirstOutcome(t) \/ Evaluate(t) \/ CheckBudget(t) \/ TakeSlot(t) \/ Release(t)

Next == (\E t \in Txs : TxStep(t)) \/ Done

Spec == Init /\ [][Next]_vars

\* Every submission ends, and its task runs on.
FairSpec == Spec /\ \A t \in Txs : WF_vars(TxStep(t))

-----------------------------------------------------------------------------
(* Properties                                                              *)

Retrying == {t \in Txs : pc[t] = "retrying"}

\* The counter is the number of retries under way in every interleaving of
\* loads, increments and saturating decrements: no slot is lost, none counted
\* twice, and the saturation of release_retry_slot never hides a slip.
SlotsExact == active = Cardinality(Retrying)

\* Every failed transaction ends filled or abandoned: neither a full budget
\* nor repeated failure keeps it for ever.
Settles == \A t \in Txs : pc[t] = "failed" ~> pc[t] \in {"filled", "abandoned"}
=============================================================================
