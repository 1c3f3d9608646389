----------------------------- MODULE RiskManager -----------------------------
(***************************************************************************)
(* crates/phantom-inventory/src/risk.rs: RiskManager, two atomics shared   *)
(* by the tasks that submit fills (check_fill, then record_fill_start) and *)
(* the tasks that see them end (record_fill_complete).                     *)
(*                                                                         *)
(* Every atomic access is a step of its own.  check_fill reads the daily   *)
(* loss, then the pending count, and decides on what it read; nothing ties *)
(* it to the record_fill_start that follows.                               *)
(***************************************************************************)
EXTENDS Integers, FiniteSets

CONSTANTS
    Submitters,   \* tasks that check and start fills
    Completers,   \* tasks that record the end of a fill
    FillIds,      \* fills that can be in flight at the same time
    Values,       \* fill values that are proposed
    None,         \* the fill is not in flight
    MaxLoss,      \* no fill loses or earns more than this
    MaxPosition,  \* config.max_position_per_token
    MaxSingle,    \* config.max_single_fill_value
    LossLimit,    \* config.daily_loss_limit_wei
    MaxPending,   \* config.max_pending_fills
    Enabled,      \* config.enabled
    U32,          \* the width of pending_fills: it wraps at U32
    MaxProfit     \* bound: a fill earns something only below this daily profit

Tasks == Submitters \union Completers

ASSUME RiskAssumption ==
    /\ IsFiniteSet(Submitters) /\ Submitters # {}
    /\ IsFiniteSet(Completers) /\ IsFiniteSet(FillIds)
    /\ Submitters \intersect Completers = {}
    /\ Values \subseteq Nat /\ None \notin Values
    /\ MaxLoss \in Nat /\ MaxPosition \in Nat /\ MaxSingle \in Nat
    /\ LossLimit \in Nat /\ MaxPending \in Nat /\ MaxProfit \in Nat
    /\ Enabled \in BOOLEAN
    /\ U32 \in Nat /\ U32 > Cardinality(FillIds)

VARIABLES
    daily,     \* daily_pnl_wei: positive is loss, negative is profit
    pending,   \* pending_fills
    pc,        \* where each task is
    fits,      \* the size and position checks of the submitter's fill
    value,     \* the value of the submitter's fill
    lossSeen,  \* what check_fill read of daily_pnl_wei: a loss over the limit?
    pnl,       \* the completer's pnl_wei
    position,  \* the token balance, as the submitters learn it
    inFlight   \* the chain: the value of each fill submitted and not yet ended

vars == <<daily, pending, pc, fits, value, lossSeen, pnl, position, inFlight>>

locals == <<fits, value, lossSeen>>

TypeOK ==
    /\ daily \in Int
    /\ pending \in 0 .. (U32 - 1)
    /\ pc \in [Tasks -> {"idle", "loss", "pending", "passed", "ended"}]
    /\ fits \in [Submitters -> BOOLEAN]
    /\ value \in [Submitters -> Values]
    /\ lossSeen \in [Submitters -> BOOLEAN]
    /\ pnl \in [Completers -> (-MaxLoss) .. MaxLoss]
    /\ position \in Nat
    /\ inFlight \in [FillIds -> Values \union {None}]

Init ==
    /\ daily = 0
    /\ pending = 0
    /\ pc = [t \in Tasks |-> "idle"]
    /\ fits = [s \in Submitters |-> FALSE]
    /\ value \in [Submitters -> Values]
    /\ lossSeen = [s \in Submitters |-> FALSE]
    /\ pnl = [c \in Completers |-> 0]
    /\ position = 0
    /\ inFlight = [f \in FillIds |-> None]

Goto(t, label) == pc' = [pc EXCEPT ![t] = label]

\* daily_loss_wei: a profit is no loss.
DailyLoss == IF daily > 0 THEN daily ELSE 0

\* The two checks on the arguments of check_fill: the value alone and on top
\* of the position the submitter passes.
Fits(v, held) == v <= MaxSingle /\ held + v <= MaxPosition

-----------------------------------------------------------------------------
(* check_fill and record_fill_start                                        *)

\* A submitter proposes a fill with the position it has just read.
Propose(s, v) ==
    /\ pc[s] = "idle"
    /\ value' = [value EXCEPT ![s] = v]
    /\ fits' = [fits EXCEPT ![s] = Fits(v, position)]
    /\ Goto(s, "loss")
    /\ UNCHANGED <<daily, pending, lossSeen, pnl, position, inFlight>>

LoadLoss(s) ==
    /\ pc[s] = "loss"
    /\ lossSeen' = [lossSeen EXCEPT ![s] = DailyLoss > LossLimit]
    /\ Goto(s, "pending")
    /\ UNCHANGED <<daily, pending, fits, value, pnl, position, inFlight>>

\* Faulty: one fill too many.
Admits_OffByOne(s) == fits[s] /\ ~lossSeen[s] /\ pending <= MaxPending

Admits(s) == fits[s] /\ ~lossSeen[s] /\ pending < MaxPending

\* The second load and the verdict: passed, or rejected and given up.
LoadPending(s) ==
    /\ pc[s] = "pending"
    /\ Goto(s, IF ~Enabled \/ Admits(s) THEN "passed" ELSE "idle")
    /\ UNCHANGED <<daily, pending, locals, pnl, position, inFlight>>

\* record_fill_start counts the fill whatever happened since the check; then
\* the fill is submitted.
RecordFillStart(s, f) ==
    /\ pc[s] = "passed"
    /\ inFlight[f] = None
    /\ pending' = (pending + 1) % U32
    /\ inFlight' = [inFlight EXCEPT ![f] = value[s]]
    /\ Goto(s, "idle")
    /\ UNCHANGED <<daily, locals, pnl, position>>

-----------------------------------------------------------------------------
(* record_fill_complete: the slot is freed first, the result booked second *)

FreeSlot(c, f, p) ==
    /\ pc[c] = "idle"
    /\ inFlight[f] # None
    /\ p > 0 => daily > -MaxProfit
    /\ inFlight' = [inFlight EXCEPT ![f] = None]
    /\ position' = position + inFlight[f]
    /\ pending' = (pending - 1) % U32
    /\ pnl' = [pnl EXCEPT ![c] = p]
    /\ Goto(c, "ended")
    /\ UNCHANGED <<daily, locals>>

BookResult(c) ==
    /\ pc[c] = "ended"
    /\ daily' = daily - pnl[c]
    /\ pnl' = [pnl EXCEPT ![c] = 0]
    /\ Goto(c, "idle")
    /\ UNCHANGED <<pending, locals, position, inFlight>>

\* Faulty: the new day forgets the fills in flight.
ResetDaily_All ==
    /\ daily' = 0
    /\ pending' = 0
    /\ UNCHANGED <<pc, locals, pnl, position, inFlight>>

\* reset_daily, at the start of a trading day.
ResetDaily ==
    /\ daily' = 0
    /\ UNCHANGED <<pending, pc, locals, pnl, position, inFlight>>

\* The position is sold off outside the fills.
Rebalance ==
    /\ position > 0
    /\ position' = 0
    /\ UNCHANGED <<daily, pending, pc, locals, pnl, inFlight>>

-----------------------------------------------------------------------------
Submit(s) ==
    \/ \E v \in Values : Propose(s, v)
    \/ LoadLoss(s)
    \/ LoadPending(s)
    \/ \E f \in FillIds : RecordFillStart(s, f)

Complete(c) ==
    \/ \E f \in FillIds, p \in (-MaxLoss) .. MaxLoss : FreeSlot(c, f, p)
    \/ BookResult(c)

Next ==
    \/ \E s \in Submitters : Submit(s)
    \/ \E c \in Completers : Complete(c)
    \/ ResetDaily
    \/ Rebalance

Spec == Init /\ [][Next]_vars

-----------------------------------------------------------------------------
(* Properties                                                              *)

Flying == {f \in FillIds : inFlight[f] # None}

\* pending_fills counts the fills in flight exactly, however starts, ends and
\* daily resets interleave; were it ever to drop below zero it would wrap and
\* every later fill would be refused (risk.rs:225-226).
PendingExact == pending = Cardinality(Flying)

\* How far "Maximum number of concurrent pending (unconfirmed) fills"
\* (risk.rs:24-25) is exceeded: by the submitters that passed the check
\* together, all but one.
PendingOvershoot ==
    Enabled => pending <= MaxPending + Cardinality(Submitters) - 1

\* How far the daily loss can pass daily_loss_limit_wei (risk.rs:21-23): the
\* fills in flight when the limit is passed, the results not booked yet and
\* the submitters that read the loss before may all add their loss.
DailyLossBounded ==
    Enabled => daily <= LossLimit + MaxLoss *
        (MaxPending + 2 * Cardinality(Submitters) - 1 + Cardinality(Completers))

\* How far the balance can pass max_position_per_token (risk.rs:17-18): fills
\* in flight are not part of the position the check is given.
PositionBounded ==
    Enabled => position <= MaxPosition + MaxSingle *
        (MaxPending + 2 * Cardinality(Submitters) - 1)

\* None of the three limits is passed by more than the fills that were checked
\* before somebody else's fill or result counted.
LimitsOvershot == PendingOvershoot /\ DailyLossBounded /\ PositionBounded
=============================================================================
