---------------------------- MODULE CircuitBreaker ----------------------------
(***************************************************************************)
(* crates/phantom-metrics/src/health.rs: CircuitBreaker, four atomics      *)
(* without a lock: state, failures, successes and tripped_at.  Every       *)
(* access to one of them is a step of its own.                             *)
(*                                                                         *)
(* A caller asks is_allowed, runs its operation when it may, and records   *)
(* how it ended.  All three calls begin with state(), which itself writes: *)
(* an open circuit whose time is over becomes half-open.                   *)
(***************************************************************************)
EXTENDS Integers, FiniteSets

CONSTANTS
    Callers,           \* tasks guarded by the breaker
    Operators,         \* tasks that call reset
    Outcomes,          \* how operations may end: a subset of {"ok", "fail"}
    FailureThreshold,  \* config.failure_threshold
    SuccessThreshold,  \* config.success_threshold
    Timeout,           \* config.reset_timeout_secs, in ticks of the clock
    MaxFailed          \* bound: this many operations fail in all

ASSUME BreakerAssumption ==
    /\ Outcomes \subseteq {"ok", "fail"}
    /\ FailureThreshold \in Nat /\ SuccessThreshold \in Nat
    /\ Timeout \in Nat /\ MaxFailed \in Nat
    /\ Callers \intersect Operators = {}

VARIABLES
    state,      \* the atomic `state`
    failures,   \* the atomic `failures`
    successes,  \* the atomic `successes`
    since,      \* the age of `tripped_at`, told apart up to Timeout; 0, its first
                \* value and the one of reset, is long ago
    pc,         \* where each task is
    call,       \* which of the three calls a caller is in
    failed,     \* history: how many operations have failed
    openFor,    \* history: ticks since the state became open, up to Timeout
    eased       \* history: an operation has succeeded, or somebody has reset

vars == <<state, failures, successes, since, pc, call, failed, openFor, eased>>

counters == <<failures, successes>>
history  == <<failed, openFor, eased>>

Tasks == Callers \union Operators

Labels == {"idle", "busy", "tripped", "half", "clear", "zero", "succeed", "close",
           "forget", "settle", "unstamp", "count", "restart", "trip", "stamp", "tally"}

TypeOK ==
    /\ state \in {"closed", "open", "half_open"}
    /\ failures \in Nat
    /\ successes \in Nat
    /\ since \in 0 .. Timeout
    /\ pc \in [Tasks -> Labels]
    /\ call \in [Callers -> {"ask", "ok", "fail"}]
    /\ failed \in Nat
    /\ openFor \in 0 .. Timeout
    /\ eased \in BOOLEAN

Init ==
    /\ state = "closed"
    /\ failures = 0
    /\ successes = 0
    /\ since = Timeout
    /\ pc = [t \in Tasks |-> "idle"]
    /\ call = [c \in Callers |-> "ask"]
    /\ failed = 0
    /\ openFor = 0
    /\ eased = FALSE

Goto(t, label) == pc' = [pc EXCEPT ![t] = label]

\* Faulty form of Branch: only a closed circuit lets requests through.
Branch_ClosedOnly ==
    [ask  |-> [closed |-> "busy",  half_open |-> "idle",    open |-> "idle"],
     ok   |-> [closed |-> "zero",  half_open |-> "succeed", open |-> "idle"],
     fail |-> [closed |-> "count", half_open |-> "restart", open |-> "tally"]]

\* What is_allowed, record_success and record_failure do next, by the state
\* that state() returned.
Branch ==
    [ask  |-> [closed |-> "busy",  half_open |-> "busy",    open |-> "idle"],
     ok   |-> [closed |-> "zero",  half_open |-> "succeed", open |-> "idle"],
     fail |-> [closed |-> "count", half_open |-> "restart", open |-> "tally"]]

\* state() of caller c's call o returns s.
Returns(c, o, s) == Goto(c, Branch[o][s])

-----------------------------------------------------------------------------
(* state()                                                                 *)

\* The call begins: the load of `state`.
Begin(c, o) ==
    /\ pc[c] = (IF o = "ask" THEN "idle" ELSE "busy")
    /\ o \in Outcomes \union {"ask"}
    /\ call' = [call EXCEPT ![c] = o]
    /\ IF state = "open" THEN Goto(c, "tripped") ELSE Returns(c, o, state)
    /\ failed' = IF o = "fail" THEN failed + 1 ELSE failed
    /\ failed' <= MaxFailed
    /\ eased' = (eased \/ o = "ok")
    /\ UNCHANGED <<state, counters, since, openFor>>

\* The state was open: has the reset timeout elapsed?
LoadTripped(c) ==
    /\ pc[c] = "tripped"
    /\ IF since >= Timeout THEN Goto(c, "half") ELSE Returns(c, call[c], "open")
    /\ UNCHANGED <<state, counters, since, call, history>>

\* Faulty form of StoreHalfOpen: the timeout closes the circuit.
StoreHalfOpen_Closes(c) ==
    /\ pc[c] = "half"
    /\ state' = "closed"
    /\ Goto(c, "clear")
    /\ UNCHANGED <<counters, since, call, history>>

StoreHalfOpen(c) ==
    /\ pc[c] = "half"
    /\ state' = "half_open"
    /\ Goto(c, "clear")
    /\ UNCHANGED <<counters, since, call, history>>

ClearSuccesses(c) ==
    /\ pc[c] = "clear"
    /\ successes' = 0
    /\ Returns(c, call[c], "half_open")
    /\ UNCHANGED <<state, failures, since, call, history>>

-----------------------------------------------------------------------------
(* record_success                                                          *)

ZeroFailures(c) ==
    /\ pc[c] = "zero"
    /\ failures' = 0
    /\ Goto(c, "idle")
    /\ UNCHANGED <<state, successes, since, call, history>>

\* Faulty form of Succeed: one success too many.
Succeed_OffByOne(c) ==
    /\ pc[c] = "succeed"
    /\ successes' = successes + 1
    /\ Goto(c, IF successes' > SuccessThreshold THEN "close" ELSE "idle")
    /\ UNCHANGED <<state, failures, since, call, history>>

Succeed(c) ==
    /\ pc[c] = "succeed"
    /\ successes' = successes + 1
    /\ Goto(c, IF successes' >= SuccessThreshold THEN "close" ELSE "idle")
    /\ UNCHANGED <<state, failures, since, call, history>>

\* The three stores that close the circuit, of record_success and of reset.
Close(t) ==
    /\ pc[t] = "close"
    /\ state' = "closed"
    /\ Goto(t, "forget")
    /\ UNCHANGED <<counters, since, call, history>>

\* Faulty form of Forget: the failures from before the trip are kept.
Forget_Kept(t) ==
    /\ pc[t] = "forget"
    /\ Goto(t, "settle")
    /\ UNCHANGED <<state, counters, since, call, history>>

Forget(t) ==
    /\ pc[t] = "forget"
    /\ failures' = 0
    /\ Goto(t, "settle")
    /\ UNCHANGED <<state, successes, since, call, history>>

Settle(t) ==
    /\ pc[t] = "settle"
    /\ successes' = 0
    /\ Goto(t, IF t \in Operators THEN "unstamp" ELSE "idle")
    /\ UNCHANGED <<state, failures, since, call, history>>

\* reset goes on: tripped_at is 0 again.
ResetBegins(t) ==
    /\ t \in Operators
    /\ pc[t] = "idle"
    /\ Goto(t, "close")
    /\ eased' = TRUE
    /\ UNCHANGED <<state, counters, since, call, failed, openFor>>

Unstamp(t) ==
    /\ pc[t] = "unstamp"
    /\ since' = Timeout
    /\ Goto(t, "idle")
    /\ UNCHANGED <<state, counters, call, history>>

-----------------------------------------------------------------------------
(* record_failure                                                          *)

CountFailure(c) ==
    /\ pc[c] = "count"
    /\ failures' = failures + 1
    /\ Goto(c, IF failures' >= FailureThreshold THEN "trip" ELSE "idle")
    /\ UNCHANGED <<state, successes, since, call, history>>

Restart(c) ==
    /\ pc[c] = "restart"
    /\ successes' = 0
    /\ Goto(c, "trip")
    /\ UNCHANGED <<state, failures, since, call, history>>

\* The state was open already: just count.
Tally(c) ==
    /\ pc[c] = "tally"
    /\ failures' = failures + 1
    /\ Goto(c, "idle")
    /\ UNCHANGED <<state, successes, since, call, history>>

\* trip: the state first, the time second.
Trip(c) ==
    /\ pc[c] = "trip"
    /\ state' = "open"
    /\ openFor' = IF state = "open" THEN openFor ELSE 0
    /\ Goto(c, "stamp")
    /\ UNCHANGED <<counters, since, call, failed, eased>>

\* Faulty form of Stamp: a time stored before is not replaced.
Stamp_Once(c) ==
    /\ pc[c] = "stamp"
    /\ Goto(c, "idle")
    /\ UNCHANGED <<state, counters, since, call, history>>

Stamp(c) ==
    /\ pc[c] = "stamp"
    /\ since' = 0
    /\ Goto(c, "idle")
    /\ UNCHANGED <<state, counters, call, history>>

\* The clock.
Tick ==
    /\ since' = IF since < Timeout THEN since + 1 ELSE since
    /\ openFor' = IF openFor < Timeout /\ state = "open" THEN openFor + 1 ELSE openFor
    /\ UNCHANGED <<state, counters, pc, call, failed, eased>>

-----------------------------------------------------------------------------
CallStep(c) ==
    \/ \E o \in {"ask", "ok", "fail"} : Begin(c, o)
    \/ LoadTripped(c) \/ StoreHalfOpen(c) \/ ClearSuccesses(c)
    \/ ZeroFailures(c) \/ Succeed(c)
    \/ CountFailure(c) \/ Restart(c) \/ Tally(c) \/ Trip(c) \/ Stamp(c)

ClosingStep(t) == Close(t) \/ Forget(t) \/ Settle(t)

Next ==
    \/ \E c \in Callers : CallStep(c)
    \/ \E t \in Tasks : ClosingStep(t)
    \/ \E t \in Operators : ResetBegins(t) \/ Unstamp(t)
    \/ Tick

Spec == Init /\ [][Next]_vars

\* Callers go on calling, and the clock runs.
FairSpec ==
    /\ Spec
    /\ \A c \in Callers : WF_vars(CallStep(c) \/ ClosingStep(c))
    /\ WF_vars(Tick)

-----------------------------------------------------------------------------
(* Properties                                                              *)

At(label) == \E t \in Tasks : pc[t] = label

\* The breaker of one caller, seen operation by operation: its state, the
\* consecutive failures, the successes of a half-open circuit, and whether the
\* reset timeout has elapsed.
Mode == IF At("trip") THEN "open" ELSE IF At("close") THEN "closed" ELSE state
Run  == IF Mode = "closed" /\ ~At("close") /\ ~At("forget") THEN failures ELSE 0
Oks  == IF Mode = "half_open" /\ ~At("clear") THEN successes ELSE 0
Due  == Mode = "open" /\ ~At("trip") /\ ~At("stamp") /\ since >= Timeout

Cycle == INSTANCE BreakerCycle WITH mode <- Mode, run <- Run, oks <- Oks, due <- Due

\* Used by one caller the breaker keeps its promise: it trips at the threshold
\* of consecutive failures, reopens on a failed probe and closes after enough
\* successful ones (health.rs:218-222, 237-239).
FollowsCycle == Cycle!Spec

\* "Duration the circuit stays open before transitioning to half-open"
\* (health.rs:220): a circuit does not become half-open before that.
OpenStaysOpen ==
    [][state = "open" /\ state' = "half_open" => openFor >= Timeout]_vars

\* "transitions through Closed -> Open -> HalfOpen -> Closed states"
\* (health.rs:238-239).
OnlyTheCycle ==
    [][state' # state =>
        <<state, state'>> \in {<<"closed", "open">>, <<"open", "half_open">>,
                               <<"half_open", "closed">>, <<"half_open", "open">>}]_vars

\* However calls overlap, enough counted successes are never left alone: the
\* caller that counted the last of them is on its way to close the circuit.
EnoughSuccessesClose ==
    successes >= SuccessThreshold => At("close") \/ At("forget") \/ At("settle")

\* While operations only fail and nobody resets, callers that overlap lose no
\* failure: a circuit that has seen the threshold is open, or a caller is about
\* to trip it ...
FailuresTrip == state = "closed" /\ ~eased => failures < FailureThreshold \/ At("trip")

\* ... and it does not close again, whatever half-open probes run at that time.
StaysCutOff == [][state # "closed" /\ ~eased' => state' # "closed"]_vars

\* When operations stop failing the circuit closes for good, although resets of
\* `successes` race the successes they wipe out.
Recovers == <>[](state = "closed")
=============================================================================
