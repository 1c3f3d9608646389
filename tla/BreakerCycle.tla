----------------------------- MODULE BreakerCycle -----------------------------
(***************************************************************************)
(* What crates/phantom-metrics/src/health.rs promises of a circuit         *)
(* breaker (lines 203-224 and 236-239): consecutive failures trip it, it   *)
(* stays open for the reset timeout, and successes while it is half-open   *)
(* close it.  Every operation is one step.                                 *)
(***************************************************************************)
EXTENDS Naturals

CONSTANTS FailureThreshold, SuccessThreshold

VARIABLES
    mode,  \* "closed", "open" or "half_open"
    run,   \* consecutive failures while closed
    oks,   \* successes since the breaker became half-open
    due    \* open, and the reset timeout has elapsed

vars == <<mode, run, oks, due>>

Enter(m) == mode' = m /\ run' = 0 /\ oks' = 0 /\ due' = FALSE

Init == mode = "closed" /\ run = 0 /\ oks = 0 /\ due = FALSE

Failure ==
    \/ /\ mode = "closed"
       /\ IF run + 1 >= FailureThreshold
          THEN Enter("open")
          ELSE run' = run + 1 /\ UNCHANGED <<mode, oks, due>>
    \/ mode = "half_open" /\ Enter("open")

Success ==
    \/ mode = "closed" /\ run' = 0 /\ UNCHANGED <<mode, oks, due>>
    \/ /\ mode = "half_open"
       /\ IF oks + 1 >= SuccessThreshold
          THEN Enter("closed")
          ELSE oks' = oks + 1 /\ UNCHANGED <<mode, run, due>>

TimeoutElapses == mode = "open" /\ due' = TRUE /\ UNCHANGED <<mode, run, oks>>

Probe == mode = "open" /\ due /\ Enter("half_open")

Next == Failure \/ Success \/ TimeoutElapses \/ Probe

Spec == Init /\ [][Next]_vars
=============================================================================
