------------------------- MODULE CircuitBreaker_proofs -------------------------
(***************************************************************************)
(* Theorems about CircuitBreaker, for any number of callers and operators. *)
(***************************************************************************)
EXTENDS CircuitBreaker, TLAPS

\* After state() a call goes on at one of these places.
LEMMA BranchTyped ==
    ASSUME NEW o \in {"ask", "ok", "fail"}, NEW s \in {"closed", "open", "half_open"}
    PROVE  /\ o = "ask" => Branch[o][s] \in {"idle", "busy"}
           /\ o = "ok" => Branch[o][s] \in {"idle", "zero", "succeed"}
           /\ o = "fail" /\ s = "closed" => Branch[o][s] = "count"
           /\ o = "fail" /\ s = "open" => Branch[o][s] = "tally"
           /\ o = "fail" /\ s = "half_open" => Branch[o][s] = "restart"
<1>1. CASE o = "ask"
  BY <1>1 DEF Branch
<1>2. CASE o = "ok"
  BY <1>2 DEF Branch
<1>3. CASE o = "fail"
  BY <1>3 DEF Branch
<1> QED
  BY <1>1, <1>2, <1>3

\* The return of state() keeps the types of what it writes.
LEMMA ReturnsTyped ==
    ASSUME pc \in [Tasks -> Labels], NEW c \in Callers,
           NEW o \in {"ask", "ok", "fail"}, NEW s \in {"closed", "open", "half_open"},
           Returns(c, o, s)
    PROVE  pc' \in [Tasks -> Labels]
<1>1. Branch[o][s] \in Labels
  BY BranchTyped DEF Labels
<1> QED
  BY <1>1 DEF Returns, Goto

\* Every variable has its type after every step.
LEMMA TypeStep == ASSUME BreakerAssumption, TypeOK, [Next]_vars PROVE TypeOK'
<1> USE DEF TypeOK, counters, history, BreakerAssumption
<1> Callers \subseteq Tasks /\ Operators \subseteq Tasks
  BY DEF Tasks
<1>1. ASSUME NEW c \in Callers, NEW o \in {"ask", "ok", "fail"}, Begin(c, o) PROVE TypeOK'
  <2>1. pc' \in [Tasks -> Labels]
    <3>1. CASE state = "open"
      BY <1>1, <3>1 DEF Begin, Goto, Labels
    <3>2. CASE state # "open"
      BY <1>1, <3>2, ReturnsTyped DEF Begin
    <3> QED BY <3>1, <3>2
  <2> QED
    BY <1>1, <2>1 DEF Begin
<1>2. ASSUME NEW c \in Callers, LoadTripped(c) PROVE TypeOK'
  <2>1. pc' \in [Tasks -> Labels]
    <3>1. CASE since >= Timeout
      BY <1>2, <3>1 DEF LoadTripped, Goto, Labels
    <3>2. CASE ~(since >= Timeout)
      BY <1>2, <3>2, ReturnsTyped DEF LoadTripped
    <3> QED BY <3>1, <3>2
  <2> QED
    BY <1>2, <2>1 DEF LoadTripped
<1>3. ASSUME NEW c \in Callers, StoreHalfOpen(c) PROVE TypeOK'
  BY <1>3 DEF StoreHalfOpen, Goto, Labels
<1>4. ASSUME NEW c \in Callers, ClearSuccesses(c) PROVE TypeOK'
  BY <1>4, ReturnsTyped DEF ClearSuccesses
<1>5. ASSUME NEW c \in Callers, ZeroFailures(c) \/ Succeed(c) PROVE TypeOK'
  BY <1>5 DEF ZeroFailures, Succeed, Goto, Labels
<1>6. ASSUME NEW c \in Callers, CountFailure(c) \/ Restart(c) \/ Tally(c) PROVE TypeOK'
  BY <1>6 DEF CountFailure, Restart, Tally, Goto, Labels
<1>7. ASSUME NEW c \in Callers, Trip(c) \/ Stamp(c) PROVE TypeOK'
  BY <1>7 DEF Trip, Stamp, Goto, Labels
<1>8. ASSUME NEW t \in Tasks, ClosingStep(t) PROVE TypeOK'
  BY <1>8 DEF ClosingStep, Close, Forget, Settle, Goto, Labels
<1>9. ASSUME NEW t \in Operators, ResetBegins(t) PROVE TypeOK'
  BY <1>9 DEF ResetBegins, Goto, Labels
<1>10. ASSUME NEW t \in Operators, Unstamp(t) PROVE TypeOK'
  BY <1>10 DEF Unstamp, Goto, Labels
<1>11. CASE Tick
  BY <1>11 DEF Tick
<1>12. CASE UNCHANGED vars
  BY <1>12 DEF vars
<1> QED
  BY <1>1, <1>2, <1>3, <1>4, <1>5, <1>6, <1>7, <1>8, <1>9, <1>10, <1>11, <1>12 DEF Next, CallStep

\* Every variable has its type in every reachable state.
THEOREM TypeCorrect == Spec => []TypeOK
<1>1. ASSUME Init PROVE TypeOK
  <2>1. pc \in [Tasks -> Labels] /\ call \in [Callers -> {"ask", "ok", "fail"}]
    BY <1>1 DEF Init, Labels
  <2>2. eased \in BOOLEAN
    BY <1>1 DEF Init
  <2> QED
    BY <1>1, <2>1, <2>2, BreakerAssumption DEF Init, TypeOK
<1>2. TypeOK /\ [Next]_vars => TypeOK'
  BY TypeStep, BreakerAssumption
<1> QED
  BY <1>1, <1>2, PTL DEF Spec

-----------------------------------------------------------------------------
\* A step that leaves `successes` alone and moves no closing task keeps
\* EnoughSuccessesClose, and so does one that sets it to 0.
LEMMA CloseKept ==
    ASSUME BreakerAssumption, SuccessThreshold # 0, TypeOK, EnoughSuccessesClose,
           [Next]_vars
    PROVE  EnoughSuccessesClose'
<1> USE DEF TypeOK, counters, history, BreakerAssumption
<1> DEFINE Closing == {"close", "forget", "settle"}
<1> Callers \subseteq Tasks /\ Operators \subseteq Tasks
  BY DEF Tasks
<1>1. ASSUME successes' = 0 PROVE EnoughSuccessesClose'
  BY <1>1 DEF EnoughSuccessesClose
<1>2. ASSUME successes' = successes, NEW t \in Tasks, pc[t] \notin Closing,
             \E l \in Labels : pc' = [pc EXCEPT ![t] = l]
      PROVE  EnoughSuccessesClose'
  BY <1>2 DEF EnoughSuccessesClose, At
<1>3. ASSUME NEW c \in Callers, NEW o \in {"ask", "ok", "fail"}, Begin(c, o)
      PROVE  EnoughSuccessesClose'
  <2>1. \E l \in Labels : pc' = [pc EXCEPT ![c] = l]
    BY <1>3, BranchTyped DEF Begin, Returns, Goto, Labels
  <2> QED
    BY <1>2, <1>3, <2>1 DEF Begin
<1>4. ASSUME NEW c \in Callers, LoadTripped(c) PROVE EnoughSuccessesClose'
  <2>1. \E l \in Labels : pc' = [pc EXCEPT ![c] = l]
    BY <1>4, BranchTyped DEF LoadTripped, Returns, Goto, Labels
  <2> QED
    BY <1>2, <1>4, <2>1 DEF LoadTripped
<1>5. ASSUME NEW c \in Callers, ClearSuccesses(c) \/ Restart(c) PROVE EnoughSuccessesClose'
  BY <1>1, <1>5 DEF ClearSuccesses, Restart
<1>6. ASSUME NEW c \in Callers,
             \/ StoreHalfOpen(c) \/ ZeroFailures(c) \/ CountFailure(c)
             \/ Tally(c) \/ Trip(c) \/ Stamp(c)
      PROVE  EnoughSuccessesClose'
  <2>1. \E l \in Labels : pc' = [pc EXCEPT ![c] = l]
    BY <1>6 DEF StoreHalfOpen, ZeroFailures, CountFailure, Tally, Trip, Stamp, Goto, Labels
  <2>2. successes' = successes /\ pc[c] \notin Closing
    BY <1>6 DEF StoreHalfOpen, ZeroFailures, CountFailure, Tally, Trip, Stamp
  <2> QED
    BY <1>2, <2>1, <2>2
<1>7. ASSUME NEW c \in Callers, Succeed(c) PROVE EnoughSuccessesClose'
  <2>1. CASE successes + 1 >= SuccessThreshold
    <3>1. pc'[c] = "close"
      BY <1>7, <2>1 DEF Succeed, Goto
    <3> QED
      BY <3>1 DEF EnoughSuccessesClose, At
  <2>2. CASE ~(successes + 1 >= SuccessThreshold)
    BY <1>7, <2>2 DEF Succeed, EnoughSuccessesClose
  <2> QED BY <2>1, <2>2
<1>8. ASSUME NEW t \in Tasks, Close(t) \/ Forget(t) PROVE EnoughSuccessesClose'
  <2>1. pc'[t] \in {"forget", "settle"}
    BY <1>8 DEF Close, Forget, Goto
  <2> QED
    BY <2>1 DEF EnoughSuccessesClose, At
<1>9. ASSUME NEW t \in Tasks, Settle(t) PROVE EnoughSuccessesClose'
  BY <1>1, <1>9 DEF Settle
<1>10. ASSUME NEW t \in Operators, ResetBegins(t) \/ Unstamp(t) PROVE EnoughSuccessesClose'
  <2>1. successes' = successes /\ pc[t] \notin Closing
    BY <1>10 DEF ResetBegins, Unstamp
  <2>2. \E l \in Labels : pc' = [pc EXCEPT ![t] = l]
    BY <1>10 DEF ResetBegins, Unstamp, Goto, Labels
  <2> QED
    BY <1>2, <2>1, <2>2
<1>11. CASE Tick \/ UNCHANGED vars
  BY <1>11 DEF Tick, vars, EnoughSuccessesClose, At
<1> QED
  BY <1>3, <1>4, <1>5, <1>6, <1>7, <1>8, <1>9, <1>10, <1>11 DEF Next, CallStep, ClosingStep

\* Whatever the number of callers that overlap, enough counted successes always
\* have a caller on its way to close the circuit.
THEOREM SuccessesClose ==
    ASSUME SuccessThreshold # 0
    PROVE  Spec => []EnoughSuccessesClose
<1>1. Init => EnoughSuccessesClose
  BY BreakerAssumption DEF Init, EnoughSuccessesClose
<1>2. TypeOK /\ EnoughSuccessesClose /\ [Next]_vars => EnoughSuccessesClose'
  BY CloseKept, BreakerAssumption
<1> QED
  BY <1>1, <1>2, TypeCorrect, PTL DEF Spec

-----------------------------------------------------------------------------
\* As long as operations only fail and nobody resets, nobody is in the code of a
\* success or of a reset, and who has seen an open or half-open circuit is right
\* that it is not closed.
OnlyFailures ==
    /\ \A c \in Callers : call[c] # "ok"
    /\ \A t \in Tasks : pc[t] \notin {"zero", "succeed", "close", "forget", "settle", "unstamp"}
    /\ \A t \in Tasks : pc[t] \in {"tripped", "tally"} => state # "closed"
    /\ FailuresTrip

CutInv == ~eased => OnlyFailures

\* No step takes back that an operation has succeeded or somebody has reset.
LEMMA EasedStays == ASSUME BreakerAssumption, TypeOK, [Next]_vars, eased PROVE eased'
<1> USE DEF history
<1>1. ASSUME NEW c \in Callers, CallStep(c) PROVE eased'
  BY <1>1 DEF CallStep, Begin, LoadTripped, StoreHalfOpen, ClearSuccesses, ZeroFailures,
              Succeed, CountFailure, Restart, Tally, Trip, Stamp
<1>2. ASSUME NEW t \in Tasks, ClosingStep(t) PROVE eased'
  BY <1>2 DEF ClosingStep, Close, Forget, Settle
<1>3. ASSUME NEW t \in Operators, ResetBegins(t) \/ Unstamp(t) PROVE eased'
  BY <1>3 DEF ResetBegins, Unstamp
<1>4. CASE Tick \/ UNCHANGED vars
  BY <1>4 DEF Tick, vars
<1> QED
  BY <1>1, <1>2, <1>3, <1>4 DEF Next

\* Every step before that keeps the invariant, and none closes the circuit.
LEMMA CutStep ==
    ASSUME BreakerAssumption, TypeOK, OnlyFailures, ~eased, [Next]_vars, ~eased'
    PROVE  OnlyFailures' /\ (state # "closed" => state' # "closed")
<1> USE DEF TypeOK, counters, history, BreakerAssumption, OnlyFailures, FailuresTrip, At
<1> Callers \subseteq Tasks /\ Operators \subseteq Tasks
  BY DEF Tasks
<1>1. ASSUME NEW c \in Callers, NEW o \in {"ask", "ok", "fail"}, Begin(c, o)
      PROVE  OnlyFailures' /\ state' = state
  <2>1. o \in {"ask", "fail"}
    BY <1>1 DEF Begin
  <2>2. /\ state' = state /\ failures' = failures
        /\ call' = [call EXCEPT ![c] = o]
        /\ pc[c] # "trip"
    BY <1>1 DEF Begin
  <2>3. \E l \in Labels :
          /\ pc' = [pc EXCEPT ![c] = l]
          /\ l \notin {"zero", "succeed", "close", "forget", "settle", "unstamp"}
          /\ l \in {"tripped", "tally"} => state # "closed"
    <3>1. CASE state = "open"
      BY <1>1, <3>1 DEF Begin, Goto, Labels
    <3>2. CASE state # "open"
      BY <1>1, <2>1, <3>2, BranchTyped DEF Begin, Returns, Goto, Labels
    <3> QED BY <3>1, <3>2
  <2> QED
    BY <2>1, <2>2, <2>3
<1>2. ASSUME NEW c \in Callers, LoadTripped(c) PROVE OnlyFailures' /\ state' = state
  <2>1. \E l \in Labels :
          /\ pc' = [pc EXCEPT ![c] = l]
          /\ l \notin {"zero", "succeed", "close", "forget", "settle", "unstamp"}
    BY <1>2, BranchTyped DEF LoadTripped, Returns, Goto, Labels
  <2>2. state # "closed" /\ UNCHANGED <<state, call>>
    BY <1>2 DEF LoadTripped
  <2> QED
    BY <2>1, <2>2
<1>3. ASSUME NEW c \in Callers, StoreHalfOpen(c) PROVE OnlyFailures' /\ state' # "closed"
  BY <1>3 DEF StoreHalfOpen, Goto
<1>4. ASSUME NEW c \in Callers, ClearSuccesses(c) PROVE OnlyFailures' /\ state' = state
  <2>1. \E l \in Labels :
          /\ pc' = [pc EXCEPT ![c] = l]
          /\ l \notin {"zero", "succeed", "close", "forget", "settle", "unstamp", "tripped", "tally"}
    BY <1>4, BranchTyped DEF ClearSuccesses, Returns, Goto, Labels
  <2> QED
    BY <1>4, <2>1 DEF ClearSuccesses
<1>5. ASSUME NEW c \in Callers, CountFailure(c) PROVE OnlyFailures' /\ state' = state
  BY <1>5 DEF CountFailure, Goto
<1>6. ASSUME NEW c \in Callers, Restart(c) PROVE OnlyFailures' /\ state' = state
  BY <1>6 DEF Restart, Goto
<1>7. ASSUME NEW c \in Callers, Tally(c) PROVE OnlyFailures' /\ state' = state
  BY <1>7 DEF Tally, Goto
<1>8. ASSUME NEW c \in Callers, Trip(c) PROVE OnlyFailures' /\ state' # "closed"
  BY <1>8 DEF Trip, Goto
<1>9. ASSUME NEW c \in Callers, Stamp(c) PROVE OnlyFailures' /\ state' = state
  BY <1>9 DEF Stamp, Goto
<1>10. ASSUME NEW c \in Callers, ZeroFailures(c) \/ Succeed(c) PROVE FALSE
  BY <1>10 DEF ZeroFailures, Succeed
<1>11. ASSUME NEW t \in Tasks, ClosingStep(t) PROVE FALSE
  BY <1>11 DEF ClosingStep, Close, Forget, Settle
<1>12. ASSUME NEW t \in Operators, ResetBegins(t) \/ Unstamp(t) PROVE FALSE
  BY <1>12 DEF ResetBegins, Unstamp
<1>13. CASE Tick \/ UNCHANGED vars
  BY <1>13 DEF Tick, vars
<1> QED
  BY <1>1, <1>2, <1>3, <1>4, <1>5, <1>6, <1>7, <1>8, <1>9, <1>10, <1>11,
     <1>12, <1>13 DEF Next, CallStep

\* While operations only fail and nobody resets, no failure is lost among
\* overlapping callers, and a circuit that has left Closed does not get back there.
THEOREM CutOff ==
    ASSUME FailureThreshold # 0
    PROVE  Spec => []FailuresTrip /\ StaysCutOff
<1>1. Init => CutInv
  BY BreakerAssumption DEF Init, CutInv, OnlyFailures, FailuresTrip
<1>2. TypeOK /\ CutInv /\ [Next]_vars => CutInv'
  BY CutStep, EasedStays, BreakerAssumption DEF CutInv, TypeOK
<1>3. TypeOK /\ CutInv /\ [Next]_vars => [state # "closed" /\ ~eased' => state' # "closed"]_vars
  BY CutStep, EasedStays, BreakerAssumption DEF CutInv, TypeOK
<1>4. CutInv => FailuresTrip
  BY DEF CutInv, OnlyFailures, FailuresTrip
<1> QED
  BY <1>1, <1>2, <1>3, <1>4, TypeCorrect, PTL DEF Spec, StaysCutOff

-----------------------------------------------------------------------------
\* One caller, and nobody who resets.
Lone == Operators = {} /\ \A c, d \in Callers : c = d

\* What one caller knows of the state at each place of its calls.
KnownState(label) ==
    CASE label \in {"idle", "busy"}                    -> {"closed", "open", "half_open"}
      [] label \in {"zero", "count", "forget", "settle"} -> {"closed"}
      [] label \in {"tripped", "half", "tally", "stamp"} -> {"open"}
      [] label \in {"clear", "succeed", "close", "restart"} -> {"half_open"}
      [] label = "trip"                                -> {"closed", "half_open"}
      [] label = "unstamp"                             -> {}

\* The time that is stored is not before the one at which the circuit opened.
LoneInv ==
    /\ \A c \in Callers : state \in KnownState(pc[c])
    /\ state = "open" /\ ~At("stamp") => since <= openFor
    /\ At("half") => since >= Timeout

\* state() tells the caller what it needs to know.
LEMMA BranchKnown ==
    ASSUME NEW o \in {"ask", "ok", "fail"}, NEW s \in {"closed", "open", "half_open"}
    PROVE  /\ s \in KnownState(Branch[o][s])
           /\ Branch[o][s] \in {"idle", "busy", "zero", "succeed", "count", "tally", "restart"}
<1>1. CASE o = "ask"
  BY <1>1 DEF Branch, KnownState
<1>2. CASE o = "ok"
  BY <1>2 DEF Branch, KnownState
<1>3. CASE o = "fail"
  BY <1>3 DEF Branch, KnownState
<1> QED
  BY <1>1, <1>2, <1>3

\* Before and after a step.
LEMMA LoneAt ==
    ASSUME Lone, NEW c \in Callers, NEW label
    PROVE  /\ At(label) <=> pc[c] = label
           /\ At(label)' <=> pc'[c] = label
BY DEF Lone, Tasks, At

\* Where the caller goes decides what the cycle sees.
LEMMA LoneSees ==
    ASSUME Lone, NEW c \in Callers
    PROVE  /\ Mode = (IF pc[c] = "trip" THEN "open" ELSE IF pc[c] = "close" THEN "closed" ELSE state)
           /\ Mode' = (IF pc'[c] = "trip" THEN "open" ELSE IF pc'[c] = "close" THEN "closed" ELSE state')
           /\ Run = (IF Mode = "closed" /\ pc[c] \notin {"close", "forget"} THEN failures ELSE 0)
           /\ Run' = (IF Mode' = "closed" /\ pc'[c] \notin {"close", "forget"} THEN failures' ELSE 0)
           /\ Oks = (IF Mode = "half_open" /\ pc[c] # "clear" THEN successes ELSE 0)
           /\ Oks' = (IF Mode' = "half_open" /\ pc'[c] # "clear" THEN successes' ELSE 0)
           /\ Due = (Mode = "open" /\ pc[c] \notin {"trip", "stamp"} /\ since >= Timeout)
           /\ Due' = (Mode' = "open" /\ pc'[c] \notin {"trip", "stamp"} /\ since' >= Timeout)
<1>1. /\ Mode = (IF pc[c] = "trip" THEN "open" ELSE IF pc[c] = "close" THEN "closed" ELSE state)
      /\ Mode' = (IF pc'[c] = "trip" THEN "open" ELSE IF pc'[c] = "close" THEN "closed" ELSE state')
  BY LoneAt DEF Mode
<1>2. /\ Run = (IF Mode = "closed" /\ pc[c] \notin {"close", "forget"} THEN failures ELSE 0)
      /\ Run' = (IF Mode' = "closed" /\ pc'[c] \notin {"close", "forget"} THEN failures' ELSE 0)
  BY LoneAt DEF Run
<1>3. /\ Oks = (IF Mode = "half_open" /\ pc[c] # "clear" THEN successes ELSE 0)
      /\ Oks' = (IF Mode' = "half_open" /\ pc'[c] # "clear" THEN successes' ELSE 0)
  BY LoneAt DEF Oks
<1>4. /\ Due = (Mode = "open" /\ pc[c] \notin {"trip", "stamp"} /\ since >= Timeout)
      /\ Due' = (Mode' = "open" /\ pc'[c] \notin {"trip", "stamp"} /\ since' >= Timeout)
  BY LoneAt DEF Due
<1> QED
  BY <1>1, <1>2, <1>3, <1>4

\* The caller knows the state, and the circuit is not open longer than it says.
LEMMA LoneInvStep ==
    ASSUME BreakerAssumption, TypeOK, Lone, LoneInv, [Next]_vars
    PROVE  LoneInv' /\ (state = "open" /\ state' = "half_open" => openFor >= Timeout)
<1> USE DEF counters, history
<1> DEFINE Goal == LoneInv' /\ (state = "open" /\ state' = "half_open" => openFor >= Timeout)
<1>1. ASSUME NEW c \in Callers,
             \/ state' \in KnownState(pc'[c])
             \/ \E l \in Labels : pc' = [pc EXCEPT ![c] = l] /\ state' \in KnownState(l),
             state' = "open" /\ pc'[c] # "stamp" => since' <= openFor',
             pc'[c] = "half" => since' >= Timeout
      PROVE  LoneInv'
  <2>1. state' \in KnownState(pc'[c])
    BY <1>1 DEF TypeOK, Tasks
  <2>2. \A d \in Callers : d = c
    BY DEF Lone
  <2> QED
    BY <1>1, <2>1, <2>2, LoneAt DEF LoneInv
<1>2. ASSUME NEW c \in Callers
      PROVE  /\ c \in Tasks /\ state \in KnownState(pc[c])
             /\ state = "open" /\ pc[c] # "stamp" => since <= openFor
             /\ pc[c] = "half" => since >= Timeout
  BY <1>2, LoneAt DEF LoneInv, Tasks
<1>3. ASSUME NEW c \in Callers, NEW o \in {"ask", "ok", "fail"}, Begin(c, o) PROVE Goal
  <2>1. \E l \in Labels : /\ pc' = [pc EXCEPT ![c] = l] /\ state \in KnownState(l)
                          /\ l # "half" /\ l # "stamp"
    <3>1. CASE state = "open"
      BY <1>3, <3>1 DEF Begin, Goto, Labels, KnownState
    <3>2. CASE state # "open"
      BY <1>3, <3>2, BranchKnown DEF Begin, Returns, Goto, Labels, TypeOK
    <3> QED BY <3>1, <3>2
  <2>2. UNCHANGED <<state, since, openFor>> /\ pc[c] # "stamp"
    BY <1>3 DEF Begin
  <2> QED
    BY <1>1, <1>2, <2>1, <2>2 DEF TypeOK
<1>4. ASSUME NEW c \in Callers, LoadTripped(c) PROVE Goal
  <2>1. state = "open"
    BY <1>2, <1>4 DEF LoadTripped, KnownState
  <2>2. \E l \in Labels : /\ pc' = [pc EXCEPT ![c] = l] /\ state \in KnownState(l)
                          /\ l = "half" => since >= Timeout
    <3>1. CASE since >= Timeout
      BY <1>4, <2>1, <3>1 DEF LoadTripped, Goto, Labels, KnownState
    <3>2. CASE ~(since >= Timeout)
      BY <1>4, <2>1, <3>2, BranchKnown DEF LoadTripped, Returns, Goto, Labels, TypeOK
    <3> QED BY <3>1, <3>2
  <2>3. UNCHANGED <<state, since, openFor>> /\ pc[c] # "stamp"
    BY <1>4 DEF LoadTripped
  <2> QED
    BY <1>1, <1>2, <2>1, <2>2, <2>3 DEF TypeOK
<1>5. ASSUME NEW c \in Callers, StoreHalfOpen(c) PROVE Goal
  <2>1. pc' = [pc EXCEPT ![c] = "clear"] /\ state' = "half_open" /\ "clear" \in Labels
    BY <1>5 DEF StoreHalfOpen, Goto, Labels
  <2>2. openFor >= Timeout
    BY <1>2, <1>5 DEF StoreHalfOpen, KnownState, TypeOK, BreakerAssumption
  <2> QED
    BY <1>1, <1>2, <2>1, <2>2 DEF TypeOK, KnownState
<1>6. ASSUME NEW c \in Callers, ClearSuccesses(c) PROVE Goal
  <2>1. state = "half_open"
    BY <1>2, <1>6 DEF ClearSuccesses, KnownState
  <2>2. \E l \in Labels : /\ pc' = [pc EXCEPT ![c] = l] /\ state \in KnownState(l) /\ l # "half"
    <3> DEFINE l == Branch[call[c]]["half_open"]
    <3>1. call[c] \in {"ask", "ok", "fail"}
      BY DEF TypeOK
    <3>2. l \in Labels /\ "half_open" \in KnownState(l) /\ l # "half"
      BY <3>1, BranchKnown DEF Labels
    <3>3. pc' = [pc EXCEPT ![c] = l]
      BY <1>6 DEF ClearSuccesses, Returns, Goto
    <3> HIDE DEF l
    <3> QED
      BY <2>1, <3>2, <3>3
  <2> QED
    BY <1>1, <1>2, <1>6, <2>1, <2>2 DEF ClearSuccesses, TypeOK
<1>7. ASSUME NEW c \in Callers,
             ZeroFailures(c) \/ Succeed(c) \/ CountFailure(c) \/ Restart(c)
      PROVE  Goal
  <2>1. pc[c] \in {"zero", "succeed", "count", "restart"} /\ state' = state /\ state # "open"
    BY <1>2, <1>7 DEF ZeroFailures, Succeed, CountFailure, Restart, KnownState
  <2>2. \E l \in Labels : /\ pc' = [pc EXCEPT ![c] = l] /\ state \in KnownState(l) /\ l # "half"
    BY <1>2, <1>7 DEF ZeroFailures, Succeed, CountFailure, Restart, Goto, Labels, KnownState
  <2> QED
    BY <1>1, <1>2, <2>1, <2>2 DEF TypeOK
<1>8. ASSUME NEW c \in Callers, Tally(c) PROVE Goal
  <2>1. pc' = [pc EXCEPT ![c] = "idle"] /\ "idle" \in Labels /\ pc[c] = "tally"
    BY <1>8 DEF Tally, Goto, Labels
  <2> QED
    BY <1>1, <1>2, <1>8, <2>1 DEF Tally, TypeOK, KnownState
<1>9. ASSUME NEW c \in Callers, Trip(c) PROVE Goal
  <2>1. pc' = [pc EXCEPT ![c] = "stamp"] /\ "stamp" \in Labels /\ state' = "open"
    BY <1>9 DEF Trip, Goto, Labels
  <2>2. state # "open"
    BY <1>2, <1>9 DEF Trip, KnownState
  <2>3. "open" \in KnownState("stamp")
    BY DEF KnownState
  <2>4. pc'[c] = "stamp"
    BY <1>2, <2>1 DEF TypeOK
  <2> QED
    BY <1>1, <2>1, <2>2, <2>3, <2>4
<1>10. ASSUME NEW c \in Callers, Stamp(c) PROVE Goal
  <2>1. pc' = [pc EXCEPT ![c] = "idle"] /\ "idle" \in Labels /\ state' = "open"
    BY <1>2, <1>10 DEF Stamp, Goto, Labels, KnownState
  <2>2. since' = 0 /\ openFor' = openFor /\ state = "open"
    BY <1>2, <1>10 DEF Stamp, KnownState
  <2> QED
    BY <1>1, <1>2, <2>1, <2>2 DEF TypeOK, KnownState, BreakerAssumption
<1>11. ASSUME NEW t \in Tasks, ClosingStep(t) PROVE Goal
  <2>1. t \in Callers /\ t \notin Operators
    BY DEF Tasks, Lone
  <2>2. state' = "closed"
    BY <1>2, <1>11, <2>1 DEF ClosingStep, Close, Forget, Settle, KnownState
  <2>3. \E l \in Labels : /\ pc' = [pc EXCEPT ![t] = l] /\ "closed" \in KnownState(l) /\ l # "half"
    BY <1>11, <2>1 DEF ClosingStep, Close, Forget, Settle, Goto, Labels, KnownState
  <2> QED
    BY <1>1, <2>1, <2>2, <2>3, <1>2 DEF TypeOK
<1>12. CASE Tick
  <2>1. ASSUME NEW c \in Callers
        PROVE  /\ state' \in KnownState(pc'[c])
               /\ pc'[c] = "half" => since' >= Timeout
    BY <1>2, <1>12 DEF Tick, TypeOK, BreakerAssumption
  <2>2. state' = "open" /\ ~At("stamp")' => since' <= openFor'
    BY <1>12 DEF Tick, LoneInv, TypeOK, BreakerAssumption, At
  <2>3. At("half")' => since' >= Timeout
    BY <1>12 DEF Tick, LoneInv, TypeOK, BreakerAssumption, At
  <2> QED
    BY <1>12, <2>1, <2>2, <2>3 DEF LoneInv, Tick
<1>13. CASE UNCHANGED vars
  BY <1>13 DEF vars, LoneInv, At
<1> QED
  BY <1>3, <1>4, <1>5, <1>6, <1>7, <1>8, <1>9, <1>10, <1>11, <1>12, <1>13
  DEF Next, CallStep, Lone

\* With one caller the circuit stays open for the reset timeout (health.rs:220).
THEOREM OpenForItsTime == ASSUME Lone PROVE Spec => OpenStaysOpen
<1>1. Init => LoneInv
  BY BreakerAssumption DEF Init, LoneInv, KnownState, Tasks, At
<1>2. TypeOK /\ LoneInv /\ [Next]_vars => LoneInv'
  BY LoneInvStep, BreakerAssumption
<1>3. TypeOK /\ LoneInv /\ [Next]_vars
        => [state = "open" /\ state' = "half_open" => openFor >= Timeout]_vars
  BY LoneInvStep, BreakerAssumption
<1> QED
  BY <1>1, <1>2, <1>3, TypeCorrect, PTL DEF Spec, OpenStaysOpen

-----------------------------------------------------------------------------
\* Every step of one caller is a step of the cycle, or none.
LEMMA CycleStep ==
    ASSUME BreakerAssumption, TypeOK, TypeOK', Lone, LoneInv, LoneInv', [Next]_vars
    PROVE  [Cycle!Next]_(Cycle!vars)
<1> USE DEF counters, history
<1> DEFINE Stays == Mode' = Mode /\ Run' = Run /\ Oks' = Oks /\ Due' = Due
<1>1. ASSUME Stays PROVE [Cycle!Next]_(Cycle!vars)
  BY <1>1 DEF Cycle!vars
<1>2. ASSUME NEW m, Cycle!Enter(m) /\ (\/ Mode = "open" /\ Due /\ m = "half_open"
                                       \/ Mode = "half_open" /\ m = "open"
                                       \/ Mode = "closed" /\ Run + 1 >= FailureThreshold /\ m = "open"
                                       \/ Mode = "half_open" /\ Oks + 1 >= SuccessThreshold /\ m = "closed")
      PROVE  [Cycle!Next]_(Cycle!vars)
  BY <1>2 DEF Cycle!Next, Cycle!Failure, Cycle!Success, Cycle!Probe
<1>3. ASSUME NEW c \in Callers
      PROVE  /\ c \in Tasks /\ state \in KnownState(pc[c]) /\ state' \in KnownState(pc'[c])
             /\ pc[c] = "half" => since >= Timeout
             /\ \A l \in Labels : pc' = [pc EXCEPT ![c] = l] => pc'[c] = l
  BY <1>3, LoneAt DEF LoneInv, Tasks, TypeOK
<1>4. ASSUME NEW c \in Callers, NEW o \in {"ask", "ok", "fail"}, Begin(c, o) PROVE Stays
  <2>1. pc'[c] \in {"tripped", "idle", "busy", "zero", "succeed", "count", "tally", "restart"}
    <3>1. CASE state = "open"
      BY <1>3, <1>4, <3>1 DEF Begin, Goto, TypeOK
    <3>2. CASE state # "open"
      BY <1>3, <1>4, <3>2, BranchKnown DEF Begin, Returns, Goto, TypeOK
    <3> QED BY <3>1, <3>2
  <2>2. UNCHANGED <<state, failures, successes, since>> /\ pc[c] \in {"idle", "busy"}
    BY <1>4 DEF Begin
  <2> QED
    BY <2>1, <2>2, LoneSees
<1>5. ASSUME NEW c \in Callers, LoadTripped(c) PROVE Stays
  <2>1. pc'[c] \in {"half", "idle", "busy", "zero", "succeed", "count", "tally", "restart"}
    <3>1. CASE since >= Timeout
      BY <1>3, <1>5, <3>1 DEF LoadTripped, Goto, TypeOK
    <3>2. CASE ~(since >= Timeout)
      BY <1>3, <1>5, <3>2, BranchKnown DEF LoadTripped, Returns, Goto, TypeOK
    <3> QED BY <3>1, <3>2
  <2>2. UNCHANGED <<state, failures, successes, since>> /\ pc[c] = "tripped"
    BY <1>5 DEF LoadTripped
  <2> QED
    BY <2>1, <2>2, LoneSees
<1>6. ASSUME NEW c \in Callers, StoreHalfOpen(c) PROVE [Cycle!Next]_(Cycle!vars)
  <2>1. state' = "half_open" /\ pc'[c] = "clear" /\ since' = since /\ pc[c] = "half"
    BY <1>3, <1>6 DEF StoreHalfOpen, Goto, TypeOK
  <2>2. Mode = "open" /\ Due
    BY <1>3, <2>1, LoneSees DEF KnownState
  <2>3. Mode' = "half_open" /\ Run' = 0 /\ Oks' = 0 /\ Due' = FALSE
    BY <2>1, LoneSees
  <2> QED
    BY <1>2, <2>2, <2>3 DEF Cycle!Enter
<1>7. ASSUME NEW c \in Callers, ClearSuccesses(c) PROVE Stays
  <2>1. pc'[c] \in {"idle", "busy", "zero", "succeed", "count", "tally", "restart"}
    <3>1. call[c] \in {"ask", "ok", "fail"}
      BY DEF TypeOK
    <3>2. pc'[c] = Branch[call[c]]["half_open"]
      BY <1>3, <1>7 DEF ClearSuccesses, Returns, Goto, TypeOK
    <3> QED
      BY <3>1, <3>2, BranchKnown
  <2>2. state' = state /\ pc[c] = "clear" /\ successes' = 0
    BY <1>7 DEF ClearSuccesses
  <2>3. state = "half_open"
    BY <1>3, <2>2 DEF KnownState
  <2> QED
    BY <2>1, <2>2, <2>3, LoneSees
<1>8. ASSUME NEW c \in Callers, ZeroFailures(c) PROVE [Cycle!Next]_(Cycle!vars)
  <2>1. /\ pc[c] = "zero" /\ pc'[c] = "idle" /\ failures' = 0
        /\ UNCHANGED <<state, successes, since>>
    BY <1>3, <1>8 DEF ZeroFailures, Goto, TypeOK
  <2>2. state = "closed"
    BY <1>3, <2>1 DEF KnownState
  <2>3. Mode = "closed" /\ Run' = 0 /\ Mode' = Mode /\ Oks' = Oks /\ Due' = Due
    BY <2>1, <2>2, LoneSees
  <2> QED
    BY <2>3 DEF Cycle!Next, Cycle!Success
<1>9. ASSUME NEW c \in Callers, Succeed(c) PROVE [Cycle!Next]_(Cycle!vars)
  <2>1. /\ pc[c] = "succeed" /\ successes' = successes + 1
        /\ UNCHANGED <<state, failures, since>>
        /\ pc'[c] = IF successes + 1 >= SuccessThreshold THEN "close" ELSE "idle"
    BY <1>3, <1>9 DEF Succeed, Goto, TypeOK
  <2>2. state = "half_open"
    BY <1>3, <2>1 DEF KnownState
  <2>3. Mode = "half_open" /\ Oks = successes /\ Run = 0 /\ Due = FALSE
    BY <2>1, <2>2, LoneSees
  <2>4. CASE successes + 1 >= SuccessThreshold
    <3>1. Mode' = "closed" /\ Run' = 0 /\ Oks' = 0 /\ Due' = FALSE
      BY <2>1, <2>2, <2>4, LoneSees
    <3> QED
      BY <1>2, <2>3, <2>4, <3>1 DEF Cycle!Enter
  <2>5. CASE ~(successes + 1 >= SuccessThreshold)
    <3>1. Mode' = "half_open" /\ Oks' = Oks + 1 /\ Run' = 0 /\ Due' = FALSE
      BY <2>1, <2>2, <2>3, <2>5, LoneSees
    <3>2. Run' = Run /\ Due' = Due /\ Mode' = Mode
      BY <2>3, <3>1
    <3> QED
      BY <2>3, <2>5, <3>1, <3>2 DEF Cycle!Next, Cycle!Success
  <2> QED BY <2>4, <2>5
<1>10. ASSUME NEW c \in Callers, CountFailure(c) PROVE [Cycle!Next]_(Cycle!vars)
  <2>1. /\ pc[c] = "count" /\ failures' = failures + 1
        /\ UNCHANGED <<state, successes, since>>
        /\ pc'[c] = IF failures + 1 >= FailureThreshold THEN "trip" ELSE "idle"
    BY <1>3, <1>10 DEF CountFailure, Goto, TypeOK
  <2>2. state = "closed"
    BY <1>3, <2>1 DEF KnownState
  <2>3. Mode = "closed" /\ Run = failures /\ Oks = 0 /\ Due = FALSE
    BY <2>1, <2>2, LoneSees
  <2>4. CASE failures + 1 >= FailureThreshold
    <3>1. Mode' = "open" /\ Run' = 0 /\ Oks' = 0 /\ Due' = FALSE
      BY <2>1, <2>2, <2>4, LoneSees
    <3> QED
      BY <1>2, <2>3, <2>4, <3>1 DEF Cycle!Enter
  <2>5. CASE ~(failures + 1 >= FailureThreshold)
    <3>1. Mode' = "closed" /\ Run' = Run + 1 /\ Oks' = 0 /\ Due' = FALSE
      BY <2>1, <2>2, <2>3, <2>5, LoneSees
    <3>2. Oks' = Oks /\ Due' = Due /\ Mode' = Mode
      BY <2>3, <3>1
    <3> QED
      BY <2>3, <2>5, <3>1, <3>2 DEF Cycle!Next, Cycle!Failure
  <2> QED BY <2>4, <2>5
<1>11. ASSUME NEW c \in Callers, Restart(c) PROVE [Cycle!Next]_(Cycle!vars)
  <2>1. pc[c] = "restart" /\ pc'[c] = "trip" /\ state' = state
    BY <1>3, <1>11 DEF Restart, Goto, TypeOK
  <2>2. state = "half_open"
    BY <1>3, <2>1 DEF KnownState
  <2>3. Mode = "half_open" /\ Mode' = "open" /\ Run' = 0 /\ Oks' = 0 /\ Due' = FALSE
    BY <2>1, <2>2, LoneSees
  <2> QED
    BY <1>2, <2>3 DEF Cycle!Enter
<1>12. ASSUME NEW c \in Callers, Tally(c) \/ Trip(c) PROVE Stays
  <2>1. CASE Tally(c)
    <3>1. pc[c] = "tally" /\ pc'[c] = "idle" /\ UNCHANGED <<state, successes, since>>
      BY <1>3, <2>1 DEF Tally, Goto, TypeOK
    <3>2. state = "open"
      BY <1>3, <3>1 DEF KnownState
    <3> QED
      BY <3>1, <3>2, LoneSees
  <2>2. CASE Trip(c)
    <3>1. pc[c] = "trip" /\ pc'[c] = "stamp" /\ state' = "open"
      BY <1>3, <2>2 DEF Trip, Goto, TypeOK
    <3> QED
      BY <3>1, LoneSees
  <2> QED BY <1>12, <2>1, <2>2
<1>13. ASSUME NEW c \in Callers, Stamp(c) PROVE [Cycle!Next]_(Cycle!vars)
  <2>1. pc[c] = "stamp" /\ pc'[c] = "idle" /\ state' = state /\ since' = 0
    BY <1>3, <1>13 DEF Stamp, Goto, TypeOK
  <2>2. state = "open"
    BY <1>3, <2>1 DEF KnownState
  <2>3. Mode = "open" /\ Mode' = Mode /\ Run' = Run /\ Oks' = Oks /\ Due = FALSE /\ Due' \in BOOLEAN
    BY <2>1, <2>2, LoneSees
  <2>4. CASE Due' = TRUE
    BY <2>3, <2>4 DEF Cycle!Next, Cycle!TimeoutElapses
  <2>5. CASE Due' = FALSE
    BY <1>1, <2>3, <2>5
  <2> QED
    BY <2>3, <2>4, <2>5
<1>14. ASSUME NEW t \in Tasks, ClosingStep(t) PROVE Stays
  <2>1. t \in Callers /\ t \notin Operators
    BY DEF Tasks, Lone
  <2>2. CASE Close(t)
    <3>1. pc[t] = "close" /\ pc'[t] = "forget" /\ state' = "closed"
      BY <1>3, <2>1, <2>2 DEF Close, Goto, TypeOK
    <3> QED
      BY <2>1, <3>1, LoneSees
  <2>3. CASE Forget(t)
    <3>1. /\ pc[t] = "forget" /\ pc'[t] = "settle" /\ failures' = 0
          /\ UNCHANGED <<state, successes, since>>
      BY <1>3, <2>1, <2>3 DEF Forget, Goto, TypeOK
    <3>2. state = "closed"
      BY <1>3, <2>1, <3>1 DEF KnownState
    <3> QED
      BY <2>1, <3>1, <3>2, LoneSees
  <2>4. CASE Settle(t)
    <3>1. /\ pc[t] = "settle" /\ pc'[t] = "idle"
          /\ UNCHANGED <<state, failures, since>>
      BY <1>3, <2>1, <2>4 DEF Settle, Goto, TypeOK
    <3>2. state = "closed"
      BY <1>3, <2>1, <3>1 DEF KnownState
    <3> QED
      BY <2>1, <3>1, <3>2, LoneSees
  <2> QED BY <1>14, <2>2, <2>3, <2>4 DEF ClosingStep
<1>15. CASE Tick
  <2>1. UNCHANGED <<state, failures, successes, pc>> /\ (since >= Timeout => since' = since)
    BY <1>15 DEF Tick, TypeOK, BreakerAssumption
  <2>2. Mode' = Mode /\ Run' = Run /\ Oks' = Oks
    BY <2>1 DEF Mode, Run, Oks, At
  <2>3. Due \in BOOLEAN /\ Due' \in BOOLEAN /\ (Due => Due') /\ (Due' => Mode = "open")
    BY <2>1, <2>2 DEF Due, At
  <2> QED
    BY <1>1, <2>2, <2>3 DEF Cycle!Next, Cycle!TimeoutElapses
<1>16. CASE UNCHANGED vars
  <2>1. UNCHANGED <<state, failures, successes, pc, since>>
    BY <1>16 DEF vars
  <2> QED
    BY <1>1, <2>1 DEF Mode, Run, Oks, Due, At
<1> QED
  BY <1>1, <1>4, <1>5, <1>6, <1>7, <1>8, <1>9, <1>10, <1>11, <1>12, <1>13, <1>14,
     <1>15, <1>16 DEF Next, CallStep, Lone

\* Used by one caller that nobody resets, the breaker is the three-state cycle
\* of BreakerCycle: it trips at the threshold of consecutive failures, waits for
\* the timeout, reopens on a failed probe and closes after enough successes
\* (health.rs:203-224, 236-239), although each call takes several steps.
THEOREM CycleFollowed == ASSUME Lone PROVE Spec => FollowsCycle
<1>1. Init => LoneInv
  BY BreakerAssumption DEF Init, LoneInv, KnownState, Tasks, At
<1>2. TypeOK /\ LoneInv /\ [Next]_vars => LoneInv'
  BY LoneInvStep, BreakerAssumption
<1>3. Init => Cycle!Init
  BY DEF Init, Cycle!Init, Mode, Run, Oks, Due, At
<1>4. TypeOK /\ TypeOK' /\ LoneInv /\ LoneInv' /\ [Next]_vars => [Cycle!Next]_(Cycle!vars)
  BY CycleStep, BreakerAssumption
<1> QED
  BY <1>1, <1>2, <1>3, <1>4, TypeCorrect, PTL DEF Spec, FollowsCycle, Cycle!Spec
=============================================================================
