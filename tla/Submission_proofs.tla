--------------------------- MODULE Submission_proofs --------------------------
(***************************************************************************)
(* Theorems about what sends a fill and what receives it: RetryManager,    *)
(* RelayManager and WalletManager, for every set of transactions, number   *)
(* of relays and wallets, and every limit; and the contracts               *)
(* PhantomSettlement and PhantomFiller, for any accounts, orders, reactors,*)
(* amounts and depth of nested calls.                                      *)
(***************************************************************************)
EXTENDS RetryManager, RelayManager, WalletManager, PhantomSettlement, PhantomFiller,
        FiniteSetTheorems, SequenceTheorems, TLAPS

-----------------------------------------------------------------------------
(* RetryManager: the slots of the retries under way                        *)

\* What evaluate_retry established still holds when the slot is taken.
AttemptsLeft ==
    \A t \in Txs : pc[t] \in {"scheduled", "acquiring"} => attempt[t] < MaxRetries

\* Every step keeps the types and the attempts left.
LEMMA TypeStep ==
    ASSUME TypeOK, AttemptsLeft, [Next]_vars
    PROVE  TypeOK' /\ AttemptsLeft'
<1> USE RetryAssumption
<1>1. ASSUME NEW t \in Txs, FirstOutcome(t) PROVE TypeOK' /\ AttemptsLeft'
  <2>1. message' \in [Txs -> SUBSET Markers]
    BY <1>1 DEF FirstOutcome, TypeOK
  <2> QED
    BY <1>1, <2>1 DEF FirstOutcome, Goto, TypeOK, AttemptsLeft, Labels
<1>2. ASSUME NEW t \in Txs, Evaluate(t) PROVE TypeOK' /\ AttemptsLeft'
  BY <1>2 DEF Evaluate, Worth, Goto, TypeOK, AttemptsLeft, Labels
<1>3. ASSUME NEW t \in Txs, CheckBudget(t) PROVE TypeOK' /\ AttemptsLeft'
  BY <1>3 DEF CheckBudget, Goto, TypeOK, AttemptsLeft, Labels
<1>4. ASSUME NEW t \in Txs, TakeSlot(t) PROVE TypeOK' /\ AttemptsLeft'
  <2>1. attempt[t] < MaxRetries
    BY <1>4 DEF TakeSlot, AttemptsLeft
  <2>2. attempt[t] + 1 \in 0 .. MaxRetries
    BY <2>1 DEF TypeOK
  <2> QED
    BY <1>4, <2>2 DEF TakeSlot, Goto, TypeOK, AttemptsLeft, Labels
<1>5. ASSUME NEW t \in Txs, Release(t) PROVE TypeOK' /\ AttemptsLeft'
  <2>1. message' \in [Txs -> SUBSET Markers]
    BY <1>5 DEF Release, TypeOK
  <2> QED
    BY <1>5, <2>1 DEF Release, Goto, TypeOK, AttemptsLeft, Labels
<1>6. CASE UNCHANGED vars
  BY <1>6 DEF vars, TypeOK, AttemptsLeft
<1> QED
  BY <1>1, <1>2, <1>3, <1>4, <1>5, <1>6 DEF Next, TxStep, Done

\* The types and the attempts left hold in every reachable state.
LEMMA TypeInvariant == Spec => [](TypeOK /\ AttemptsLeft)
<1>1. Init => TypeOK /\ AttemptsLeft
  BY RetryAssumption DEF Init, TypeOK, AttemptsLeft, Labels
<1>2. TypeOK /\ AttemptsLeft /\ [Next]_vars => TypeOK' /\ AttemptsLeft'
  BY TypeStep
<1> QED
  BY <1>1, <1>2, PTL DEF Spec

\* No transaction is ever retried more than max_retries times, although the
\* evaluation, the acquisition and the retry are separate steps.
THEOREM RetryTyped == Spec => []TypeOK
BY TypeInvariant, PTL

\* A step that keeps everybody in or out of "retrying" keeps the set.
LEMMA RetryingStep ==
    ASSUME TypeOK, NEW t \in Txs, NEW l \in Labels, Goto(t, l)
    PROVE  Retrying' = IF l = "retrying" THEN Retrying \union {t} ELSE Retrying \ {t}
BY DEF Retrying, Goto, TypeOK

\* Every step keeps the slot counter exact.
LEMMA SlotsStep ==
    ASSUME TypeOK, SlotsExact, [Next]_vars
    PROVE  SlotsExact'
<1>1. IsFiniteSet(Retrying) /\ Cardinality(Retrying) \in Nat
  <2>1. Retrying \in SUBSET Txs
    BY DEF Retrying
  <2>2. IsFiniteSet(Retrying)
    BY <2>1, FS_Subset, RetryAssumption
  <2> QED
    BY <2>2, FS_CardinalityType
<1>2. ASSUME NEW t \in Txs, NEW l \in Labels \ {"retrying"}, Goto(t, l),
             pc[t] # "retrying", UNCHANGED active
      PROVE  SlotsExact'
  <2>1. Retrying' = Retrying
    BY <1>2, RetryingStep DEF Retrying
  <2> QED
    BY <1>2, <2>1 DEF SlotsExact
<1>3. ASSUME NEW t \in Txs, FirstOutcome(t) \/ Evaluate(t) \/ CheckBudget(t)
      PROVE  SlotsExact'
  BY <1>2, <1>3 DEF FirstOutcome, Evaluate, CheckBudget, Labels
<1>4. ASSUME NEW t \in Txs, TakeSlot(t) PROVE SlotsExact'
  <2>1. Retrying' = Retrying \union {t} /\ t \notin Retrying
    BY <1>4, RetryingStep DEF TakeSlot, Retrying, Labels
  <2>2. Cardinality(Retrying \union {t}) = Cardinality(Retrying) + 1
    BY <1>1, <2>1, FS_AddElement
  <2> QED
    BY <1>4, <2>1, <2>2 DEF TakeSlot, SlotsExact
<1>5. ASSUME NEW t \in Txs, Release(t) PROVE SlotsExact'
  <2>1. Retrying' = Retrying \ {t} /\ t \in Retrying
    BY <1>5, RetryingStep DEF Release, Retrying, Labels
  <2>2. /\ IsFiniteSet(Retrying \ {t})
        /\ Cardinality(Retrying \ {t}) = Cardinality(Retrying) - 1
    BY <1>1, <2>1, FS_RemoveElement
  <2>3. Cardinality(Retrying \ {t}) \in Nat
    BY <2>2, FS_CardinalityType
  <2>4. active' = active - 1
    BY <1>1, <1>5, <2>2, <2>3 DEF Release, SlotsExact, TypeOK
  <2> QED
    BY <2>1, <2>2, <2>4 DEF SlotsExact
<1>6. CASE UNCHANGED vars
  BY <1>6 DEF vars, SlotsExact, Retrying
<1> QED
  BY <1>3, <1>4, <1>5, <1>6 DEF Next, TxStep, Done

\* active_retries is the number of retries under way: no interleaving of the
\* loads, fetch_adds and saturating decrements loses or duplicates a slot.
THEOREM SlotsAreExact == Spec => []SlotsExact
<1>1. Init => SlotsExact
  <2> SUFFICES ASSUME Init PROVE SlotsExact
    OBVIOUS
  <2>1. Retrying = {}
    BY DEF Init, Retrying
  <2> QED
    BY <2>1, FS_EmptySet DEF Init, SlotsExact
<1>2. TypeOK /\ SlotsExact /\ [Next]_vars => SlotsExact'
  BY SlotsStep
<1> QED
  BY <1>1, <1>2, RetryTyped, PTL DEF Spec

-----------------------------------------------------------------------------
(* RelayManager: what broadcast reports                                    *)

\* What the task of a relay has done.
RelayJobs == [at : {"none", "sending", "done", "panicked"}, tries : 0 .. MaxAttempts, ok : BOOLEAN]

\* The tasks, their results and the count of bundles have their types.
RelayTyped ==
    /\ job \in [Relays -> RelayJobs]
    /\ awaited \in 0 .. NRelays + 1
    /\ results \in Seq([relay : Relays, ok : BOOLEAN])
    /\ took \in [Relays -> Nat]

\* A relay took the request at most once for each attempt, and took what it
\* confirmed.
TookWhatWasSent ==
    \A r \in Relays :
        /\ took[r] <= job[r].tries
        /\ job[r].at = "sending" => job[r].tries < MaxAttempts
        /\ job[r].ok => took[r] > 0

\* The results so far are those of the relays already awaited.
ResultsSoFar ==
    /\ \A r \in Relays : r < awaited => Finished(r)
    /\ {results[i].relay : i \in DOMAIN results}
         = {r \in Relays : r < awaited /\ job[r].at = "done"}
    /\ \A i, j \in DOMAIN results : i < j => results[i].relay < results[j].relay
    /\ \A i \in DOMAIN results : results[i].ok => job[results[i].relay].ok

\* What every step of RelayManager keeps.
RelayInv == RelayTyped /\ TookWhatWasSent /\ ResultsSoFar

\* A broadcast begins with the invariant.
LEMMA RelayInvInit ==
    ASSUME RelayInit
    PROVE  RelayInv
<1> USE RelayAssumption
<1>1. RelayTyped /\ TookWhatWasSent
  BY DEF RelayInit, RelayTyped, TookWhatWasSent, NoJob, RelayJobs
<1>2. DOMAIN results = {} /\ awaited = 0
  BY DEF RelayInit
<1>3. ResultsSoFar
  BY <1>2 DEF ResultsSoFar, Relays
<1> QED
  BY <1>1, <1>3 DEF RelayInv

\* The task of one relay that is still sending makes a step: no result depends
\* on it yet.
LEMMA RelayJobMoves ==
    ASSUME RelayInv, NEW r \in Relays, job[r].at = "sending", NEW j \in RelayJobs,
           job' = [job EXCEPT ![r] = j], UNCHANGED <<awaited, results>>,
           NEW n \in Nat, took' = [took EXCEPT ![r] = n],
           n <= j.tries, j.at = "sending" => j.tries < MaxAttempts, j.ok => n > 0
    PROVE  RelayInv'
<1>1. RelayTyped' /\ TookWhatWasSent'
  BY DEF RelayInv, RelayTyped, TookWhatWasSent
<1>2. \A s \in Relays : s < awaited => s # r
  BY DEF RelayInv, ResultsSoFar, Finished
<1>3. \A s \in Relays : s < awaited => job'[s] = job[s]
  BY <1>2 DEF RelayInv, RelayTyped
<1>4. \A i \in DOMAIN results : results[i].relay \in Relays /\ results[i].relay < awaited
  BY DEF RelayInv, ResultsSoFar
<1>5. ResultsSoFar'
  BY <1>3, <1>4 DEF RelayInv, ResultsSoFar, Finished
<1> QED
  BY <1>1, <1>5 DEF RelayInv

\* An attempt at a relay keeps the invariant.
LEMMA RelayAttempt ==
    ASSUME RelayInv, NEW r \in Relays, NEW answer \in RelayAnswers, NEW taken \in BOOLEAN,
           Attempt(r, answer, taken)
    PROVE  RelayInv'
<1> USE RelayAssumption
<1> DEFINE verdict == Verdict(answer)
           tries == job[r].tries + 1
           again == verdict = "again" /\ tries < MaxAttempts
           j == [at |-> IF again THEN "sending" ELSE "done", tries |-> tries, ok |-> verdict = "ok"]
           n == IF taken THEN took[r] + 1 ELSE took[r]
<1>1. /\ job[r].at = "sending" /\ job' = [job EXCEPT ![r] = j]
      /\ took' = [took EXCEPT ![r] = n] /\ UNCHANGED <<awaited, results>>
      /\ answer = "hash" => taken
  BY DEF Attempt
<1>2. /\ job[r].tries \in Nat /\ job[r].tries < MaxAttempts
      /\ took[r] \in Nat /\ took[r] <= job[r].tries
  BY <1>1 DEF RelayInv, RelayTyped, RelayJobs, TookWhatWasSent
<1>3. verdict = "ok" => answer = "hash"
  BY DEF Verdict, RelayAnswers
<1>4. j \in RelayJobs
  BY <1>2 DEF RelayJobs
<1>5. n \in Nat /\ n <= tries /\ (verdict = "ok" => n > 0)
  BY <1>1, <1>2, <1>3
<1> HIDE DEF verdict
<1> QED
  BY <1>1, <1>4, <1>5, RelayJobMoves

\* Collecting a result keeps the invariant.
LEMMA RelayCollect ==
    ASSUME RelayInv, NEW r \in Relays, Collect(r)
    PROVE  RelayInv'
<1> USE RelayAssumption
<1> DEFINE e == [relay |-> r, ok |-> job[r].ok]
<1>1. /\ awaited = r /\ awaited' = r + 1 /\ Finished(r) /\ UNCHANGED <<job, took>>
      /\ results' = IF job[r].at = "done" THEN Append(results, e) ELSE results
  BY DEF Collect
<1>2. e \in [relay : Relays, ok : BOOLEAN] /\ r \in Nat
  BY DEF RelayInv, RelayTyped, RelayJobs, Relays
<1>3. RelayTyped'
  <2> DEFINE S == [relay : Relays, ok : BOOLEAN]
  <2>1. results' \in Seq(S)
    <3>1. e \in S /\ results \in Seq(S)
      BY <1>2 DEF RelayInv, RelayTyped
    <3> HIDE DEF S, e
    <3>2. Append(results, e) \in Seq(S)
      BY <3>1
    <3> QED
      BY <1>1, <3>1, <3>2
  <2>2. r + 1 \in 0 .. NRelays + 1
    BY DEF Relays
  <2> QED
    BY <1>1, <2>1, <2>2 DEF RelayInv, RelayTyped
<1>4. TookWhatWasSent'
  BY <1>1 DEF RelayInv, TookWhatWasSent
<1>5. \A s \in Relays : s < awaited' <=> s < awaited \/ s = r
  BY <1>1, <1>2 DEF Relays
<1>6. ResultsSoFar'
  <2>1. CASE job[r].at # "done"
    BY <1>1, <1>5, <2>1 DEF RelayInv, ResultsSoFar, Finished
  <2>2. CASE job[r].at = "done"
    <3>1. /\ DOMAIN results' = DOMAIN results \union {Len(results) + 1}
          /\ Len(results) \in Nat /\ DOMAIN results = 1 .. Len(results)
          /\ \A i \in DOMAIN results : results'[i] = results[i]
          /\ results'[Len(results) + 1] = e
      BY <1>1, <1>2, <2>2 DEF RelayInv, RelayTyped
    <3>2. {results'[i].relay : i \in DOMAIN results'}
            = {results[i].relay : i \in DOMAIN results} \union {r}
      BY <3>1
    <3>3. {results'[i].relay : i \in DOMAIN results'}
            = {s \in Relays : s < awaited' /\ job'[s].at = "done"}
      BY <1>1, <1>5, <2>2, <3>2 DEF RelayInv, ResultsSoFar
    <3>4. \A i \in DOMAIN results : results[i].relay \in Nat /\ results[i].relay < r
      <4> SUFFICES ASSUME NEW i \in DOMAIN results
                   PROVE  results[i].relay \in Nat /\ results[i].relay < r
        OBVIOUS
      <4>1. results[i].relay \in {results[k].relay : k \in DOMAIN results}
        OBVIOUS
      <4>2. results[i].relay \in Relays /\ results[i].relay < awaited
        BY <4>1 DEF RelayInv, ResultsSoFar
      <4> QED
        BY <1>1, <4>2 DEF Relays
    <3>5. \A i, j \in DOMAIN results' : i < j => results'[i].relay < results'[j].relay
      BY <3>1, <3>4 DEF RelayInv, ResultsSoFar
    <3>6. \A i \in DOMAIN results' : results'[i].ok => job'[results'[i].relay].ok
      BY <1>1, <3>1 DEF RelayInv, ResultsSoFar
    <3>7. \A s \in Relays : s < awaited' => Finished(s)'
      BY <1>1, <1>5 DEF RelayInv, ResultsSoFar, Finished
    <3> QED
      BY <3>3, <3>5, <3>6, <3>7 DEF ResultsSoFar
  <2> QED
    BY <2>1, <2>2
<1> QED
  BY <1>3, <1>4, <1>6 DEF RelayInv

\* Every step keeps the invariant of broadcast.
LEMMA RelayInvStep ==
    ASSUME RelayInv, [RelayNext]_relayVars
    PROVE  RelayInv'
<1> USE RelayAssumption
<1>1. ASSUME NEW empty \in BOOLEAN, Broadcast(empty)
      PROVE  RelayInv'
  <2> DEFINE j == [NoJob EXCEPT !.at = "sending"]
  <2>0. NoJob \in RelayJobs /\ NoJob.tries = 0 /\ NoJob.ok = FALSE
    BY DEF NoJob, RelayJobs
  <2>1. j \in RelayJobs /\ j.at = "sending" /\ j.tries = 0 /\ j.ok = FALSE
    BY <2>0 DEF RelayJobs
  <2>2. /\ awaited' = 1 /\ results' = << >> /\ took' = [r \in Relays |-> 0]
        /\ job' = [r \in Relays |-> j]
    BY <1>1 DEF Broadcast
  <2> HIDE DEF j
  <2>3. RelayTyped' /\ TookWhatWasSent'
    BY <2>1, <2>2 DEF RelayTyped, TookWhatWasSent
  <2>4. DOMAIN results' = {}
    BY <2>2
  <2>5. ResultsSoFar'
    BY <2>2, <2>4 DEF ResultsSoFar, Relays
  <2> QED
    BY <2>3, <2>5 DEF RelayInv
<1>2. ASSUME NEW r \in Relays, NEW at \in {"done", "panicked"}, job[r].at = "sending",
             job' = [job EXCEPT ![r].at = at], UNCHANGED <<awaited, results, took>>
      PROVE  RelayInv'
  <2> DEFINE j == [job[r] EXCEPT !.at = at]
  <2>1. job[r] \in RelayJobs /\ took[r] \in Nat
    BY DEF RelayInv, RelayTyped
  <2>2. j \in RelayJobs /\ j.at = at /\ j.tries = job[r].tries /\ j.ok = job[r].ok
    BY <2>1 DEF RelayJobs
  <2>3. job' = [job EXCEPT ![r] = j] /\ took' = [took EXCEPT ![r] = took[r]]
    BY <1>2 DEF RelayInv, RelayTyped
  <2>4. took[r] <= job[r].tries /\ (job[r].ok => took[r] > 0)
    BY DEF RelayInv, TookWhatWasSent
  <2> HIDE DEF j
  <2> QED
    BY <1>2, <2>1, <2>2, <2>3, <2>4, RelayJobMoves
<1>3. ASSUME NEW r \in Relays, RefuseEmpty(r)
      PROVE  RelayInv'
  BY <1>2, <1>3 DEF RefuseEmpty
<1>4. ASSUME NEW r \in Relays, Panics(r)
      PROVE  RelayInv'
  BY <1>2, <1>4 DEF Panics
<1>5. CASE UNCHANGED relayVars
  BY <1>5 DEF relayVars, RelayInv, RelayTyped, TookWhatWasSent, ResultsSoFar, Finished
<1> QED
  BY <1>1, <1>3, <1>4, <1>5, RelayAttempt, RelayCollect DEF RelayNext, RelayTask

\* For any number of relays and attempts: what a broadcast reports is true of
\* every relay.
THEOREM ReportIsTrue == RelaySpec => []BroadcastReport
<1>1. RelayInv => BroadcastReport
  <2> SUFFICES ASSUME RelayInv PROVE BroadcastReport
    OBVIOUS
  <2>1. \A r \in Relays : took[r] <= MaxAttempts
    BY RelayAssumption DEF RelayInv, RelayTyped, RelayJobs, TookWhatWasSent
  <2>2. \A i \in DOMAIN results : results[i].ok => took[results[i].relay] > 0
    BY DEF RelayInv, ResultsSoFar, TookWhatWasSent
  <2>3. awaited = NRelays + 1 => \A r \in Relays : r < awaited
    BY RelayAssumption DEF Relays
  <2> QED
    BY <2>1, <2>2, <2>3 DEF RelayInv, ResultsSoFar, BroadcastReport
<1> QED
  BY RelayInvInit, RelayInvStep, <1>1, PTL DEF RelaySpec

-----------------------------------------------------------------------------
(* WalletManager: room for wallets                                         *)

\* Every wallet that is stored or on its way has found room for one, apart from
\* those that found the last room together.
RoomsTaken ==
    /\ IsFiniteSet(wallets)
    /\ importing \subseteq Operators
    /\ Cardinality(wallets) + Cardinality(importing) <= MaxWallets + Cardinality(Operators) - 1

\* At the start the wallets are within their limit.
LEMMA RoomsTakenInit ==
    ASSUME WalletInit
    PROVE  RoomsTaken
<1> USE WalletAssumption
<1>1. Cardinality({}) = 0 /\ IsFiniteSet({})
  BY FS_EmptySet
<1>2. Cardinality(Operators) \in Nat \ {0}
  BY FS_CardinalityType, FS_EmptySet
<1> QED
  BY <1>1, <1>2 DEF WalletInit, RoomsTaken

\* Every step keeps the wallets and the imports under way within their bound.
LEMMA RoomsTakenStep ==
    ASSUME RoomsTaken, [WalletNext]_walletVars
    PROVE  RoomsTaken'
<1> USE WalletAssumption
<1>1. /\ IsFiniteSet(wallets) /\ IsFiniteSet(importing)
      /\ Cardinality(wallets) \in Nat /\ Cardinality(importing) \in Nat
      /\ Cardinality(Operators) \in Nat
  BY FS_Subset, FS_CardinalityType DEF RoomsTaken
<1>2. ASSUME NEW o \in Operators, ImportChecks(o) PROVE RoomsTaken'
  <2>1. importing' \subseteq Operators
    BY <1>2 DEF ImportChecks, RoomsTaken
  <2>2. IsFiniteSet(importing') /\ Cardinality(importing') <= Cardinality(Operators)
    BY <2>1, FS_Subset
  <2>3. Cardinality(importing') \in Nat
    BY <2>2, FS_CardinalityType
  <2>4. Cardinality(wallets) <= MaxWallets - 1 /\ wallets' = wallets
    BY <1>1, <1>2 DEF ImportChecks, RoomForWallet
  <2> QED
    BY <1>1, <2>1, <2>2, <2>3, <2>4 DEF RoomsTaken
<1>3. ASSUME NEW o \in Operators, NEW parsed,
             parsed = {} \/ \E a \in Addresses : parsed = {a},
             ImportEnds(o, parsed)
      PROVE  RoomsTaken'
  <2>1. IsFiniteSet(importing') /\ Cardinality(importing') = Cardinality(importing) - 1
    BY <1>1, <1>3, FS_RemoveElement DEF ImportEnds
  <2>2. IsFiniteSet(wallets') /\ Cardinality(wallets') <= Cardinality(wallets) + 1
    <3>1. CASE parsed = {}
      BY <1>1, <1>3, <3>1 DEF ImportEnds
    <3>2. ASSUME NEW a \in Addresses, parsed = {a}
          PROVE  IsFiniteSet(wallets') /\ Cardinality(wallets') <= Cardinality(wallets) + 1
      <4>1. wallets' = wallets \union {a}
        BY <1>3, <3>2 DEF ImportEnds
      <4>2. /\ IsFiniteSet(wallets \union {a})
            /\ \/ Cardinality(wallets \union {a}) = Cardinality(wallets)
               \/ Cardinality(wallets \union {a}) = Cardinality(wallets) + 1
        BY <1>1, FS_AddElement
      <4> QED
        BY <1>1, <4>1, <4>2
    <3> QED
      BY <1>3, <3>1, <3>2
  <2>3. Cardinality(wallets') \in Nat
    BY <2>2, FS_CardinalityType
  <2> QED
    BY <1>1, <1>3, <2>1, <2>2, <2>3 DEF ImportEnds, RoomsTaken
<1>4. ASSUME NEW a \in Addresses, RemoveWallet(a) PROVE RoomsTaken'
  <2>1. IsFiniteSet(wallets') /\ Cardinality(wallets') = Cardinality(wallets) - 1
    BY <1>1, <1>4, FS_RemoveElement DEF RemoveWallet
  <2> QED
    BY <1>1, <1>4, <2>1 DEF RemoveWallet, RoomsTaken
<1>5. ASSUME NEW t \in Signers,
             Sign(t) \/ \E a \in Addresses : PrepareSigning(t, a)
      PROVE  RoomsTaken'
  BY <1>5 DEF Sign, PrepareSigning, RoomsTaken
<1>6. CASE UNCHANGED walletVars
  BY <1>6 DEF walletVars, RoomsTaken
<1> QED
  BY <1>2, <1>3, <1>4, <1>5, <1>6 DEF WalletNext

\* The number of wallets exceeds the configured limit by less than the number
\* of the operators, whatever they import and remove.
THEOREM WalletsStayBounded == WalletSpec => []WalletsBounded
<1>1. RoomsTaken => WalletsBounded
  <2> SUFFICES ASSUME RoomsTaken PROVE WalletsBounded
    OBVIOUS
  <2>1. Cardinality(importing) \in Nat /\ Cardinality(wallets) \in Nat /\ Cardinality(Operators) \in Nat
    BY WalletAssumption, FS_Subset, FS_CardinalityType DEF RoomsTaken
  <2> QED
    BY <2>1, WalletAssumption DEF RoomsTaken, WalletsBounded
<1> QED
  BY RoomsTakenInit, RoomsTakenStep, <1>1, PTL DEF WalletSpec

-----------------------------------------------------------------------------
(* PhantomSettlement: it implements its ledger                             *)

\* The variables of the contract have their types in every reachable state
\* (PhantomSettlement.sol:44-69).
THEOREM SettlementTyped == SettlementSpec => []SettlementType
<1> USE SettlementAssumption
<1>1. SettlementInit => SettlementType
  BY DEF SettlementInit, SettlementType, NoSettlement, Addresses0
<1>2. SettlementType /\ [SettlementNext]_settlementVars => SettlementType'
  <2> SUFFICES ASSUME SettlementType, [SettlementNext]_settlementVars PROVE SettlementType'
    OBVIOUS
  <2>1. ASSUME NEW s \in Accounts, NEW h \in OrderHashes, NEW f \in Addresses0,
               NEW i \in Amounts, NEW o \in Amounts, RecordFill(s, h, f, i, o)
        PROVE  SettlementType'
    BY <2>1 DEF RecordFill, SettlementType
  <2>2. ASSUME NEW s \in Accounts, NEW r \in Addresses0, AddRecorder(s, r) \/ RemoveRecorder(s, r)
        PROVE  SettlementType'
    BY <2>2 DEF AddRecorder, RemoveRecorder, SettlementType, Addresses0
  <2>3. ASSUME NEW s \in Accounts, NEW h \in OrderHashes, DisputeFill(s, h) \/ ResolveDispute(s, h)
        PROVE  SettlementType'
    BY ZenonT(40), <2>3 DEF DisputeFill, ResolveDispute, SettlementType
  <2>4. ASSUME NEW s \in Accounts, NEW a \in Addresses0, TransferOwnership(s, a)
        PROVE  SettlementType'
    BY <2>4 DEF TransferOwnership, SettlementType
  <2>5. CASE BlockTime
    BY <2>5 DEF BlockTime, SettlementType
  <2>6. CASE UNCHANGED settlementVars
    BY <2>6 DEF settlementVars, SettlementType
  <2> QED
    BY <2>1, <2>2, <2>3, <2>4, <2>5, <2>6 DEF SettlementNext, Transaction
<1> QED
  BY <1>1, <1>2, PTL DEF SettlementSpec

-----------------------------------------------------------------------------
(* The steps as readers of the ledger see them                             *)

Entries == [h \in OrderHashes |-> IF IsFilled(h) THEN {Entry(settlements[h])} ELSE {}]

\* A step enters one new fill, or leaves every fill as it is.
LEMMA Steps ==
    ASSUME SettlementType, [SettlementNext]_settlementVars
    PROVE  \/ \E h \in OrderHashes, f \in FinalFills :
                 /\ ~IsFilled(h) /\ IsFilled(h)'
                 /\ \A g \in OrderHashes \ {h} : IsFilled(g)' <=> IsFilled(g)
                 /\ Entries' = [Entries EXCEPT ![h] = {f}]
                 /\ totalSettlements' = totalSettlements + 1
           \/ /\ \A g \in OrderHashes : IsFilled(g)' <=> IsFilled(g)
              /\ Entries' = Entries
              /\ totalSettlements' = totalSettlements
<1> DEFINE Same == /\ \A g \in OrderHashes : IsFilled(g)' <=> IsFilled(g)
                   /\ Entries' = Entries
                   /\ totalSettlements' = totalSettlements
<1> USE SettlementAssumption
<1>1. ASSUME NEW s \in Accounts, NEW h \in OrderHashes, NEW f \in Addresses0,
             NEW i \in Amounts, NEW o \in Amounts, RecordFill(s, h, f, i, o)
      PROVE  \E g \in FinalFills :
                 /\ ~IsFilled(h) /\ IsFilled(h)'
                 /\ \A k \in OrderHashes \ {h} : IsFilled(k)' <=> IsFilled(k)
                 /\ Entries' = [Entries EXCEPT ![h] = {g}]
                 /\ totalSettlements' = totalSettlements + 1
  <2> DEFINE g == [filler |-> f, inputAmount |-> i, outputAmount |-> o, settledAt |-> timestamp]
  <2>1. g \in FinalFills
    BY <1>1 DEF RecordFill, SettlementType, FinalFills, Addresses0
  <2>2. /\ settlements'[h] = [filler |-> f, inputAmount |-> i, outputAmount |-> o,
                              settledAt |-> timestamp, disputed |-> FALSE]
        /\ \A k \in OrderHashes \ {h} : settlements'[k] = settlements[k]
    BY <1>1 DEF RecordFill, SettlementType
  <2>3. ~IsFilled(h) /\ IsFilled(h)' /\ Entry(settlements'[h]) = g
    BY <1>1, <2>2 DEF RecordFill, IsFilled, SettlementType, Entry
  <2>4. \A k \in OrderHashes \ {h} : IsFilled(k)' <=> IsFilled(k)
    BY <2>2 DEF IsFilled
  <2>5. Entries' = [Entries EXCEPT ![h] = {g}]
    BY <2>2, <2>3, <2>4 DEF Entries
  <2> QED
    BY <1>1, <2>1, <2>3, <2>4, <2>5 DEF RecordFill
<1>2. ASSUME NEW s \in Accounts, NEW h \in OrderHashes, DisputeFill(s, h) \/ ResolveDispute(s, h)
      PROVE  Same
  <2>1. \A k \in OrderHashes :
            /\ settlements'[k].settledAt = settlements[k].settledAt
            /\ Entry(settlements'[k]) = Entry(settlements[k])
    BY <1>2 DEF DisputeFill, ResolveDispute, SettlementType, Entry
  <2> QED
    BY <1>2, <2>1 DEF DisputeFill, ResolveDispute, IsFilled, Entries
<1>3. ASSUME settlements' = settlements, totalSettlements' = totalSettlements
      PROVE  Same
  BY <1>3 DEF IsFilled, Entries
<1>4. CASE UNCHANGED settlementVars
  BY <1>3, <1>4 DEF settlementVars
<1>5. CASE BlockTime
  BY <1>3, <1>5 DEF BlockTime
<1>6. ASSUME NEW s \in Accounts, NEW a \in Addresses0,
             AddRecorder(s, a) \/ RemoveRecorder(s, a) \/ TransferOwnership(s, a)
      PROVE  Same
  BY <1>3, <1>6 DEF AddRecorder, RemoveRecorder, TransferOwnership
<1> QED
  BY <1>1, <1>2, <1>4, <1>5, <1>6 DEF SettlementNext, Transaction

\* However recorders, owners and disputes interleave, the contract implements the
\* ledger: each fill is entered once and stays (PhantomSettlement.sol:112-177).
THEOREM LedgerImplemented == SettlementSpec => SettledOnce
<1>1. SettlementInit => Ledger!LedgerInit
  BY DEF SettlementInit, Ledger!LedgerInit, IsFilled, NoSettlement
<1>2. SettlementType /\ [SettlementNext]_settlementVars
        => [Ledger!LedgerNext]_<<Entries, totalSettlements>>
  <2> SUFFICES ASSUME SettlementType, [SettlementNext]_settlementVars,
                      <<Entries, totalSettlements>>' # <<Entries, totalSettlements>>
               PROVE  Ledger!LedgerNext
    OBVIOUS
  <2>1. PICK h \in OrderHashes, f \in FinalFills :
            /\ ~IsFilled(h) /\ IsFilled(h)'
            /\ Entries' = [Entries EXCEPT ![h] = {f}]
            /\ totalSettlements' = totalSettlements + 1
    BY Steps
  <2>2. Entries[h] = {} /\ Entries'[h] = {f}
    BY <2>1 DEF Entries
  <2>3. Ledger!Enter(h)
    BY <2>1, <2>2 DEF Ledger!Enter, Entries
  <2> QED
    BY <2>3 DEF Ledger!LedgerNext
<1> QED
  BY <1>1, <1>2, SettlementTyped, PTL DEF SettlementSpec, SettledOnce, Ledger!LedgerSpec, Entries

-----------------------------------------------------------------------------
\* totalSettlements is the number of settled orders, for every number of orders
\* (PhantomSettlement.sol:68, 129).
THEOREM TotalIsCount == SettlementSpec => []TotalCounts
<1> DEFINE Filled == {h \in OrderHashes : IsFilled(h)}
<1> USE SettlementAssumption
<1>1. SettlementInit => TotalCounts
  <2> SUFFICES ASSUME SettlementInit PROVE TotalCounts
    OBVIOUS
  <2>1. Filled = {}
    BY DEF SettlementInit, IsFilled, NoSettlement
  <2> QED
    BY <2>1, FS_EmptySet DEF SettlementInit, TotalCounts
<1>2. SettlementType /\ TotalCounts /\ [SettlementNext]_settlementVars => TotalCounts'
  <2> SUFFICES ASSUME SettlementType, TotalCounts, [SettlementNext]_settlementVars
               PROVE  TotalCounts'
    OBVIOUS
  <2>1. IsFiniteSet(Filled)
    BY FS_Subset
  <2>2. ASSUME NEW h \in OrderHashes, ~IsFilled(h), IsFilled(h)',
               \A g \in OrderHashes \ {h} : IsFilled(g)' <=> IsFilled(g),
               totalSettlements' = totalSettlements + 1
        PROVE  TotalCounts'
    <3>1. Filled' = Filled \union {h} /\ h \notin Filled
      BY <2>2
    <3>2. Cardinality(Filled') = Cardinality(Filled) + 1
      BY <2>1, <3>1, FS_AddElement
    <3> QED
      BY <2>2, <3>2 DEF TotalCounts
  <2>3. ASSUME \A g \in OrderHashes : IsFilled(g)' <=> IsFilled(g),
               totalSettlements' = totalSettlements
        PROVE  TotalCounts'
    <3>1. Filled' = Filled
      BY <2>3
    <3> QED
      BY <2>3, <3>1 DEF TotalCounts
  <2> QED
    BY <2>2, <2>3, Steps
<1> QED
  BY <1>1, <1>2, SettlementTyped, PTL DEF SettlementSpec

-----------------------------------------------------------------------------
(* PhantomFiller: the lock                                                 *)

Contract ==
    [owner : FillerAccounts, whitelistedReactors : SUBSET FillerAccounts,
     authorizedFillers : SUBSET FillerAccounts, locked : BOOLEAN, tokens : Nat, ether : Nat,
     allowance : [Reactors -> Nat]]

Frame ==
    [call : {"ether", "fill", "callback", "batch"}, callee : FillerAccounts, answered : BOOLEAN,
     before : Contract]

\* Every variable of PhantomFiller has its type.
FillerTyped ==
    /\ filler \in Contract
    /\ frames \in Seq(Frame)
    /\ made \in Nat

Opens(i) == frames[i].call # "ether"

\* The lock tells whether a fill is open; what a frame would put back tells
\* whether one was open below it.
LockInv ==
    /\ filler.locked <=> \E i \in 1 .. Len(frames) : Opens(i)
    /\ \A i, j \in 1 .. Len(frames) : Opens(i) /\ Opens(j) => i = j
    /\ \A i \in 1 .. Len(frames) :
         frames[i].before.locked <=> \E j \in 1 .. (i - 1) : Opens(j)

-----------------------------------------------------------------------------
(* The four ways in which a step changes the frames                        *)

\* Other funds leave the contract what it is.
LEMMA Funds ==
    ASSUME FillerTyped
    PROVE  /\ filler.tokens \in Nat /\ filler.ether \in Nat /\ filler.allowance \in [Reactors -> Nat]
           /\ \A n \in Nat : LET f == [filler EXCEPT !.tokens = n] IN
                f \in Contract /\ f.locked = filler.locked
           /\ \A n \in Nat : LET f == [filler EXCEPT !.ether = n] IN
                f \in Contract /\ f.locked = filler.locked
           /\ \A r \in Reactors, n \in Nat : LET f == [filler EXCEPT !.allowance[r] = n] IN
                f \in Contract /\ f.locked = filler.locked
<1>1. /\ filler.tokens \in Nat /\ filler.ether \in Nat /\ filler.allowance \in [Reactors -> Nat]
      /\ filler \in Contract
  BY DEF FillerTyped, Contract
<1>2. ASSUME NEW n \in Nat
      PROVE  LET f == [filler EXCEPT !.tokens = n] IN f \in Contract /\ f.locked = filler.locked
  BY <1>1 DEF Contract
<1>3. ASSUME NEW n \in Nat
      PROVE  LET f == [filler EXCEPT !.ether = n] IN f \in Contract /\ f.locked = filler.locked
  BY <1>1 DEF Contract
<1>4. ASSUME NEW r \in Reactors, NEW n \in Nat
      PROVE  LET f == [filler EXCEPT !.allowance[r] = n] IN f \in Contract /\ f.locked = filler.locked
  <2> DEFINE b == [filler.allowance EXCEPT ![r] = n]
  <2>1. b \in [Reactors -> Nat]
    BY <1>1
  <2>2. [filler EXCEPT !.allowance[r] = n] = [filler EXCEPT !.allowance = b]
    BY <1>1 DEF Contract
  <2> HIDE DEF b
  <2> QED
    BY <1>1, <2>1, <2>2 DEF Contract
<1> QED
  BY <1>1, <1>2, <1>3, <1>4

\* Nobody is called, nobody returns.
Stays(f) ==
    /\ filler' = f /\ f \in Contract /\ f.locked = filler.locked
    /\ Len(frames') = Len(frames) /\ frames' \in Seq(Frame)
    /\ \A i \in 1 .. Len(frames) :
         frames'[i].call = frames[i].call /\ frames'[i].before = frames[i].before

\* The recipient of ether is called.
Pays(f, to) ==
    /\ filler' = f /\ f \in Contract /\ f.locked = filler.locked
    /\ to \in FillerAccounts /\ Push("ether", to)

\* A call of the owner stays in the contract or pays out of it.
LEMMA OwnerStep ==
    ASSUME FillerTyped, NEW a \in FillerAccounts, OwnerCalls(a)
    PROVE  (\E f : Stays(f)) \/ (\E f, to : Pays(f, to))
<1> USE FillerAssumption DEF FillerTyped
<1>1. ASSUME UNCHANGED frames, NEW f \in Contract, filler' = f, f.locked = filler.locked
      PROVE  Stays(f)
  BY <1>1 DEF Stays
<1>2. ASSUME NEW r \in Reactors \union {ZeroAddress}, AddReactor(a, r) PROVE \E f : Stays(f)
  <2> DEFINE f == [filler EXCEPT !.whitelistedReactors = @ \union {r}]
  <2>1. f \in Contract /\ f.locked = filler.locked
    BY <1>2 DEF AddReactor, Contract
  <2> QED
    BY <1>1, <1>2, <2>1 DEF AddReactor
<1>3. ASSUME NEW r \in Reactors \union {ZeroAddress}, RemoveReactor(a, r) PROVE \E f : Stays(f)
  <2> DEFINE f == [filler EXCEPT !.whitelistedReactors = @ \ {r}]
  <2>1. f \in Contract /\ f.locked = filler.locked
    BY DEF Contract
  <2> QED
    BY <1>1, <1>3, <2>1 DEF RemoveReactor
<1>4. ASSUME NEW b \in FillerAccounts \union {ZeroAddress}, AuthorizeFiller(a, b)
      PROVE  \E f : Stays(f)
  <2> DEFINE f == [filler EXCEPT !.authorizedFillers = @ \union {b}]
  <2>1. f \in Contract /\ f.locked = filler.locked
    BY <1>4 DEF AuthorizeFiller, Contract
  <2> QED
    BY <1>1, <1>4, <2>1 DEF AuthorizeFiller
<1>5. ASSUME NEW b \in FillerAccounts \union {ZeroAddress}, DeauthorizeFiller(a, b)
      PROVE  \E f : Stays(f)
  <2> DEFINE f == [filler EXCEPT !.authorizedFillers = @ \ {b}]
  <2>1. f \in Contract /\ f.locked = filler.locked
    BY DEF Contract
  <2> QED
    BY <1>1, <1>5, <2>1 DEF DeauthorizeFiller
<1>6. ASSUME NEW r \in Reactors \union {ZeroAddress}, NEW n \in 0 .. MaxFunds, ApproveToken(a, r, n)
      PROVE  \E f : Stays(f)
  <2> DEFINE f == [filler EXCEPT !.allowance[r] = n]
  <2>1. f \in Contract /\ f.locked = filler.locked
    BY <1>6, Funds DEF ApproveToken
  <2> QED
    BY <1>1, <1>6, <2>1 DEF ApproveToken
<1>7. ASSUME NEW b \in FillerAccounts \union {ZeroAddress}, NEW n \in 0 .. MaxFunds,
             WithdrawToken(a, b, n)
      PROVE  \E f : Stays(f)
  <2> DEFINE f == [filler EXCEPT !.tokens = @ - n]
  <2>1. f \in Contract /\ f.locked = filler.locked
    <3>1. n \in Nat /\ n <= filler.tokens
      BY <1>7 DEF WithdrawToken
    <3>2. filler.tokens - n \in Nat
      BY <3>1, Funds
    <3> QED
      BY <3>2, Funds
  <2> QED
    BY <1>1, <1>7, <2>1 DEF WithdrawToken
<1>8. ASSUME NEW b \in FillerAccounts \union {ZeroAddress}, NEW n \in 0 .. MaxFunds,
             WithdrawEth(a, b, n)
      PROVE  \E f, to : Pays(f, to)
  <2> DEFINE f == [filler EXCEPT !.ether = @ - n]
  <2>1. f \in Contract /\ f.locked = filler.locked
    <3>1. n \in Nat /\ n <= filler.ether
      BY <1>8 DEF WithdrawEth
    <3>2. filler.ether - n \in Nat
      BY <3>1, Funds
    <3> QED
      BY <3>2, Funds
  <2>2. b \in FillerAccounts
    BY <1>8 DEF WithdrawEth
  <2> QED
    BY <1>8, <2>1, <2>2 DEF WithdrawEth, Pays
<1> QED
  BY <1>2, <1>3, <1>4, <1>5, <1>6, <1>7, <1>8 DEF OwnerCalls

\* The other steps that leave control where it is.
LEMMA QuietStep ==
    ASSUME FillerTyped, Fund \/ \E r \in Reactors : ReactorCallback(r) \/ Pull(r)
    PROVE  \E f : Stays(f)
<1> USE FillerAssumption DEF FillerTyped
<1>1. ASSUME UNCHANGED frames, NEW f \in Contract, filler' = f, f.locked = filler.locked
      PROVE  Stays(f)
  BY <1>1 DEF Stays
<1>2. CASE filler.tokens < MaxFunds /\ filler' = [filler EXCEPT !.tokens = @ + 1] /\ UNCHANGED frames
  <2> DEFINE f == [filler EXCEPT !.tokens = @ + 1]
  <2>1. f \in Contract /\ f.locked = filler.locked
    <3>1. filler.tokens + 1 \in Nat
      BY Funds
    <3> QED
      BY <3>1, Funds
  <2> QED
    BY <1>1, <1>2, <2>1
<1>3. CASE filler.ether < MaxFunds /\ filler' = [filler EXCEPT !.ether = @ + 1] /\ UNCHANGED frames
  <2> DEFINE f == [filler EXCEPT !.ether = @ + 1]
  <2>1. f \in Contract /\ f.locked = filler.locked
    <3>1. filler.ether + 1 \in Nat
      BY Funds
    <3> QED
      BY <3>1, Funds
  <2> QED
    BY <1>1, <1>3, <2>1
<1>4. ASSUME NEW r \in Reactors, ReactorCallback(r) PROVE Stays(filler)
  <2>1. /\ Len(frames) \in 1 .. Len(frames) /\ filler' = filler
        /\ frames' = [frames EXCEPT ![Len(frames)].answered = TRUE]
    BY <1>4 DEF ReactorCallback
  <2> DEFINE k == Len(frames)
             e == [frames[k] EXCEPT !.answered = TRUE]
  <2>2. /\ k \in 1 .. Len(frames) /\ frames[k] \in Frame
        /\ frames' = [frames EXCEPT ![k] = e]
    BY <2>1
  <2>3. e \in Frame /\ e.call = frames[k].call /\ e.before = frames[k].before
    BY <2>2 DEF Frame
  <2> HIDE DEF e, k
  <2>4. /\ frames' \in Seq(Frame) /\ Len(frames') = Len(frames)
        /\ \A i \in 1 .. Len(frames) : frames'[i] = IF i = k THEN e ELSE frames[i]
    BY <2>2, <2>3, ExceptSeq
  <2> QED
    BY <2>1, <2>3, <2>4 DEF Stays
<1>5. ASSUME NEW r \in Reactors, Pull(r) PROVE \E f : Stays(f)
  <2> DEFINE m == filler.tokens - 1
             n == filler.allowance[r] - 1
             g == [filler EXCEPT !.tokens = m]
             f == [g EXCEPT !.allowance[r] = n]
  <2>1. m \in Nat /\ n \in Nat
    <3>1. filler.tokens \in Nat /\ filler.allowance[r] \in Nat
      BY Funds
    <3>2. filler.tokens > 0 /\ filler.allowance[r] > 0
      BY <1>5 DEF Pull
    <3> QED
      BY <3>1, <3>2
  <2>2. filler' = f /\ UNCHANGED frames
    BY <1>5 DEF Pull, Contract
  <2> HIDE DEF m, n
  <2>3. g \in Contract /\ g.locked = filler.locked
    BY <2>1, Funds
  <2> HIDE DEF g
  <2>4. g.allowance \in [Reactors -> Nat]
    BY <2>3 DEF Contract
  <2> DEFINE b == [g.allowance EXCEPT ![r] = n]
  <2>5. b \in [Reactors -> Nat]
    BY <2>1, <2>4
  <2>6. f = [g EXCEPT !.allowance = b]
    BY <2>3 DEF Contract
  <2> HIDE DEF b
  <2>7. [g EXCEPT !.allowance = b] \in Contract /\ [g EXCEPT !.allowance = b].locked = g.locked
    BY <2>3, <2>5 DEF Contract
  <2> QED
    BY <1>1, <2>2, <2>3, <2>6, <2>7
<1> QED
  BY <1>2, <1>3, <1>4, <1>5 DEF Fund

\* A call that stays in the contract keeps lock and types.
LEMMA StaysKeeps ==
    ASSUME FillerTyped, LockInv, NEW f, Stays(f)
    PROVE  filler' \in Contract /\ frames' \in Seq(Frame) /\ LockInv'
<1>1. filler' \in Contract /\ frames' \in Seq(Frame) /\ filler'.locked = filler.locked
  BY DEF Stays
<1>2. Len(frames') = Len(frames) /\ Len(frames) \in Nat
  BY DEF Stays, FillerTyped
<1>3. \A i \in 1 .. Len(frames) : Opens(i)' = Opens(i) /\ frames'[i].before = frames[i].before
  BY DEF Stays, Opens
<1>4. LockInv'
  BY <1>1, <1>2, <1>3 DEF LockInv
<1> QED
  BY <1>1, <1>4

\* A call is pushed: when it opens a fill none was open.
LEMMA PushKeeps ==
    ASSUME FillerTyped, LockInv,
           NEW call \in {"ether", "fill", "callback", "batch"}, NEW callee \in FillerAccounts,
           Push(call, callee), filler' \in Contract,
           IF call = "ether" THEN filler'.locked = filler.locked
                             ELSE ~filler.locked /\ filler'.locked = TRUE
    PROVE  frames' \in Seq(Frame) /\ LockInv'
<1> PICK n \in Nat : n = Len(frames)
  BY DEF FillerTyped
<1> DEFINE e == [call |-> call, callee |-> callee, answered |-> FALSE, before |-> filler]
<1>1. e \in Frame /\ n \in Nat /\ frames' = Append(frames, e)
  BY DEF Push, Frame, FillerTyped
<1>2. e.call = call /\ e.before = filler
  OBVIOUS
<1> HIDE DEF e
<1>3. /\ frames' \in Seq(Frame) /\ Len(frames') = n + 1
      /\ frames'[n + 1] = e /\ \A i \in 1 .. n : frames'[i] = frames[i]
  BY <1>1 DEF FillerTyped
<1>4. \A i \in 1 .. n : Opens(i)' = Opens(i) /\ frames'[i].before = frames[i].before
  BY <1>3 DEF Opens
<1>5. (Opens(n + 1)' <=> call # "ether") /\ frames'[n + 1].before = filler
  BY <1>2, <1>3 DEF Opens
<1>6. /\ filler.locked <=> \E i \in 1 .. n : Opens(i)
      /\ \A i, j \in 1 .. n : Opens(i) /\ Opens(j) => i = j
      /\ \A i \in 1 .. n : frames[i].before.locked <=> \E j \in 1 .. (i - 1) : Opens(j)
  BY DEF LockInv
<1>7. \A i \in 1 .. Len(frames') : i \in 1 .. n \/ i = n + 1
  BY <1>1, <1>3
<1>8. \A i \in 1 .. n : i \in 1 .. Len(frames') /\ n + 1 \in 1 .. Len(frames')
  BY <1>1, <1>3
<1>9. filler'.locked <=> \E i \in 1 .. Len(frames') : Opens(i)'
  <2>1. CASE call = "ether"
    BY <1>4, <1>5, <1>6, <1>7, <1>8, <2>1
  <2>2. CASE call # "ether"
    <3>1. n + 1 \in 1 .. Len(frames')
      BY <1>1, <1>3
    <3> QED
      BY <1>5, <2>2, <3>1
  <2> QED
    BY <2>1, <2>2
<1>10. \A i, j \in 1 .. Len(frames') : Opens(i)' /\ Opens(j)' => i = j
  <2>1. CASE call = "ether"
    BY <1>4, <1>5, <1>6, <1>7, <2>1
  <2>2. CASE call # "ether"
    BY <1>4, <1>5, <1>6, <1>7, <2>2
  <2> QED
    BY <2>1, <2>2
<1>11. ASSUME NEW i \in 1 .. Len(frames')
       PROVE  frames'[i].before.locked <=> \E j \in 1 .. (i - 1) : Opens(j)'
  <2>1. CASE i \in 1 .. n
    <3>1. \A j \in 1 .. (i - 1) : j \in 1 .. n
      BY <1>1, <2>1
    <3> QED
      BY <1>4, <1>6, <2>1, <3>1
  <2>2. CASE i = n + 1
    <3>1. (n + 1) - 1 = n
      BY <1>1
    <3> QED
      BY <1>4, <1>5, <1>6, <2>2, <3>1
  <2> QED
    BY <1>7, <2>1, <2>2
<1> QED
  BY <1>3, <1>9, <1>10, <1>11 DEF LockInv

\* The innermost call ends: it puts the lock back as it was below it.
LEMMA PopKeeps ==
    ASSUME FillerTyped, LockInv, Pop, filler' \in Contract,
           filler'.locked = Top.before.locked
    PROVE  frames' \in Seq(Frame) /\ LockInv'
<1> DEFINE n == Len(frames)
<1>1. n \in Nat /\ n >= 1 /\ frames # << >> /\ frames' = SubSeq(frames, 1, n - 1)
  BY DEF Pop, FillerTyped
<1>2. /\ frames' \in Seq(Frame) /\ Len(frames') = n - 1
      /\ \A i \in 1 .. (n - 1) : frames'[i] = frames[i]
  <2>1. /\ 1 \in Int /\ n - 1 \in Int /\ \A i \in 1 .. (n - 1) : frames[i] \in Frame
        /\ n - 1 >= 0 /\ (n - 1) - 1 + 1 = n - 1
        /\ \A i \in 1 .. (n - 1) : 1 + i - 1 = i
    BY <1>1 DEF FillerTyped
  <2> HIDE DEF n
  <2>2. /\ SubSeq(frames, 1, n - 1) \in Seq(Frame)
        /\ Len(SubSeq(frames, 1, n - 1)) = IF 1 <= n - 1 THEN (n - 1) - 1 + 1 ELSE 0
        /\ \A i \in 1 .. (n - 1) - 1 + 1 : SubSeq(frames, 1, n - 1)[i] = frames[1 + i - 1]
    BY <2>1, SubSeqProperties
  <2> QED
    BY <1>1, <2>1, <2>2
<1>3. Top.before.locked <=> \E j \in 1 .. (n - 1) : Opens(j)
  BY <1>1 DEF LockInv, Top
<1>4. \A i \in 1 .. (n - 1) :
        /\ i \in 1 .. n /\ Opens(i)' = Opens(i) /\ frames'[i].before = frames[i].before
        /\ \A j \in 1 .. (i - 1) : j \in 1 .. (n - 1)
  BY <1>1, <1>2 DEF Opens
<1> HIDE DEF n
<1>5. /\ \A i, j \in 1 .. n : Opens(i) /\ Opens(j) => i = j
      /\ \A i \in 1 .. n : frames[i].before.locked <=> \E j \in 1 .. (i - 1) : Opens(j)
  BY DEF LockInv, n
<1>6. filler'.locked <=> \E i \in 1 .. (n - 1) : Opens(i)'
  BY <1>3, <1>4
<1>7. \A i, j \in 1 .. (n - 1) : Opens(i)' /\ Opens(j)' => i = j
  BY <1>4, <1>5
<1>8. \A i \in 1 .. (n - 1) : frames'[i].before.locked <=> \E j \in 1 .. (i - 1) : Opens(j)'
  BY <1>4, <1>5
<1> QED
  BY <1>2, <1>6, <1>7, <1>8 DEF LockInv

-----------------------------------------------------------------------------
(* All steps                                                               *)

FillerInv == FillerTyped /\ LockInv

\* A call that enters the contract keeps lock and types.
LEMMA EnterKeeps ==
    ASSUME FillerInv, NEW a \in FillerAccounts, FillerCalls(a)
    PROVE  filler' \in Contract /\ frames' \in Seq(Frame) /\ LockInv'
<1> USE FillerAssumption DEF FillerInv
<1>1. PICK r \in Reactors, call \in {"fill", "callback", "batch"} : Enter(a, r, call)
  BY DEF FillerCalls, Fill, FillWithCallback, FillBatch
<1>2. ~filler.locked /\ filler' = [filler EXCEPT !.locked = TRUE] /\ Push(call, r)
  BY <1>1 DEF Enter
<1>3. filler' \in Contract /\ filler'.locked = TRUE
  BY <1>2 DEF FillerTyped, Contract
<1>4. r \in FillerAccounts /\ call # "ether" /\ call \in {"ether", "fill", "callback", "batch"}
  BY <1>1
<1> QED
  BY <1>2, <1>3, <1>4, PushKeeps

\* A return or a revert keeps lock and types.
LEMMA ReturnKeeps ==
    ASSUME FillerInv, EthWithdrawn \/ FillExecuted \/ Reverts
    PROVE  filler' \in Contract /\ frames' \in Seq(Frame) /\ LockInv'
<1> USE DEF FillerInv
<1> DEFINE n == Len(frames)
<1>1. Pop /\ n \in Nat /\ n >= 1 /\ n \in 1 .. n /\ Top = frames[n] /\ Top \in Frame
  BY DEF EthWithdrawn, FillExecuted, Reverts, Pop, Top, FillerTyped
<1>2. Top.before \in Contract
  BY <1>1 DEF Frame
<1>3. /\ Top.before.locked <=> \E j \in 1 .. (n - 1) : Opens(j)
      /\ filler.locked <=> \E j \in 1 .. n : Opens(j)
      /\ \A i, j \in 1 .. n : Opens(i) /\ Opens(j) => i = j
      /\ Opens(n) <=> Top.call # "ether"
  BY <1>1 DEF LockInv, Opens
<1>4. \A j \in 1 .. n : j \in 1 .. (n - 1) \/ j = n
  BY <1>1
<1>5. \A j \in 1 .. (n - 1) : j \in 1 .. n /\ j # n
  BY <1>1
<1> HIDE DEF n
<1>6. filler.locked \in BOOLEAN /\ Top.before.locked \in BOOLEAN
  BY <1>2 DEF FillerTyped, Contract
<1>7. CASE EthWithdrawn
  <2>1. Top.before.locked = filler.locked
    BY <1>3, <1>4, <1>5, <1>6, <1>7 DEF EthWithdrawn
  <2>2. filler' \in Contract /\ filler'.locked = Top.before.locked
    BY <1>7, <2>1 DEF EthWithdrawn, FillerTyped
  <2> QED
    BY <1>1, <2>2, PopKeeps
<1>8. CASE FillExecuted
  <2>1. Top.before.locked = FALSE
    BY <1>1, <1>3, <1>5, <1>6, <1>8 DEF FillExecuted
  <2>2. filler' \in Contract /\ filler'.locked = FALSE
    BY <1>8 DEF FillExecuted, FillerTyped, Contract
  <2> QED
    BY <1>1, <2>1, <2>2, PopKeeps
<1>9. CASE Reverts
  <2>1. filler' \in Contract /\ filler'.locked = Top.before.locked
    BY <1>2, <1>9 DEF Reverts
  <2> QED
    BY <1>1, <2>1, PopKeeps
<1> QED
  BY <1>7, <1>8, <1>9

\* A payment keeps lock and types.
LEMMA PaysKeeps ==
    ASSUME FillerInv, NEW f, NEW to, Pays(f, to)
    PROVE  filler' \in Contract /\ frames' \in Seq(Frame) /\ LockInv'
BY PushKeeps DEF FillerInv, Pays

\* Every step keeps the invariant of the lock.
LEMMA FillerStep == ASSUME FillerInv, [FillerNext]_fillerVars PROVE FillerInv'
<1> USE FillerAssumption
<1>1. made' \in Nat
  BY DEF FillerNext, fillerVars, FillerInv, FillerTyped
<1>2. ASSUME \E f : Stays(f) PROVE filler' \in Contract /\ frames' \in Seq(Frame) /\ LockInv'
  BY <1>2, StaysKeeps DEF FillerInv
<1>3. ASSUME NEW a \in FillerAccounts, OwnerCalls(a)
      PROVE  filler' \in Contract /\ frames' \in Seq(Frame) /\ LockInv'
  BY <1>2, <1>3, OwnerStep, PaysKeeps DEF FillerInv
<1>4. ASSUME Fund \/ \E r \in Reactors : ReactorCallback(r) \/ Pull(r)
      PROVE  filler' \in Contract /\ frames' \in Seq(Frame) /\ LockInv'
  BY <1>2, <1>4, QuietStep DEF FillerInv
<1>5. ASSUME UNCHANGED fillerVars
      PROVE  filler' \in Contract /\ frames' \in Seq(Frame) /\ LockInv'
  BY <1>5 DEF fillerVars, FillerInv, FillerTyped, LockInv, Opens
<1> QED
  BY <1>1, <1>3, <1>4, <1>5, EnterKeeps, ReturnKeeps DEF FillerNext, FillerInv, FillerTyped

\* A new contract is not locked.
LEMMA FillerStart == FillerInit => FillerInv
<1> SUFFICES ASSUME FillerInit PROVE FillerInv
  OBVIOUS
<1> USE FillerAssumption
<1>1. PICK o \in FillerAccounts \ Reactors :
        filler = [owner |-> o, whitelistedReactors |-> {}, authorizedFillers |-> {o},
                  locked |-> FALSE, tokens |-> 0, ether |-> 0,
                  allowance |-> [r \in Reactors |-> 0]]
  BY DEF FillerInit
<1>2. filler \in Contract /\ filler.locked = FALSE
  BY <1>1 DEF Contract
<1>3. frames \in Seq(Frame) /\ Len(frames) = 0 /\ made \in Nat
  BY DEF FillerInit
<1>4. LockInv
  BY <1>2, <1>3 DEF LockInv
<1> QED
  BY <1>2, <1>3, <1>4 DEF FillerInv, FillerTyped

\* At most one fill is open, and the lock is closed exactly then, however deep
\* calls of the owner, the fillers and what they run are nested and whichever of
\* them revert (PhantomFiller.sol:157-217).
THEOREM NoNestedFill == FillerSpec => []FillsDoNotNest
<1>1. ASSUME FillerInv PROVE FillsDoNotNest
  <2> DEFINE Open == {i \in DOMAIN frames : frames[i].call # "ether"}
  <2>1. /\ Open = {i \in 1 .. Len(frames) : Opens(i)}
        /\ filler.locked \in BOOLEAN
    BY <1>1 DEF FillerInv, FillerTyped, Contract, Opens
  <2>2. CASE filler.locked
    <3>1. PICK i \in 1 .. Len(frames) : Opens(i)
      BY <1>1, <2>2 DEF FillerInv, LockInv
    <3>2. Open = {i}
      BY <1>1, <2>1, <3>1 DEF FillerInv, LockInv
    <3> QED
      BY <2>2, <3>2, FS_Singleton DEF FillsDoNotNest
  <2>3. CASE ~filler.locked
    <3>1. Open = {}
      BY <1>1, <2>1, <2>3 DEF FillerInv, LockInv
    <3> QED
      BY <2>3, <3>1, FS_EmptySet DEF FillsDoNotNest
  <2> QED
    BY <2>2, <2>3
<1>2. FillerInv /\ [FillerNext]_fillerVars => FillerInv'
  BY FillerStep
<1> QED
  BY <1>1, <1>2, FillerStart, PTL DEF FillerSpec
=============================================================================
