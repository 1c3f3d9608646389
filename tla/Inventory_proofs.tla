--------------------------- MODULE Inventory_proofs ---------------------------
(***************************************************************************)
(* Theorems about RiskManager, PnlTracker and BalanceTracker, for any number*)
(* of tasks, fills and keys and any limits.                                *)
(***************************************************************************)
EXTENDS RiskManager, PnlTracker, BalanceTracker, FiniteSums, FiniteSetTheorems,
        TLAPS

-----------------------------------------------------------------------------
(* RiskManager: the pending count and the three limits                     *)

\* A counter has at least one value.
LEMMA WidthPositive == U32 \in Nat /\ U32 > 0
BY RiskAssumption, FS_CardinalityType

\* Every variable of RiskManager has its type; the pending count keeps within its
\* width (risk.rs:77-88).
THEOREM RiskTyped == Spec => []TypeOK
<1> USE RiskAssumption
<1>1. Init => TypeOK
  BY WidthPositive DEF Init, TypeOK, Tasks
<1>2. TypeOK /\ [Next]_vars => TypeOK'
  <2> SUFFICES ASSUME TypeOK, [Next]_vars PROVE TypeOK'
    OBVIOUS
  <2>1. ASSUME NEW n \in Int PROVE n % U32 \in 0 .. (U32 - 1)
    BY WidthPositive
  <2>2. ASSUME NEW s \in Submitters, NEW v \in Values, Propose(s, v) PROVE TypeOK'
    BY <2>2 DEF Propose, Goto, Fits, TypeOK, Tasks
  <2>3. ASSUME NEW s \in Submitters, LoadLoss(s) PROVE TypeOK'
    BY <2>3 DEF LoadLoss, DailyLoss, Goto, TypeOK, Tasks
  <2>4. ASSUME NEW s \in Submitters, LoadPending(s) PROVE TypeOK'
    BY <2>4 DEF LoadPending, locals, Goto, TypeOK, Tasks
  <2>5. ASSUME NEW s \in Submitters, NEW f \in FillIds, RecordFillStart(s, f) PROVE TypeOK'
    <3>1. pending' \in 0 .. (U32 - 1)
      BY <2>1, <2>5 DEF RecordFillStart, TypeOK
    <3> QED
      BY <2>5, <3>1 DEF RecordFillStart, locals, Goto, TypeOK, Tasks
  <2>6. ASSUME NEW c \in Completers, NEW f \in FillIds, NEW p \in (-MaxLoss) .. MaxLoss,
               FreeSlot(c, f, p)
        PROVE  TypeOK'
    <3>1. pending' \in 0 .. (U32 - 1)
      BY <2>1, <2>6 DEF FreeSlot, TypeOK
    <3>2. inFlight[f] \in Nat
      BY <2>6 DEF FreeSlot, TypeOK
    <3>3. position' \in Nat
      BY <2>6, <3>2 DEF FreeSlot, TypeOK
    <3> QED
      BY <2>6, <3>1, <3>3 DEF FreeSlot, locals, Goto, TypeOK, Tasks
  <2>7. ASSUME NEW c \in Completers, BookResult(c) PROVE TypeOK'
    BY <2>7 DEF BookResult, locals, Goto, TypeOK, Tasks
  <2>8. CASE ResetDaily
    BY <2>8 DEF ResetDaily, locals, TypeOK
  <2>9. CASE Rebalance
    BY <2>9 DEF Rebalance, locals, TypeOK
  <2>10. CASE UNCHANGED vars
    BY <2>10 DEF vars, TypeOK
  <2> QED
    BY <2>2, <2>3, <2>4, <2>5, <2>6, <2>7, <2>8, <2>9, <2>10 DEF Next, Submit, Complete
<1> QED
  BY <1>1, <1>2, PTL DEF Spec

-----------------------------------------------------------------------------
(* The pending count                                                       *)

\* The fills in flight are fewer than the width of the counter.
LEMMA FlyingFinite == IsFiniteSet(Flying) /\ Cardinality(Flying) \in 0 .. (U32 - 1)
<1>1. Flying \in SUBSET FillIds
  BY DEF Flying
<1>2. /\ IsFiniteSet(Flying) /\ Cardinality(Flying) <= Cardinality(FillIds)
      /\ Cardinality(FillIds) \in Nat /\ Cardinality(Flying) \in Nat
  BY <1>1, RiskAssumption, FS_Subset, FS_CardinalityType
<1> QED
  BY <1>2, RiskAssumption

\* The count never reaches its width, so it does not wrap.
LEMMA StartCounts ==
    ASSUME TypeOK, PendingExact, NEW s \in Submitters, NEW f \in FillIds, RecordFillStart(s, f)
    PROVE  PendingExact' /\ pending' = pending + 1
<1> USE RiskAssumption
<1>1. Flying' = Flying \union {f} /\ f \notin Flying
  BY DEF RecordFillStart, Flying, TypeOK
<1>2. Cardinality(Flying') = Cardinality(Flying) + 1
  BY <1>1, FlyingFinite, FS_AddElement
<1>3. Flying' \in SUBSET FillIds
  BY DEF Flying
<1>4. Cardinality(Flying') <= Cardinality(FillIds) /\ Cardinality(FillIds) \in Nat
  BY <1>3, FS_Subset, FS_CardinalityType
<1>5. pending + 1 < U32
  BY <1>2, <1>4, FlyingFinite DEF PendingExact
<1>6. (pending + 1) % U32 = pending + 1
  BY <1>5 DEF TypeOK
<1> QED
  BY <1>2, <1>6 DEF RecordFillStart, PendingExact

\* A fill that ends was counted, so the count does not drop below zero.
LEMMA EndCounts ==
    ASSUME TypeOK, PendingExact, NEW c \in Completers, NEW f \in FillIds, NEW p \in Int,
           FreeSlot(c, f, p)
    PROVE  PendingExact' /\ pending' = pending - 1 /\ pending > 0
<1> USE RiskAssumption
<1>1. Flying' = Flying \ {f} /\ f \in Flying
  BY DEF FreeSlot, Flying, TypeOK
<1>2. Cardinality(Flying') = Cardinality(Flying) - 1 /\ Cardinality(Flying) # 0
  BY <1>1, FlyingFinite, FS_RemoveElement, FS_EmptySet
<1>3. pending > 0
  BY <1>2, FlyingFinite DEF PendingExact
<1>4. (pending - 1) % U32 = pending - 1
  BY <1>3 DEF TypeOK
<1> QED
  BY <1>2, <1>3, <1>4 DEF FreeSlot, PendingExact

\* The other steps leave count and fills alone.
LEMMA OthersKeepCount ==
    ASSUME \/ \E s \in Submitters : (\E v \in Values : Propose(s, v)) \/ LoadLoss(s) \/ LoadPending(s)
           \/ \E c \in Completers : BookResult(c)
           \/ ResetDaily \/ Rebalance \/ UNCHANGED vars
    PROVE  pending' = pending /\ inFlight' = inFlight
BY DEF Propose, LoadLoss, LoadPending, BookResult, ResetDaily, Rebalance, vars

\* Every step keeps the pending count exact.
LEMMA CountStep == ASSUME TypeOK, PendingExact, [Next]_vars PROVE PendingExact'
<1>1. ASSUME pending' = pending, inFlight' = inFlight PROVE PendingExact'
  BY <1>1 DEF PendingExact, Flying
<1> QED
  BY <1>1, StartCounts, EndCounts, OthersKeepCount DEF Next, Submit, Complete

\* However starts, ends and daily resets interleave the pending count is the
\* number of fills in flight, and never wraps (risk.rs:215-226, 261-265).
THEOREM PendingIsExact == Spec => []PendingExact
<1>1. Init => PendingExact
  <2> SUFFICES ASSUME Init PROVE PendingExact
    OBVIOUS
  <2>1. Flying = {}
    BY DEF Init, Flying
  <2> QED
    BY <2>1, FS_EmptySet DEF Init, PendingExact
<1>2. TypeOK /\ PendingExact /\ [Next]_vars => PendingExact'
  BY CountStep
<1> QED
  BY <1>1, <1>2, RiskTyped, PTL DEF Spec

-----------------------------------------------------------------------------
(* How far the limits are passed                                           *)

Passed  == {s \in Submitters : pc[s] = "passed"}
Unaware == {s \in Submitters : pc[s] = "passed" \/ (pc[s] = "pending" /\ ~lossSeen[s])}
Checked == {s \in Submitters : pc[s] # "idle" /\ fits[s]}
Booking == {c \in Completers : pc[c] = "ended"}

\* What is in flight or on its way there was admitted, and small enough.
Small ==
    /\ \A s \in Submitters :
         /\ pc[s] # "ended"
         /\ pc[s] = "passed" => fits[s]
         /\ pc[s] # "idle" /\ fits[s] => value[s] <= MaxSingle
    /\ \A f \in FillIds : inFlight[f] # None => inFlight[f] <= MaxSingle

\* The fills that count together with those that may still be started.
Room == MaxPending + Cardinality(Submitters) - 1

\* Each limit, with all that may still be added to what it limits.
Slots == pending + Cardinality(Passed) <= Room

Losses ==
    daily + MaxLoss * (pending + Cardinality(Unaware) + Cardinality(Booking))
        <= LossLimit + MaxLoss * (Room + Cardinality(Submitters) + Cardinality(Completers))

Holdings ==
    position + MaxSingle * (pending + Cardinality(Checked))
        <= MaxPosition + MaxSingle * (Room + Cardinality(Submitters))

IInv == Small /\ Slots /\ Losses /\ Holdings

\* Multiplication by a natural number keeps the order.
LEMMA Times == ASSUME NEW m \in Nat, NEW a \in Int, NEW b \in Int, a <= b PROVE m * a <= m * b
OBVIOUS

\* Multiplication by a successor.
LEMMA TimesNext == ASSUME NEW m \in Nat, NEW a \in Int PROVE m * (a + 1) = m * a + m
OBVIOUS

\* A bound passes from one submitter to the next.
LEMMA SubmitterMoves ==
    ASSUME NEW d \in Int, NEW e \in Int, NEW m \in Int, NEW l \in Int, NEW b \in Int,
           e <= d + l, d + (m + l) <= b
    PROVE  e + m <= b
OBVIOUS

\* The sets of tasks are finite.
LEMMA Sizes ==
    /\ Cardinality(Submitters) \in Nat \ {0} /\ Cardinality(Completers) \in Nat
    /\ Room \in Nat
    /\ \A S \in SUBSET Submitters :
         IsFiniteSet(S) /\ Cardinality(S) \in Nat /\ Cardinality(S) <= Cardinality(Submitters)
    /\ \A S \in SUBSET Completers :
         IsFiniteSet(S) /\ Cardinality(S) \in Nat /\ Cardinality(S) <= Cardinality(Completers)
<1> USE RiskAssumption
<1>1. Cardinality(Submitters) \in Nat \ {0} /\ Cardinality(Completers) \in Nat
  BY FS_CardinalityType, FS_EmptySet
<1>2. ASSUME NEW S \in SUBSET Submitters
      PROVE  IsFiniteSet(S) /\ Cardinality(S) \in Nat /\ Cardinality(S) <= Cardinality(Submitters)
  BY FS_Subset, FS_CardinalityType
<1>3. ASSUME NEW S \in SUBSET Completers
      PROVE  IsFiniteSet(S) /\ Cardinality(S) \in Nat /\ Cardinality(S) <= Cardinality(Completers)
  BY FS_Subset, FS_CardinalityType
<1> QED
  BY <1>1, <1>2, <1>3 DEF Room

\* The sets of tasks on their way are sets of tasks.
LEMMA Subsets ==
    /\ Passed \in SUBSET Submitters /\ Unaware \in SUBSET Submitters
    /\ Checked \in SUBSET Submitters /\ Booking \in SUBSET Completers
    /\ Passed' \in SUBSET Submitters /\ Unaware' \in SUBSET Submitters
    /\ Checked' \in SUBSET Submitters /\ Booking' \in SUBSET Completers
BY DEF Passed, Unaware, Checked, Booking

\* One submitter joins or leaves a set of submitters.
LEMMA Joins ==
    ASSUME NEW S \in SUBSET Submitters, NEW s \in S
    PROVE  Cardinality(S \ {s}) = Cardinality(S) - 1
BY Sizes, FS_RemoveElement

\* The bounds of the two sums where a check has just seen its limit kept.
LEMMA Fresh ==
    ASSUME TypeOK, Slots
    PROVE  /\ MaxLoss * (pending + Cardinality(Unaware') + Cardinality(Booking'))
                <= MaxLoss * (Room + Cardinality(Submitters) + Cardinality(Completers))
           /\ MaxSingle * (pending + Cardinality(Checked')) <= MaxSingle * (Room + Cardinality(Submitters))
<1> USE RiskAssumption
<1>1. pending \in Nat /\ pending <= Room
  BY Sizes, Subsets, WidthPositive DEF TypeOK, Slots
<1>2. /\ Cardinality(Unaware') \in Nat /\ Cardinality(Unaware') <= Cardinality(Submitters)
      /\ Cardinality(Checked') \in Nat /\ Cardinality(Checked') <= Cardinality(Submitters)
      /\ Cardinality(Booking') \in Nat /\ Cardinality(Booking') <= Cardinality(Completers)
      /\ Cardinality(Submitters) \in Nat /\ Cardinality(Completers) \in Nat /\ Room \in Nat
  BY Sizes, Subsets
<1>3. pending + Cardinality(Unaware') + Cardinality(Booking')
        <= Room + Cardinality(Submitters) + Cardinality(Completers)
  BY <1>1, <1>2
<1>4. pending + Cardinality(Checked') <= Room + Cardinality(Submitters)
  BY <1>1, <1>2
<1>5. /\ pending + Cardinality(Unaware') + Cardinality(Booking') \in Int
      /\ Room + Cardinality(Submitters) + Cardinality(Completers) \in Int
      /\ pending + Cardinality(Checked') \in Int
      /\ Room + Cardinality(Submitters) \in Int
  BY <1>1, <1>2
<1> QED
  BY <1>3, <1>4, <1>5, Times

\* A new proposal keeps the limits.
LEMMA ProposeStep ==
    ASSUME TypeOK, IInv, Enabled, NEW s \in Submitters, NEW v \in Values, Propose(s, v)
    PROVE  IInv'
<1> USE RiskAssumption
<1>1. /\ pc[s] = "idle" /\ pc' = [pc EXCEPT ![s] = "loss"]
      /\ value' = [value EXCEPT ![s] = v] /\ fits' = [fits EXCEPT ![s] = Fits(v, position)]
      /\ UNCHANGED <<daily, pending, lossSeen, pnl, position, inFlight>>
  BY DEF Propose, Goto
<1>2. Passed' = Passed /\ Unaware' = Unaware /\ Booking' = Booking
  BY <1>1 DEF TypeOK, Tasks, Passed, Unaware, Booking
<1>3. Small'
  BY <1>1 DEF TypeOK, Tasks, IInv, Small, Fits
<1>4. Slots' /\ Losses'
  BY <1>1, <1>2 DEF IInv, Slots, Losses
<1>5. Holdings'
  <2>1. CASE Fits(v, position)
    <3>1. position <= MaxPosition
      BY <2>1 DEF Fits, TypeOK
    <3> DEFINE x == MaxSingle * (pending + Cardinality(Checked'))
               y == MaxSingle * (Room + Cardinality(Submitters))
    <3>2. x <= y
      BY Fresh DEF IInv
    <3>3. x \in Int /\ y \in Int
      BY Sizes, Subsets, WidthPositive DEF TypeOK
    <3> HIDE DEF x, y
    <3>4. position + x <= MaxPosition + y
      BY <3>1, <3>2, <3>3 DEF TypeOK
    <3> QED
      BY <1>1, <3>4 DEF Holdings, x, y
  <2>2. CASE ~Fits(v, position)
    <3>1. Checked' = Checked
      BY <1>1, <2>2 DEF TypeOK, Tasks, Checked
    <3> QED
      BY <1>1, <3>1 DEF IInv, Holdings
  <2> QED
    BY <2>1, <2>2
<1> QED
  BY <1>3, <1>4, <1>5 DEF IInv

\* Reading the daily loss keeps the limits.
LEMMA LoadLossStep ==
    ASSUME TypeOK, IInv, Enabled, NEW s \in Submitters, LoadLoss(s)
    PROVE  IInv'
<1> USE RiskAssumption
<1>1. /\ pc[s] = "loss" /\ pc' = [pc EXCEPT ![s] = "pending"]
      /\ lossSeen' = [lossSeen EXCEPT ![s] = DailyLoss > LossLimit]
      /\ UNCHANGED <<daily, pending, fits, value, pnl, position, inFlight>>
  BY DEF LoadLoss, Goto
<1>2. Passed' = Passed /\ Checked' = Checked /\ Booking' = Booking
  BY <1>1 DEF TypeOK, Tasks, Passed, Checked, Booking
<1>3. Small'
  BY <1>1 DEF TypeOK, Tasks, IInv, Small
<1>4. Slots' /\ Holdings'
  BY <1>1, <1>2 DEF IInv, Slots, Holdings
<1>5. Losses'
  <2>1. CASE DailyLoss > LossLimit
    <3>1. Unaware' = Unaware
      BY <1>1, <2>1 DEF TypeOK, Tasks, Unaware
    <3> QED
      BY <1>1, <1>2, <3>1 DEF IInv, Losses
  <2>2. CASE ~(DailyLoss > LossLimit)
    <3>1. daily <= LossLimit
      BY <2>2 DEF DailyLoss, TypeOK
    <3> DEFINE x == MaxLoss * (pending + Cardinality(Unaware') + Cardinality(Booking'))
               y == MaxLoss * (Room + Cardinality(Submitters) + Cardinality(Completers))
    <3>2. x <= y
      BY Fresh DEF IInv
    <3>3. x \in Int /\ y \in Int
      BY Sizes, Subsets, WidthPositive DEF TypeOK
    <3> HIDE DEF x, y
    <3>4. daily + x <= LossLimit + y
      BY <3>1, <3>2, <3>3 DEF TypeOK
    <3> QED
      BY <1>1, <3>4 DEF Losses, x, y
  <2> QED
    BY <2>1, <2>2
<1> QED
  BY <1>3, <1>4, <1>5 DEF IInv

\* A step that adds to neither what is limited nor to what may still be added.
LEMMA LossesKept ==
    ASSUME TypeOK, TypeOK', Losses, daily' = daily,
           pending' + Cardinality(Unaware') + Cardinality(Booking')
             <= pending + Cardinality(Unaware) + Cardinality(Booking)
    PROVE  Losses'
<1> USE RiskAssumption
<1> DEFINE a == pending' + Cardinality(Unaware') + Cardinality(Booking')
           b == pending + Cardinality(Unaware) + Cardinality(Booking)
           y == MaxLoss * (Room + Cardinality(Submitters) + Cardinality(Completers))
<1>1. a \in Int /\ b \in Int /\ y \in Int /\ a <= b
  BY Sizes, Subsets, WidthPositive DEF TypeOK
<1>2. daily + MaxLoss * b <= LossLimit + y
  BY DEF Losses
<1> HIDE DEF a, b, y
<1>3. MaxLoss * a <= MaxLoss * b /\ MaxLoss * a \in Int /\ MaxLoss * b \in Int
  BY <1>1, Times
<1>4. daily' + MaxLoss * a <= LossLimit + y
  BY <1>1, <1>2, <1>3 DEF TypeOK
<1> QED
  BY <1>4 DEF Losses, Room, a, y

\* As long as nobody else joins, the position keeps its limit.
LEMMA HoldingsKept ==
    ASSUME TypeOK, TypeOK', Holdings, position' = position,
           pending' + Cardinality(Checked') <= pending + Cardinality(Checked)
    PROVE  Holdings'
<1> USE RiskAssumption
<1> DEFINE a == pending' + Cardinality(Checked')
           b == pending + Cardinality(Checked)
           y == MaxSingle * (Room + Cardinality(Submitters))
<1>1. a \in Int /\ b \in Int /\ y \in Int /\ a <= b
  BY Sizes, Subsets, WidthPositive DEF TypeOK
<1>2. position + MaxSingle * b <= MaxPosition + y
  BY DEF Holdings
<1> HIDE DEF a, b, y
<1>3. MaxSingle * a <= MaxSingle * b /\ MaxSingle * a \in Int /\ MaxSingle * b \in Int
  BY <1>1, Times
<1>4. position' + MaxSingle * a <= MaxPosition + y
  BY <1>1, <1>2, <1>3 DEF TypeOK
<1> QED
  BY <1>4 DEF Holdings, Room, a, y

\* Reading the pending count keeps the limits.
LEMMA LoadPendingStep ==
    ASSUME TypeOK, TypeOK', IInv, Enabled, NEW s \in Submitters, LoadPending(s)
    PROVE  IInv'
<1> USE RiskAssumption
<1>1. /\ pc[s] = "pending" /\ pc' = [pc EXCEPT ![s] = IF Admits(s) THEN "passed" ELSE "idle"]
      /\ UNCHANGED <<daily, pending, locals, pnl, position, inFlight>>
  BY DEF LoadPending, Goto
<1>2. Unaware' \subseteq Unaware /\ Checked' \subseteq Checked /\ Booking' = Booking
  BY <1>1 DEF TypeOK, Tasks, Unaware, Checked, Booking, Admits, locals
<1>3. Small'
  BY <1>1 DEF TypeOK, Tasks, IInv, Small, Admits, locals
<1>4. Slots'
  <2>1. CASE Admits(s)
    <3>1. pending < MaxPending /\ pending' = pending
      BY <1>1, <2>1 DEF Admits
    <3>2. Cardinality(Passed') \in Nat /\ Cardinality(Passed') <= Cardinality(Submitters)
      BY Subsets, Sizes
    <3> QED
      BY <3>1, <3>2, Sizes DEF Slots, Room, TypeOK
  <2>2. CASE ~Admits(s)
    <3>1. Passed' = Passed
      BY <1>1, <2>2 DEF TypeOK, Tasks, Passed
    <3> QED
      BY <1>1, <3>1 DEF IInv, Slots
  <2> QED
    BY <2>1, <2>2
<1>5. Cardinality(Unaware') <= Cardinality(Unaware) /\ Cardinality(Checked') <= Cardinality(Checked)
  BY <1>2, Sizes, Subsets, FS_Subset
<1>6. /\ Cardinality(Unaware) \in Nat /\ Cardinality(Unaware') \in Nat
      /\ Cardinality(Checked) \in Nat /\ Cardinality(Checked') \in Nat
      /\ Cardinality(Booking) \in Nat
  BY Sizes, Subsets
<1>7. /\ pending' + Cardinality(Unaware') + Cardinality(Booking')
           <= pending + Cardinality(Unaware) + Cardinality(Booking)
      /\ pending' + Cardinality(Checked') <= pending + Cardinality(Checked)
  BY <1>1, <1>2, <1>5, <1>6, WidthPositive DEF TypeOK
<1>8. Losses' /\ Holdings'
  BY <1>1, <1>7, LossesKept, HoldingsKept DEF IInv
<1> QED
  BY <1>3, <1>4, <1>8 DEF IInv

\* A fill that starts keeps the limits.
LEMMA StartStep ==
    ASSUME TypeOK, TypeOK', PendingExact, IInv, Enabled,
           NEW s \in Submitters, NEW f \in FillIds, RecordFillStart(s, f)
    PROVE  IInv'
<1> USE RiskAssumption
<1>1. /\ pc[s] = "passed" /\ pc' = [pc EXCEPT ![s] = "idle"]
      /\ inFlight' = [inFlight EXCEPT ![f] = value[s]] /\ pending' = pending + 1
      /\ UNCHANGED <<daily, locals, pnl, position>>
  BY StartCounts DEF RecordFillStart, Goto
<1>2. s \in Passed /\ s \in Unaware /\ s \in Checked
  BY <1>1 DEF IInv, Small, Passed, Unaware, Checked
<1>3. /\ Passed' = Passed \ {s} /\ Unaware' = Unaware \ {s} /\ Checked' = Checked \ {s}
      /\ Booking' = Booking
  BY <1>1 DEF TypeOK, Tasks, Passed, Unaware, Checked, Booking, locals
<1>4. Small'
  BY <1>1 DEF TypeOK, Tasks, IInv, Small, locals
<1>5. /\ Cardinality(Passed') = Cardinality(Passed) - 1
      /\ Cardinality(Unaware') = Cardinality(Unaware) - 1
      /\ Cardinality(Checked') = Cardinality(Checked) - 1
  BY <1>2, <1>3, Joins, Subsets
<1>6. /\ Cardinality(Passed) \in Nat /\ Cardinality(Unaware) \in Nat
      /\ Cardinality(Checked) \in Nat /\ Cardinality(Booking) \in Nat
  BY Sizes, Subsets
<1>7. Slots'
  BY <1>1, <1>5, <1>6 DEF IInv, Slots, Room, TypeOK
<1>8. /\ pending' + Cardinality(Unaware') + Cardinality(Booking')
           <= pending + Cardinality(Unaware) + Cardinality(Booking)
      /\ pending' + Cardinality(Checked') <= pending + Cardinality(Checked)
  BY <1>1, <1>3, <1>5, <1>6, WidthPositive DEF TypeOK
<1>9. Losses' /\ Holdings'
  BY <1>1, <1>8, LossesKept, HoldingsKept DEF IInv
<1> QED
  BY <1>4, <1>7, <1>9 DEF IInv

\* A fill that ends keeps the limits.
LEMMA FreeSlotStep ==
    ASSUME TypeOK, TypeOK', PendingExact, IInv, Enabled,
           NEW c \in Completers, NEW f \in FillIds, NEW p \in Int, FreeSlot(c, f, p)
    PROVE  IInv'
<1> USE RiskAssumption
<1>1. /\ pc[c] = "idle" /\ pc' = [pc EXCEPT ![c] = "ended"]
      /\ inFlight[f] # None /\ inFlight' = [inFlight EXCEPT ![f] = None]
      /\ position' = position + inFlight[f] /\ pending' = pending - 1
      /\ UNCHANGED <<daily, locals>>
  BY EndCounts DEF FreeSlot, Goto
<1>2. inFlight[f] \in Nat /\ inFlight[f] <= MaxSingle
  BY <1>1 DEF TypeOK, IInv, Small
<1>3. /\ Passed' = Passed /\ Unaware' = Unaware /\ Checked' = Checked
      /\ Booking' = Booking \union {c} /\ c \notin Booking
  BY <1>1 DEF TypeOK, Tasks, Passed, Unaware, Checked, Booking, locals
<1>4. Small'
  BY <1>1 DEF TypeOK, Tasks, IInv, Small, locals
<1>5. Cardinality(Booking') = Cardinality(Booking) + 1
  BY <1>3, Sizes, Subsets, FS_AddElement
<1>6. /\ Cardinality(Passed) \in Nat /\ Cardinality(Unaware) \in Nat
      /\ Cardinality(Checked) \in Nat /\ Cardinality(Booking) \in Nat
  BY Sizes, Subsets
<1>7. Slots'
  BY <1>1, <1>3, <1>6, Sizes DEF IInv, Slots, Room, TypeOK
<1>8. pending' + Cardinality(Unaware') + Cardinality(Booking')
        <= pending + Cardinality(Unaware) + Cardinality(Booking)
  BY <1>1, <1>3, <1>5, <1>6, WidthPositive DEF TypeOK
<1>9. Losses'
  BY <1>1, <1>8, LossesKept DEF IInv
<1>10. Holdings'
  <2> DEFINE a == pending' + Cardinality(Checked')
             y == MaxSingle * (Room + Cardinality(Submitters))
  <2>1. a \in Int /\ y \in Int /\ pending + Cardinality(Checked) = a + 1
    BY <1>1, <1>3, <1>6, Sizes, WidthPositive DEF TypeOK
  <2>2. position + MaxSingle * (a + 1) <= MaxPosition + y
    BY <2>1 DEF IInv, Holdings
  <2> HIDE DEF a, y
  <2>3. MaxSingle * (a + 1) = MaxSingle * a + MaxSingle /\ MaxSingle * a \in Int
    BY <2>1, TimesNext
  <2>4. position' + MaxSingle * a <= MaxPosition + y
    BY <1>1, <1>2, <2>1, <2>2, <2>3 DEF TypeOK
  <2> QED
    BY <2>4 DEF Holdings, Room, a, y
<1> QED
  BY <1>4, <1>7, <1>9, <1>10 DEF IInv

\* Booking a result keeps the limits.
LEMMA BookResultStep ==
    ASSUME TypeOK, TypeOK', IInv, Enabled, NEW c \in Completers, BookResult(c)
    PROVE  IInv'
<1> USE RiskAssumption
<1>1. /\ pc[c] = "ended" /\ pc' = [pc EXCEPT ![c] = "idle"]
      /\ daily' = daily - pnl[c]
      /\ UNCHANGED <<pending, locals, position, inFlight>>
  BY DEF BookResult, Goto
<1>2. /\ Passed' = Passed /\ Unaware' = Unaware /\ Checked' = Checked
      /\ Booking' = Booking \ {c} /\ c \in Booking
  BY <1>1 DEF TypeOK, Tasks, Passed, Unaware, Checked, Booking, locals
<1>3. Small'
  BY <1>1 DEF TypeOK, Tasks, IInv, Small, locals
<1>4. Slots' /\ Holdings'
  BY <1>1, <1>2 DEF IInv, Slots, Holdings, Room
<1>5. Cardinality(Booking') = Cardinality(Booking) - 1
  BY <1>2, Sizes, Subsets, FS_RemoveElement
<1>6. Cardinality(Unaware) \in Nat /\ Cardinality(Booking) \in Nat
  BY Sizes, Subsets
<1>7. daily' <= daily + MaxLoss /\ daily \in Int /\ daily' \in Int
  BY <1>1 DEF TypeOK
<1>8. Losses'
  <2> DEFINE a == pending' + Cardinality(Unaware') + Cardinality(Booking')
             y == MaxLoss * (Room + Cardinality(Submitters) + Cardinality(Completers))
  <2>1. /\ a \in Int /\ y \in Int
        /\ pending + Cardinality(Unaware) + Cardinality(Booking) = a + 1
    BY <1>1, <1>2, <1>5, <1>6, Sizes, WidthPositive DEF TypeOK
  <2>2. daily + MaxLoss * (a + 1) <= LossLimit + y
    BY <2>1 DEF IInv, Losses
  <2> HIDE DEF a, y
  <2>3. MaxLoss * (a + 1) = MaxLoss * a + MaxLoss /\ MaxLoss * a \in Int
    BY <2>1, TimesNext
  <2> DEFINE m == MaxLoss * a
  <2>4. m \in Int /\ daily + (m + MaxLoss) <= LossLimit + y
    BY <2>2, <2>3
  <2> HIDE DEF m
  <2>5. daily' + m <= LossLimit + y
    <3>1. LossLimit + y \in Int /\ MaxLoss \in Int
      BY <2>1
    <3> QED
      BY <1>7, <2>4, <3>1, SubmitterMoves
  <2> QED
    BY <2>5 DEF Losses, Room, a, y, m
<1> QED
  BY <1>3, <1>4, <1>8 DEF IInv

\* A new day starts from no loss, a sale from no position.
LEMMA StartOverStep ==
    ASSUME TypeOK, TypeOK', IInv, ResetDaily \/ Rebalance
    PROVE  IInv'
<1> USE RiskAssumption
<1>1. UNCHANGED <<pc, pending, fits, value, lossSeen, inFlight>>
  BY DEF ResetDaily, Rebalance, locals
<1>2. Passed' = Passed /\ Unaware' = Unaware /\ Checked' = Checked /\ Booking' = Booking
  BY <1>1 DEF Passed, Unaware, Checked, Booking
<1>3. Small' /\ Slots'
  BY <1>1, <1>2 DEF IInv, Small, Slots, Room
<1> DEFINE x == MaxLoss * (pending + Cardinality(Unaware') + Cardinality(Booking'))
           y == MaxLoss * (Room + Cardinality(Submitters) + Cardinality(Completers))
           u == MaxSingle * (pending + Cardinality(Checked'))
           w == MaxSingle * (Room + Cardinality(Submitters))
<1>4. x <= y /\ u <= w
  BY Fresh DEF IInv
<1>5. x \in Int /\ y \in Int /\ u \in Int /\ w \in Int
  BY Sizes, Subsets, WidthPositive DEF TypeOK
<1>6. daily + x <= LossLimit + y /\ position + u <= MaxPosition + w
  BY <1>2 DEF IInv, Losses, Holdings
<1> HIDE DEF x, y, u, w
<1>7. daily' + x <= LossLimit + y
  <2>1. daily' = daily \/ daily' = 0
    BY DEF ResetDaily, Rebalance
  <2> QED
    BY <1>4, <1>5, <1>6, <2>1
<1>8. position' + u <= MaxPosition + w
  <2>1. position' = position \/ position' = 0
    BY DEF ResetDaily, Rebalance
  <2> QED
    BY <1>4, <1>5, <1>6, <2>1
<1>9. Losses'
  BY <1>1, <1>7 DEF Losses, Room, x, y
<1>10. Holdings'
  BY <1>1, <1>8 DEF Holdings, Room, u, w
<1> QED
  BY <1>3, <1>9, <1>10 DEF IInv

\* Every step keeps the limits.
LEMMA IInvStep ==
    ASSUME TypeOK, TypeOK', PendingExact, IInv, Enabled, [Next]_vars
    PROVE  IInv'
<1>1. CASE UNCHANGED vars
  BY <1>1 DEF vars, IInv, Small, Slots, Losses, Holdings, Passed, Unaware, Checked, Booking, Room
<1> QED
  BY <1>1, ProposeStep, LoadLossStep, LoadPendingStep, StartStep, FreeSlotStep, BookResultStep,
     StartOverStep DEF Next, Submit, Complete

\* The limits hold at the start.
LEMMA IInvInit == Init => IInv
<1> SUFFICES ASSUME Init PROVE IInv
  OBVIOUS
<1> USE RiskAssumption
<1>1. Passed = {} /\ Unaware = {} /\ Checked = {} /\ Booking = {}
  BY DEF Init, Tasks, Passed, Unaware, Checked, Booking
<1>2. Small
  BY DEF Init, Tasks, Small
<1>3. /\ Cardinality(Passed) = 0 /\ Cardinality(Unaware) = 0
      /\ Cardinality(Checked) = 0 /\ Cardinality(Booking) = 0
  BY <1>1, FS_EmptySet
<1>4. /\ daily = 0 /\ pending = 0 /\ position = 0
  BY DEF Init
<1>5. Room \in Nat /\ Cardinality(Submitters) \in Nat /\ Cardinality(Completers) \in Nat
  BY Sizes
<1>6. Slots
  BY <1>3, <1>4, <1>5 DEF Slots
<1>7. MaxLoss * 0 <= MaxLoss * (Room + Cardinality(Submitters) + Cardinality(Completers))
  BY <1>5, Times
<1>8. MaxSingle * 0 <= MaxSingle * (Room + Cardinality(Submitters))
  BY <1>5, Times
<1>9. Losses
  BY <1>3, <1>4, <1>5, <1>7 DEF Losses
<1>10. Holdings
  BY <1>3, <1>4, <1>5, <1>8 DEF Holdings
<1> QED
  BY <1>2, <1>6, <1>9, <1>10 DEF IInv

\* What may still be added is never negative, so what is limited is bounded.
LEMMA IInvBounds == ASSUME TypeOK, IInv PROVE LimitsOvershot
<1> USE RiskAssumption
<1>1. /\ Cardinality(Passed) \in Nat /\ Cardinality(Unaware) \in Nat
      /\ Cardinality(Checked) \in Nat /\ Cardinality(Booking) \in Nat
      /\ Cardinality(Submitters) \in Nat /\ Cardinality(Completers) \in Nat
      /\ Room \in Nat /\ pending \in Nat
  BY Sizes, Subsets, WidthPositive DEF TypeOK
<1>2. PendingOvershoot
  BY <1>1 DEF IInv, Slots, Room, PendingOvershoot
<1>3. DailyLossBounded
  <2> DEFINE a == pending + Cardinality(Unaware) + Cardinality(Booking)
             b == Room + Cardinality(Submitters) + Cardinality(Completers)
  <2>1. a \in Nat /\ b \in Nat
    BY <1>1
  <2>2. daily + MaxLoss * a <= LossLimit + MaxLoss * b
    BY DEF IInv, Losses
  <2>3. b = MaxPending + 2 * Cardinality(Submitters) - 1 + Cardinality(Completers)
    BY <1>1 DEF Room
  <2> HIDE DEF a, b
  <2>4. MaxLoss * 0 <= MaxLoss * a /\ MaxLoss * a \in Int /\ MaxLoss * b \in Int
    BY <2>1, Times
  <2>5. daily <= LossLimit + MaxLoss * b
    BY <2>2, <2>4 DEF TypeOK
  <2> QED
    BY <2>3, <2>5 DEF DailyLossBounded
<1>4. PositionBounded
  <2> DEFINE a == pending + Cardinality(Checked)
             b == Room + Cardinality(Submitters)
  <2>1. a \in Nat /\ b \in Nat
    BY <1>1
  <2>2. position + MaxSingle * a <= MaxPosition + MaxSingle * b
    BY DEF IInv, Holdings
  <2>3. b = MaxPending + 2 * Cardinality(Submitters) - 1
    BY <1>1 DEF Room
  <2> HIDE DEF a, b
  <2>4. MaxSingle * 0 <= MaxSingle * a /\ MaxSingle * a \in Int /\ MaxSingle * b \in Int
    BY <2>1, Times
  <2>5. position <= MaxPosition + MaxSingle * b
    BY <2>2, <2>4 DEF TypeOK
  <2> QED
    BY <2>3, <2>5 DEF PositionBounded
<1> QED
  BY <1>2, <1>3, <1>4 DEF LimitsOvershot

\* The pending count, the daily loss and the position pass their limits by no
\* more than the fills that were checked before somebody else's fill or result
\* counted (risk.rs:121-211).
THEOREM LimitsHold == Spec => []LimitsOvershot
<1> DEFINE Kept == Enabled => IInv
<1>1. Init => Kept
  BY IInvInit
<1>2. TypeOK /\ TypeOK' /\ PendingExact /\ Kept /\ [Next]_vars => Kept'
  BY IInvStep
<1>3. TypeOK /\ Kept => LimitsOvershot
  BY IInvBounds DEF LimitsOvershot, PendingOvershoot, DailyLossBounded, PositionBounded
<1> QED
  BY <1>1, <1>2, <1>3, RiskTyped, PendingIsExact, PTL DEF Spec

-----------------------------------------------------------------------------
(* PnlTracker: the fills that are kept                                     *)

\* A call that records a fill and has its sequence number, up to its prune.
Listing == {"order", "count", "credit", "day", "spent", "received", "prune"}

\* A call that holds a fill id which is not in the order, or no longer.
Holding == {"sequence", "order", "drop"}

\* The fields of a call, by where it is, when `seqs` sequence numbers and the ids
\* below `ids` have been taken.
CallFits(c, seqs, ids) ==
    /\ "at" \in DOMAIN c
    /\ c.at \in {"idle", "sequence", "late credit", "amend day", "unlink", "drop"} \union Listing
    /\ c.at = "sequence" => DOMAIN c = {"at", "id", "rec"}
    /\ c.at \in Listing => DOMAIN c = {"at", "id", "rec", "seq"} /\ c.seq \in 0 .. seqs - 1
    /\ c.at \in Holding => c.id \in 1 .. ids - 1
    /\ c.at \in {"unlink", "drop"} =>
         /\ c.seq \in Nat /\ c.end \in Int
         /\ c.seq < c.end /\ c.end <= seqs - MaxHistory

\* The maps, the counters and the calls have their types.
PnlTyped ==
    /\ nextSeq \in Nat /\ nextId \in Nat \ {0}
    /\ DOMAIN fills \subseteq 1 .. nextId - 1
    /\ DOMAIN fillOrder \subseteq 0 .. nextSeq - 1
    /\ \A s \in DOMAIN fillOrder : fillOrder[s] \in 1 .. nextId - 1
    /\ call = [t \in PnlTasks |-> call[t]]
    /\ \A t \in PnlTasks : CallFits(call[t], nextSeq, nextId)

\* The call will come to sequence number s with a prune.
WillPrune(c, s) ==
    \/ c.at \in Listing
    \/ c.at = "unlink" /\ c.seq <= s /\ s < c.end
    \/ c.at = "drop" /\ c.seq < s /\ s < c.end

\* A sequence number is with the call that will list it, or listed, or pruned;
\* and of those over the limit that are listed a call under way takes care.
SeqPlaces ==
    /\ \A t, u \in PnlTasks :
         call[t].at = "order" /\ call[u].at = "order" /\ call[t].seq = call[u].seq => t = u
    /\ \A t \in PnlTasks : call[t].at = "order" => call[t].seq \notin DOMAIN fillOrder
    /\ \A s \in 0 .. nextSeq - 1 :
         \/ s \in DOMAIN fillOrder
         \/ s < nextSeq - MaxHistory
         \/ \E t \in PnlTasks : call[t].at = "order" /\ call[t].seq = s
    /\ \A s \in DOMAIN fillOrder :
         s < nextSeq - MaxHistory => \E t \in PnlTasks : WillPrune(call[t], s)

\* A fill is listed once or held by one call.
IdPlaces ==
    /\ \A id \in DOMAIN fills :
         \/ \E s \in DOMAIN fillOrder : fillOrder[s] = id
         \/ \E t \in PnlTasks : call[t].at \in Holding /\ call[t].id = id
    /\ \A s \in DOMAIN fillOrder : fillOrder[s] \in DOMAIN fills
    /\ \A t \in PnlTasks : call[t].at \in {"sequence", "order"} => call[t].id \in DOMAIN fills
    /\ \A r, s \in DOMAIN fillOrder : fillOrder[r] = fillOrder[s] => r = s
    /\ \A t \in PnlTasks, s \in DOMAIN fillOrder :
         call[t].at \in Holding => fillOrder[s] # call[t].id
    /\ \A t, u \in PnlTasks :
         call[t].at \in Holding /\ call[u].at \in Holding /\ call[t].id = call[u].id => t = u

\* What every step of PnlTracker keeps.
PnlInv == PnlTyped /\ SeqPlaces /\ IdPlaces

\* At the start nothing is recorded.
LEMMA PnlInvInit == ASSUME PnlInit PROVE PnlInv
<1>1. Idle.at = "idle" /\ "at" \in DOMAIN Idle
  BY DEF Idle
<1>2. \A t \in PnlTasks : call[t] = Idle
  BY DEF PnlInit
<1>3. DOMAIN fills = {} /\ DOMAIN fillOrder = {} /\ nextSeq = 0 /\ nextId = 1
  BY DEF PnlInit
<1>4. call = [t \in PnlTasks |-> call[t]]
  BY DEF PnlInit
<1> HIDE DEF Idle
<1>5. PnlTyped
  <2>1. CallFits(Idle, nextSeq, nextId)
    BY <1>1 DEF CallFits, Listing, Holding
  <2>2. \A t \in PnlTasks : CallFits(call[t], nextSeq, nextId)
    BY <1>2, <2>1
  <2> QED
    BY <1>3, <1>4, <2>2 DEF PnlTyped
<1>6. SeqPlaces /\ IdPlaces
  BY <1>1, <1>2, <1>3 DEF SeqPlaces, IdPlaces, Holding
<1> QED
  BY <1>5, <1>6 DEF PnlInv

\* A call moves on, holds no fill and leaves both maps as they are.
LEMMA PnlMoves ==
    ASSUME PnlInv, NEW t \in PnlTasks, NEW c, call' = [call EXCEPT ![t] = c], CallFits(c, nextSeq, nextId),
           call[t].at \notin Holding, c.at \notin Holding,
           \A s \in Nat : s < nextSeq - MaxHistory /\ s \in DOMAIN fillOrder
                            /\ WillPrune(call[t], s) => WillPrune(c, s),
           UNCHANGED <<nextSeq, nextId>>,
           DOMAIN fills' = DOMAIN fills, DOMAIN fillOrder' = DOMAIN fillOrder,
           \A s \in DOMAIN fillOrder : fillOrder'[s] = fillOrder[s]
    PROVE  PnlInv'
<1>1. \A u \in PnlTasks : call'[u] = IF u = t THEN c ELSE call[u]
  BY DEF PnlInv, PnlTyped
<1>2. call' = [u \in PnlTasks |-> call'[u]]
  BY DEF PnlInv, PnlTyped
<1>3. \A u \in PnlTasks : CallFits(call'[u], nextSeq, nextId)
  BY <1>1 DEF PnlInv, PnlTyped
<1>5. PnlTyped'
  BY <1>2, <1>3 DEF PnlInv, PnlTyped
<1>6. c.at # "order" /\ call[t].at # "order"
  BY DEF Holding
<1>7. ASSUME NEW s \in DOMAIN fillOrder, s < nextSeq - MaxHistory
      PROVE  \E u \in PnlTasks : WillPrune(call'[u], s)
  <2>1. PICK u \in PnlTasks : WillPrune(call[u], s)
    BY <1>7 DEF PnlInv, SeqPlaces
  <2>2. s \in Nat
    BY DEF PnlInv, PnlTyped
  <2>3. WillPrune(call'[u], s)
    BY <1>1, <1>7, <2>1, <2>2
  <2> QED
    BY <2>3
<1>8. SeqPlaces'
  BY <1>1, <1>6, <1>7 DEF PnlInv, SeqPlaces, WillPrune
<1>9. IdPlaces'
  BY <1>1 DEF PnlInv, IdPlaces, Holding
<1> QED
  BY <1>5, <1>8, <1>9 DEF PnlInv

\* What the task of a step is about to do.
LEMMA PnlOf ==
    ASSUME PnlInv, NEW t \in PnlTasks
    PROVE  /\ CallFits(call[t], nextSeq, nextId) /\ nextSeq \in Nat /\ nextId \in Nat \ {0}
           /\ DOMAIN fills \subseteq 1 .. nextId - 1 /\ DOMAIN fillOrder \subseteq 0 .. nextSeq - 1
BY DEF PnlInv, PnlTyped

\* What CallFits says of a call by where it is.
LEMMA CallSays ==
    ASSUME NEW c, NEW m, NEW n, CallFits(c, m, n)
    PROVE  /\ c.at \in Listing => DOMAIN c = {"at", "id", "rec", "seq"} /\ c.seq \in 0 .. m - 1
           /\ c.at \in Holding => c.id \in 1 .. n - 1
           /\ c.at \in {"unlink", "drop"} =>
                c.seq \in Nat /\ c.end \in Int /\ c.seq < c.end /\ c.end <= m - MaxHistory
BY ZenonT(30) DEF CallFits

\* More numbers taken leave a call as it is.
LEMMA FitsLater ==
    ASSUME PnlAssumption, NEW c, NEW m \in Nat, NEW n \in Nat, CallFits(c, m, n),
           NEW p \in Nat, NEW q \in Nat, m <= p, n <= q
    PROVE  CallFits(c, p, q)
<1>0. MaxHistory \in Nat
  BY DEF PnlAssumption
<1>1. 0 .. m - 1 \subseteq 0 .. p - 1 /\ 1 .. n - 1 \subseteq 1 .. q - 1
  OBVIOUS
<1>2. \A e \in Int : e <= m - MaxHistory => e <= p - MaxHistory
  BY <1>0
<1> QED
  BY <1>1, <1>2, ZenonT(60) DEF CallFits

\* The steps that count and book a fill move its call from label to label.
LEMMA ListingMoves ==
    ASSUME PnlInv, NEW t \in PnlTasks, NEW label, Continue(t, label),
           \/ call[t].at \in Listing \ {"order"} /\ label \in Listing \ {"order"}
           \/ call[t].at = "late credit" /\ label = "amend day",
           UNCHANGED <<history, nextId>>
    PROVE  PnlInv'
<1> DEFINE c == [call[t] EXCEPT !.at = label]
<1>1. CallFits(call[t], nextSeq, nextId)
  BY PnlOf
<1>2. /\ DOMAIN c = DOMAIN call[t] /\ c.at = label
      /\ \A x \in DOMAIN call[t] : x # "at" => c[x] = call[t][x]
  BY <1>1 DEF CallFits
<1>3. call' = [call EXCEPT ![t] = c]
  BY DEF Continue, PnlInv, PnlTyped
<1> HIDE DEF c
<1>4. CallFits(c, nextSeq, nextId)
  BY <1>1, <1>2 DEF CallFits, Listing, Holding
<1>5. \A s \in Nat : WillPrune(call[t], s) => WillPrune(c, s)
  BY <1>2 DEF WillPrune, Listing
<1>6. call[t].at \notin Holding /\ c.at \notin Holding
  BY <1>2 DEF Listing, Holding
<1> QED
  BY <1>3, <1>4, <1>5, <1>6, PnlMoves DEF history

\* Storing a fill keeps the invariant of the history.
LEMMA StoreFillStep ==
    ASSUME PnlAssumption, PnlInv, NEW t \in PnlTasks, NEW r, StoreFill(t, r)
    PROVE  PnlInv'
<1> DEFINE c == [at |-> "sequence", id |-> nextId, rec |-> r]
<1>1. /\ call[t].at = "idle" /\ call' = [call EXCEPT ![t] = c] /\ nextId' = nextId + 1
      /\ fills' = With(fills, nextId, r) /\ UNCHANGED <<fillOrder, nextSeq>>
  BY DEF StoreFill, At
<1>2. DOMAIN c = {"at", "id", "rec"} /\ c.at = "sequence" /\ c.id = nextId
  OBVIOUS
<1> HIDE DEF c
<1>3. DOMAIN fills' = DOMAIN fills \union {nextId}
  BY <1>1 DEF With
<1>4. nextId \in Nat \ {0} /\ nextSeq \in Nat /\ DOMAIN fills \subseteq 1 .. nextId - 1
  BY PnlOf
<1>5. \A u \in PnlTasks : call'[u] = IF u = t THEN c ELSE call[u]
  BY <1>1 DEF PnlInv, PnlTyped
<1>6. \A u \in PnlTasks : CallFits(call'[u], nextSeq', nextId')
  <2>1. CallFits(c, nextSeq', nextId')
    BY <1>1, <1>2, <1>4 DEF CallFits, Listing, Holding
  <2>2. ASSUME NEW u \in PnlTasks PROVE CallFits(call[u], nextSeq', nextId')
    BY <1>1, <1>4, PnlOf, FitsLater
  <2> QED
    BY <1>5, <2>1, <2>2
<1>7. PnlTyped'
  <2>1. DOMAIN fills' \subseteq 1 .. nextId' - 1 /\ nextId' \in Nat \ {0}
    BY <1>1, <1>3, <1>4
  <2>2. /\ DOMAIN fillOrder' \subseteq 0 .. nextSeq' - 1
        /\ \A s \in DOMAIN fillOrder' : fillOrder'[s] \in 1 .. nextId' - 1
    BY <1>1, <1>4 DEF PnlInv, PnlTyped
  <2>3. call' = [u \in PnlTasks |-> call'[u]]
    BY <1>1 DEF PnlInv, PnlTyped
  <2> QED
    BY <1>1, <1>4, <1>6, <2>1, <2>2, <2>3 DEF PnlTyped
<1>8. SeqPlaces'
  BY <1>1, <1>2, <1>5 DEF PnlInv, SeqPlaces, WillPrune, Listing
<1>9. IdPlaces'
  <2>1. \A s \in DOMAIN fillOrder : fillOrder[s] # nextId
    BY <1>4 DEF PnlInv, PnlTyped
  <2>2. \A u \in PnlTasks : call[u].at \in Holding => call[u].id # nextId
    <3> SUFFICES ASSUME NEW u \in PnlTasks, call[u].at \in Holding PROVE call[u].id # nextId
      OBVIOUS
    <3>1. call[u].id \in 1 .. nextId - 1
      BY PnlOf, CallSays
    <3> QED
      BY <1>4, <3>1
  <2>3. c.at \in Holding /\ call[t].at \notin Holding
    BY <1>1, <1>2 DEF Holding
  <2>4. \A id \in DOMAIN fills' :
           \/ \E s \in DOMAIN fillOrder' : fillOrder'[s] = id
           \/ \E u \in PnlTasks : call'[u].at \in Holding /\ call'[u].id = id
    BY <1>1, <1>2, <1>3, <1>5, <2>3 DEF PnlInv, IdPlaces
  <2>5. /\ \A s \in DOMAIN fillOrder' : fillOrder'[s] \in DOMAIN fills'
        /\ \A u \in PnlTasks : call'[u].at \in {"sequence", "order"} => call'[u].id \in DOMAIN fills'
        /\ \A q, s \in DOMAIN fillOrder' : fillOrder'[q] = fillOrder'[s] => q = s
    BY <1>1, <1>2, <1>3, <1>5 DEF PnlInv, IdPlaces
  <2>6. \A u \in PnlTasks, s \in DOMAIN fillOrder' :
           call'[u].at \in Holding => fillOrder'[s] # call'[u].id
    BY <1>1, <1>2, <1>5, <2>1 DEF PnlInv, IdPlaces
  <2>7. \A u, v \in PnlTasks :
           call'[u].at \in Holding /\ call'[v].at \in Holding /\ call'[u].id = call'[v].id => u = v
    BY <1>2, <1>5, <2>2 DEF PnlInv, IdPlaces
  <2> QED
    BY <2>4, <2>5, <2>6, <2>7 DEF IdPlaces
<1> QED
  BY <1>7, <1>8, <1>9 DEF PnlInv

\* Taking a sequence number keeps the invariant of the history.
LEMMA TakeSeqStep ==
    ASSUME PnlAssumption, PnlInv, NEW t \in PnlTasks, TakeSeq(t)
    PROVE  PnlInv'
<1> DEFINE c == [at |-> "order", id |-> call[t].id, rec |-> call[t].rec, seq |-> nextSeq]
<1>1. /\ call[t].at = "sequence" /\ call' = [call EXCEPT ![t] = c] /\ nextSeq' = nextSeq + 1
      /\ UNCHANGED <<fills, fillOrder, nextId>>
  BY DEF TakeSeq, At
<1>2. DOMAIN c = {"at", "id", "rec", "seq"} /\ c.at = "order" /\ c.id = call[t].id /\ c.seq = nextSeq
  OBVIOUS
<1> HIDE DEF c
<1>3. nextSeq \in Nat /\ nextId \in Nat \ {0} /\ DOMAIN fillOrder \subseteq 0 .. nextSeq - 1
  BY PnlOf
<1>4. \A u \in PnlTasks : call'[u] = IF u = t THEN c ELSE call[u]
  BY <1>1 DEF PnlInv, PnlTyped
<1>5. \A u \in PnlTasks : CallFits(call'[u], nextSeq', nextId')
  <2>1. CallFits(c, nextSeq', nextId')
    <3>1. call[t].id \in 1 .. nextId - 1
      BY <1>1, PnlOf, CallSays DEF Holding
    <3>2. c.seq \in 0 .. nextSeq' - 1 /\ c.id \in 1 .. nextId' - 1
      BY <1>1, <1>2, <1>3, <3>1
    <3> QED
      BY <1>2, <3>2 DEF CallFits, Listing, Holding
  <2>2. ASSUME NEW u \in PnlTasks PROVE CallFits(call[u], nextSeq', nextId')
    BY <1>1, <1>3, PnlOf, FitsLater
  <2> QED
    BY <1>4, <2>1, <2>2
<1>6. PnlTyped'
  <2>1. /\ DOMAIN fills' \subseteq 1 .. nextId' - 1 /\ nextId' \in Nat \ {0}
        /\ DOMAIN fillOrder' \subseteq 0 .. nextSeq' - 1 /\ nextSeq' \in Nat
        /\ \A s \in DOMAIN fillOrder' : fillOrder'[s] \in 1 .. nextId' - 1
    BY <1>1, <1>3 DEF PnlInv, PnlTyped
  <2>2. call' = [u \in PnlTasks |-> call'[u]]
    BY <1>1 DEF PnlInv, PnlTyped
  <2> QED
    BY <1>5, <2>1, <2>2 DEF PnlTyped
<1>7. SeqPlaces'
  <2>1. \A u \in PnlTasks : call[u].at = "order" => call[u].seq # nextSeq
    <3> SUFFICES ASSUME NEW u \in PnlTasks, call[u].at = "order" PROVE call[u].seq # nextSeq
      OBVIOUS
    <3>1. call[u].seq \in 0 .. nextSeq - 1
      BY PnlOf, CallSays DEF Listing
    <3> QED
      BY <1>3, <3>1
  <2>2. /\ \A u, v \in PnlTasks :
             call'[u].at = "order" /\ call'[v].at = "order" /\ call'[u].seq = call'[v].seq => u = v
        /\ \A u \in PnlTasks : call'[u].at = "order" => call'[u].seq \notin DOMAIN fillOrder'
    BY <1>1, <1>2, <1>3, <1>4, <2>1 DEF PnlInv, SeqPlaces
  <2>3. ASSUME NEW s \in 0 .. nextSeq' - 1
        PROVE  \/ s \in DOMAIN fillOrder'
               \/ s < nextSeq' - MaxHistory
               \/ \E u \in PnlTasks : call'[u].at = "order" /\ call'[u].seq = s
    <3>1. CASE s = nextSeq
      BY <1>2, <1>4, <3>1
    <3>2. CASE s # nextSeq
      <4>1. s \in 0 .. nextSeq - 1
        BY <1>1, <1>3, <3>2
      <4> QED
        BY <1>1, <1>3, <1>4, <4>1 DEF PnlInv, SeqPlaces, PnlAssumption
    <3> QED BY <3>1, <3>2
  <2>4. \A s : WillPrune(c, s)
    BY <1>2 DEF WillPrune, Listing
  <2> QED
    BY <1>1, <1>4, <2>2, <2>3, <2>4 DEF SeqPlaces, WillPrune
<1>8. IdPlaces'
  BY <1>1, <1>2, <1>4 DEF PnlInv, IdPlaces, Holding
<1> QED
  BY <1>6, <1>7, <1>8 DEF PnlInv

\* Putting a fill into the order keeps the invariant of the history.
LEMMA PutOrderStep ==
    ASSUME PnlAssumption, PnlInv, NEW t \in PnlTasks, PutOrder(t)
    PROVE  PnlInv'
<1> DEFINE c == [call[t] EXCEPT !.at = "count"]
           q == call[t].seq
           id == call[t].id
<1>0. CallFits(call[t], nextSeq, nextId) /\ call[t].at = "order"
  BY PnlOf DEF PutOrder, At
<1>1. /\ q \in 0 .. nextSeq - 1 /\ id \in 1 .. nextId - 1
      /\ DOMAIN call[t] = {"at", "id", "rec", "seq"}
  BY <1>0, CallSays DEF Listing, Holding
<1>2. DOMAIN c = {"at", "id", "rec", "seq"} /\ c.at = "count" /\ c.seq = q
  BY <1>1
<1>3. call' = [call EXCEPT ![t] = c] /\ fillOrder' = With(fillOrder, q, id)
      /\ UNCHANGED <<fills, nextSeq, nextId>>
  BY DEF PutOrder, Continue, PnlInv, PnlTyped
<1>4. q \notin DOMAIN fillOrder /\ id \in DOMAIN fills
  BY <1>0 DEF PnlInv, SeqPlaces, IdPlaces
<1> HIDE DEF c, q, id
<1>5. /\ DOMAIN fillOrder' = DOMAIN fillOrder \union {q}
      /\ fillOrder'[q] = id
      /\ \A s \in DOMAIN fillOrder : fillOrder'[s] = fillOrder[s]
  BY <1>3, <1>4 DEF With
<1>6. \A u \in PnlTasks : call'[u] = IF u = t THEN c ELSE call[u]
  BY <1>3 DEF PnlInv, PnlTyped
<1>7. PnlTyped'
  <2>1. CallFits(c, nextSeq, nextId)
    BY <1>1, <1>2 DEF CallFits, Listing, Holding
  <2>2. \A u \in PnlTasks : CallFits(call'[u], nextSeq', nextId')
    BY <1>3, <1>6, <2>1, PnlOf
  <2>3. call' = [u \in PnlTasks |-> call'[u]]
    BY <1>3 DEF PnlInv, PnlTyped
  <2>4. DOMAIN fillOrder' \subseteq 0 .. nextSeq' - 1
    BY <1>1, <1>3, <1>5 DEF PnlInv, PnlTyped
  <2>5. \A s \in DOMAIN fillOrder' : fillOrder'[s] \in 1 .. nextId' - 1
    BY <1>1, <1>3, <1>5 DEF PnlInv, PnlTyped
  <2> QED
    BY <1>3, <2>2, <2>3, <2>4, <2>5 DEF PnlInv, PnlTyped
<1>8. SeqPlaces'
  <2>1. \A s : WillPrune(c, s)
    BY <1>2 DEF WillPrune, Listing
  <2>2. \A u \in PnlTasks : u # t /\ call[u].at = "order" => call[u].seq # q
    BY <1>0 DEF PnlInv, SeqPlaces, q
  <2>3. c.at # "order"
    BY <1>2
  <2>4. /\ \A u, v \in PnlTasks :
             call'[u].at = "order" /\ call'[v].at = "order" /\ call'[u].seq = call'[v].seq => u = v
        /\ \A u \in PnlTasks : call'[u].at = "order" => call'[u].seq \notin DOMAIN fillOrder'
    BY <1>5, <1>6, <2>2, <2>3 DEF PnlInv, SeqPlaces
  <2>5. \A s \in 0 .. nextSeq' - 1 :
         \/ s \in DOMAIN fillOrder'
         \/ s < nextSeq' - MaxHistory
         \/ \E u \in PnlTasks : call'[u].at = "order" /\ call'[u].seq = s
    BY <1>3, <1>5, <1>6 DEF PnlInv, SeqPlaces, q
  <2>6. \E u \in PnlTasks : \A s : WillPrune(call'[u], s)
    BY <1>6, <2>1
  <2> QED
    BY <2>4, <2>5, <2>6 DEF SeqPlaces
<1>9. IdPlaces'
  <2>1. c.at \notin Holding /\ call[t].at \in Holding /\ call[t].id = id
    BY <1>0, <1>2 DEF Holding, id
  <2>2. \A x \in DOMAIN fills' :
           \/ \E s \in DOMAIN fillOrder' : fillOrder'[s] = x
           \/ \E u \in PnlTasks : call'[u].at \in Holding /\ call'[u].id = x
    BY <1>3, <1>5, <1>6, <2>1 DEF PnlInv, IdPlaces
  <2>3. /\ \A s \in DOMAIN fillOrder' : fillOrder'[s] \in DOMAIN fills'
        /\ \A u \in PnlTasks : call'[u].at \in {"sequence", "order"} => call'[u].id \in DOMAIN fills'
    BY <1>2, <1>3, <1>4, <1>5, <1>6 DEF PnlInv, IdPlaces
  <2>4. \A s \in DOMAIN fillOrder : fillOrder[s] # id
    BY <2>1 DEF PnlInv, IdPlaces
  <2>5. \A r, s \in DOMAIN fillOrder' : fillOrder'[r] = fillOrder'[s] => r = s
    BY <1>5, <2>4 DEF PnlInv, IdPlaces
  <2>6. \A u \in PnlTasks : u # t /\ call[u].at \in Holding => call[u].id # id
    BY <2>1 DEF PnlInv, IdPlaces
  <2>7. \A u \in PnlTasks, s \in DOMAIN fillOrder' :
           call'[u].at \in Holding => fillOrder'[s] # call'[u].id
    BY <1>5, <1>6, <2>1, <2>6 DEF PnlInv, IdPlaces
  <2>8. \A u, v \in PnlTasks :
           call'[u].at \in Holding /\ call'[v].at \in Holding /\ call'[u].id = call'[v].id => u = v
    BY <1>6, <2>1 DEF PnlInv, IdPlaces
  <2> QED
    BY <2>2, <2>3, <2>5, <2>7, <2>8 DEF IdPlaces
<1> QED
  BY <1>7, <1>8, <1>9 DEF PnlInv

\* The call that PruneFrom leaves fits, and takes care of what is left to prune.
LEMMA PruneFromMoves ==
    ASSUME PnlAssumption, PnlInv, NEW t \in PnlTasks, NEW seq \in Nat, NEW end \in Int,
           end <= nextSeq - MaxHistory, PruneFrom(t, seq, end)
    PROVE  \E c : /\ call' = [call EXCEPT ![t] = c] /\ CallFits(c, nextSeq, nextId)
                  /\ c.at \in {"idle", "unlink"}
                  /\ \A s \in Nat : seq <= s /\ s < end => WillPrune(c, s)
<1>1. CASE seq < end
  <2> DEFINE c == [at |-> "unlink", seq |-> seq, end |-> end]
  <2>1. call' = [call EXCEPT ![t] = c]
    BY <1>1 DEF PruneFrom
  <2>2. "at" \in DOMAIN c /\ c.at = "unlink" /\ c.seq = seq /\ c.end = end
    OBVIOUS
  <2> HIDE DEF c
  <2>3. CallFits(c, nextSeq, nextId)
    BY <1>1, <2>2 DEF CallFits, Listing, Holding
  <2>4. \A s \in Nat : seq <= s /\ s < end => WillPrune(c, s)
    BY <2>2 DEF WillPrune
  <2> QED
    BY <2>1, <2>2, <2>3, <2>4
<1>2. CASE ~(seq < end)
  <2>1. call' = [call EXCEPT ![t] = Idle]
    BY <1>2 DEF PruneFrom, Return
  <2>2. "at" \in DOMAIN Idle /\ Idle.at = "idle"
    BY DEF Idle
  <2> HIDE DEF Idle
  <2>3. CallFits(Idle, nextSeq, nextId)
    BY <2>2 DEF CallFits, Listing, Holding
  <2>4. \A s \in Nat : ~(seq <= s /\ s < end)
    BY <1>2
  <2> QED
    BY <2>1, <2>2, <2>3, <2>4
<1> QED
  BY <1>1, <1>2

\* The begin of a prune keeps the invariant of the history.
LEMMA PruneBeginsStep ==
    ASSUME PnlAssumption, PnlInv, NEW t \in PnlTasks, PruneBegins(t)
    PROVE  PnlInv'
<1>1. nextSeq \in Nat /\ MaxHistory \in Nat
  BY PnlOf DEF PnlAssumption
<1>2. PruneFrom(t, 0, nextSeq - MaxHistory) /\ call[t].at = "prune" /\ UNCHANGED <<history, nextId>>
  BY DEF PruneBegins, At
<1>3. PICK c : /\ call' = [call EXCEPT ![t] = c] /\ CallFits(c, nextSeq, nextId)
               /\ c.at \in {"idle", "unlink"}
               /\ \A s \in Nat : 0 <= s /\ s < nextSeq - MaxHistory => WillPrune(c, s)
  BY <1>1, <1>2, PruneFromMoves
<1>4. c.at \notin Holding /\ call[t].at \notin Holding
  BY <1>2, <1>3 DEF Holding
<1>5. \A s \in Nat : s < nextSeq - MaxHistory => WillPrune(c, s)
  BY <1>3
<1> QED
  BY <1>2, <1>3, <1>4, <1>5, PnlMoves DEF history

\* Taking a fill out of the order keeps the invariant of the history.
LEMMA UnlinkStep ==
    ASSUME PnlAssumption, PnlInv, NEW t \in PnlTasks, Unlink(t)
    PROVE  PnlInv'
<1> DEFINE q == call[t].seq
           end == call[t].end
           c == [at |-> "drop", seq |-> q, end |-> end, id |-> fillOrder[q]]
<1>0. CallFits(call[t], nextSeq, nextId) /\ call[t].at = "unlink"
  BY PnlOf DEF Unlink, At
<1>1. q \in Nat /\ end \in Int /\ q < end /\ end <= nextSeq - MaxHistory
  BY <1>0, CallSays
<1>2. fillOrder' = Without(fillOrder, q) /\ UNCHANGED <<fills, nextSeq, nextId>>
  BY DEF Unlink
<1>3. /\ DOMAIN fillOrder' = DOMAIN fillOrder \ {q}
      /\ \A s \in DOMAIN fillOrder' : fillOrder'[s] = fillOrder[s]
  BY <1>2 DEF Without, Restrict
<1>4. CASE q \notin DOMAIN fillOrder
  <2>1. PruneFrom(t, q + 1, end)
    BY <1>4 DEF Unlink
  <2>2. PICK d : /\ call' = [call EXCEPT ![t] = d] /\ CallFits(d, nextSeq, nextId)
                 /\ d.at \in {"idle", "unlink"}
                 /\ \A s \in Nat : q + 1 <= s /\ s < end => WillPrune(d, s)
    <3> HIDE DEF q, end
    <3> QED
      BY <1>1, <2>1, PruneFromMoves
  <2>3. d.at \notin Holding /\ call[t].at \notin Holding
    BY <1>0, <2>2 DEF Holding
  <2>4. ASSUME NEW s \in Nat, s \in DOMAIN fillOrder, WillPrune(call[t], s) PROVE WillPrune(d, s)
    <3>1. q <= s /\ s < end /\ s # q
      BY <1>0, <1>4, <2>4 DEF WillPrune, Listing
    <3> HIDE DEF q, end
    <3> QED
      BY <1>1, <2>2, <3>1
  <2>5. DOMAIN fills' = DOMAIN fills /\ DOMAIN fillOrder' = DOMAIN fillOrder
    BY <1>2, <1>3, <1>4
  <2> QED
    BY <1>2, <1>3, <2>2, <2>3, <2>4, <2>5, PnlMoves
<1>5. CASE q \in DOMAIN fillOrder
  <2>1. call' = [call EXCEPT ![t] = c]
    BY <1>5 DEF Unlink
  <2>2. "at" \in DOMAIN c /\ c.at = "drop" /\ c.seq = q /\ c.end = end /\ c.id = fillOrder[q]
    OBVIOUS
  <2> HIDE DEF c
  <2>3. \A s : WillPrune(call[t], s) /\ s # q /\ s \in Nat => WillPrune(c, s)
    BY <1>0, <1>1, <2>2 DEF WillPrune, Listing
  <2> HIDE DEF q, end
  <2>4. \A u \in PnlTasks : call'[u] = IF u = t THEN c ELSE call[u]
    BY <2>1 DEF PnlInv, PnlTyped
  <2>5. fillOrder[q] \in 1 .. nextId - 1
    BY <1>5 DEF PnlInv, PnlTyped
  <2>6. PnlTyped'
    <3>1. CallFits(c, nextSeq, nextId)
      BY <1>1, <2>2, <2>5 DEF CallFits, Listing, Holding
    <3>2. \A u \in PnlTasks : CallFits(call'[u], nextSeq', nextId')
      BY <1>2, <2>4, <3>1, PnlOf
    <3>3. call' = [u \in PnlTasks |-> call'[u]]
      BY <2>1 DEF PnlInv, PnlTyped
    <3>4. /\ DOMAIN fillOrder' \subseteq 0 .. nextSeq' - 1
          /\ \A s \in DOMAIN fillOrder' : fillOrder'[s] \in 1 .. nextId' - 1
      BY <1>2, <1>3 DEF PnlInv, PnlTyped
    <3> QED
      BY <1>2, <3>2, <3>3, <3>4 DEF PnlInv, PnlTyped
  <2>7. SeqPlaces'
    <3>1. c.at # "order" /\ call[t].at # "order"
      BY <1>0, <2>2
    <3>2. /\ \A u, v \in PnlTasks :
               call'[u].at = "order" /\ call'[v].at = "order" /\ call'[u].seq = call'[v].seq => u = v
          /\ \A u \in PnlTasks : call'[u].at = "order" => call'[u].seq \notin DOMAIN fillOrder'
      BY <1>3, <2>4, <3>1 DEF PnlInv, SeqPlaces
    <3>3. q < nextSeq - MaxHistory
      BY <1>1, PnlOf DEF PnlAssumption
    <3>4. \A s \in 0 .. nextSeq' - 1 :
           \/ s \in DOMAIN fillOrder'
           \/ s < nextSeq' - MaxHistory
           \/ \E u \in PnlTasks : call'[u].at = "order" /\ call'[u].seq = s
      BY <1>2, <1>3, <2>4, <3>1, <3>3 DEF PnlInv, SeqPlaces
    <3>5. ASSUME NEW s \in DOMAIN fillOrder', s < nextSeq' - MaxHistory
          PROVE  \E u \in PnlTasks : WillPrune(call'[u], s)
      <4>1. s \in DOMAIN fillOrder /\ s # q /\ s \in Nat
        BY <1>3, PnlOf
      <4>2. PICK u \in PnlTasks : WillPrune(call[u], s)
        BY <1>2, <3>5, <4>1 DEF PnlInv, SeqPlaces
      <4>3. WillPrune(call'[u], s)
        BY <2>3, <2>4, <4>1, <4>2
      <4> QED
        BY <4>3
    <3> QED
      BY <3>2, <3>4, <3>5 DEF SeqPlaces
  <2>8. IdPlaces'
    <3>1. c.at \in Holding /\ c.at \notin {"sequence", "order"} /\ call[t].at \notin Holding
      BY <1>0, <2>2 DEF Holding
    <3>2. \A x \in DOMAIN fills' :
             \/ \E s \in DOMAIN fillOrder' : fillOrder'[s] = x
             \/ \E u \in PnlTasks : call'[u].at \in Holding /\ call'[u].id = x
      <4> SUFFICES ASSUME NEW x \in DOMAIN fills,
                          ~ \E u \in PnlTasks : call'[u].at \in Holding /\ call'[u].id = x
                   PROVE  \E s \in DOMAIN fillOrder' : fillOrder'[s] = x
        BY <1>2
      <4>1. x # fillOrder[q]
        BY <2>2, <2>4, <3>1
      <4>2. PICK s \in DOMAIN fillOrder : fillOrder[s] = x
        BY <2>4, <3>1 DEF PnlInv, IdPlaces
      <4> QED
        BY <1>3, <4>1, <4>2
    <3>3. /\ \A s \in DOMAIN fillOrder' : fillOrder'[s] \in DOMAIN fills'
          /\ \A u \in PnlTasks : call'[u].at \in {"sequence", "order"} => call'[u].id \in DOMAIN fills'
          /\ \A r, s \in DOMAIN fillOrder' : fillOrder'[r] = fillOrder'[s] => r = s
      BY <1>2, <1>3, <2>4, <3>1 DEF PnlInv, IdPlaces
    <3>4. \A s \in DOMAIN fillOrder' : fillOrder'[s] # c.id
      BY <1>3, <1>5, <2>2 DEF PnlInv, IdPlaces
    <3>5. \A u \in PnlTasks, s \in DOMAIN fillOrder' :
             call'[u].at \in Holding => fillOrder'[s] # call'[u].id
      BY <1>3, <2>4, <3>4 DEF PnlInv, IdPlaces
    <3>6. \A u \in PnlTasks : call[u].at \in Holding => call[u].id # c.id
      BY <1>5, <2>2 DEF PnlInv, IdPlaces
    <3>7. \A u, v \in PnlTasks :
             call'[u].at \in Holding /\ call'[v].at \in Holding /\ call'[u].id = call'[v].id => u = v
      BY <2>4, <3>6 DEF PnlInv, IdPlaces
    <3> QED
      BY <3>2, <3>3, <3>5, <3>7 DEF IdPlaces
  <2> QED
    BY <2>6, <2>7, <2>8 DEF PnlInv
<1> QED
  BY <1>4, <1>5

\* Dropping a fill keeps the invariant of the history.
LEMMA DropFillStep ==
    ASSUME PnlAssumption, PnlInv, NEW t \in PnlTasks, DropFill(t)
    PROVE  PnlInv'
<1> DEFINE q == call[t].seq
           end == call[t].end
           id == call[t].id
<1>0. CallFits(call[t], nextSeq, nextId) /\ call[t].at = "drop"
  BY PnlOf DEF DropFill, At
<1>1. q \in Nat /\ end \in Int /\ end <= nextSeq - MaxHistory
  BY <1>0, CallSays
<1>2. /\ fills' = Without(fills, id) /\ PruneFrom(t, q + 1, end)
      /\ UNCHANGED <<fillOrder, nextSeq, nextId>>
  BY DEF DropFill
<1>3. \A s : WillPrune(call[t], s) <=> q < s /\ s < end
  BY <1>0 DEF WillPrune, Listing
<1>4. call[t].at \in Holding /\ call[t].at \notin {"sequence", "order"}
  BY <1>0 DEF Holding
<1>5. \A u \in PnlTasks : u # t /\ call[u].at \in Holding => call[u].id # id
  BY <1>4 DEF PnlInv, IdPlaces
<1>6. \A s \in DOMAIN fillOrder : fillOrder[s] # id
  BY <1>4 DEF PnlInv, IdPlaces
<1>7. \A x \in DOMAIN fills : x # id =>
         \/ \E s \in DOMAIN fillOrder : fillOrder[s] = x
         \/ \E u \in PnlTasks : u # t /\ call[u].at \in Holding /\ call[u].id = x
  BY DEF PnlInv, IdPlaces
<1> HIDE DEF q, end, id
<1>8. DOMAIN fills' = DOMAIN fills \ {id}
  BY <1>2 DEF Without, Restrict
<1>9. PICK c : /\ call' = [call EXCEPT ![t] = c] /\ CallFits(c, nextSeq, nextId)
               /\ c.at \in {"idle", "unlink"}
               /\ \A s \in Nat : q + 1 <= s /\ s < end => WillPrune(c, s)
  BY <1>1, <1>2, PruneFromMoves
<1>10. \A u \in PnlTasks : call'[u] = IF u = t THEN c ELSE call[u]
  BY <1>9 DEF PnlInv, PnlTyped
<1>11. PnlTyped'
  <2>1. \A u \in PnlTasks : CallFits(call'[u], nextSeq', nextId')
    BY <1>2, <1>9, <1>10, PnlOf
  <2>2. call' = [u \in PnlTasks |-> call'[u]]
    BY <1>9 DEF PnlInv, PnlTyped
  <2> QED
    BY <1>2, <1>8, <2>1, <2>2 DEF PnlInv, PnlTyped
<1>12. SeqPlaces'
  <2>1. c.at # "order" /\ call[t].at # "order"
    BY <1>0, <1>9
  <2>2. ASSUME NEW s \in DOMAIN fillOrder, s < nextSeq - MaxHistory
        PROVE  \E u \in PnlTasks : WillPrune(call'[u], s)
    <3>1. PICK u \in PnlTasks : WillPrune(call[u], s)
      BY <2>2 DEF PnlInv, SeqPlaces
    <3>2. s \in Nat
      BY PnlOf
    <3>3. WillPrune(call'[u], s)
      BY <1>1, <1>3, <1>9, <1>10, <3>1, <3>2
    <3> QED
      BY <3>3
  <2> QED
    BY <1>2, <1>10, <2>1, <2>2 DEF PnlInv, SeqPlaces
<1>13. IdPlaces'
  <2>1. c.at \notin Holding /\ c.at \notin {"sequence", "order"}
    BY <1>9 DEF Holding
  <2>2. \A x \in DOMAIN fills' :
           \/ \E s \in DOMAIN fillOrder' : fillOrder'[s] = x
           \/ \E u \in PnlTasks : call'[u].at \in Holding /\ call'[u].id = x
    BY <1>2, <1>7, <1>8, <1>10
  <2>3. \A u \in PnlTasks : call'[u].at \in {"sequence", "order"} => call'[u].id \in DOMAIN fills'
    BY <1>5, <1>8, <1>10, <2>1 DEF PnlInv, IdPlaces, Holding
  <2>4. \A s \in DOMAIN fillOrder' : fillOrder'[s] \in DOMAIN fills'
    BY <1>2, <1>6, <1>8 DEF PnlInv, IdPlaces
  <2> QED
    BY <1>2, <1>10, <2>1, <2>2, <2>3, <2>4 DEF PnlInv, IdPlaces
<1> QED
  BY <1>11, <1>12, <1>13 DEF PnlInv

\* A new status keeps the invariant of the history.
LEMMA UpdateStatusStep ==
    ASSUME PnlInv, NEW t \in PnlTasks, NEW id, NEW new, UpdateStatus(t, id, new)
    PROVE  PnlInv'
<1> DEFINE c == [at |-> IF fills[id].status = "Pending" /\ new = "Confirmed"
                        THEN "late credit" ELSE "amend day",
                 rec |-> fills[id], new |-> new]
<1>1. /\ call[t].at = "idle" /\ call' = [call EXCEPT ![t] = c] /\ DOMAIN fills' = DOMAIN fills
      /\ UNCHANGED <<fillOrder, nextSeq, nextId>>
  BY DEF UpdateStatus, At
<1>2. "at" \in DOMAIN c /\ c.at \in {"late credit", "amend day"}
  OBVIOUS
<1> HIDE DEF c
<1>3. CallFits(c, nextSeq, nextId)
  BY <1>2 DEF CallFits, Listing, Holding
<1>4. call[t].at \notin Holding /\ c.at \notin Holding /\ \A s : ~WillPrune(call[t], s)
  BY <1>1, <1>2 DEF Holding, Listing, WillPrune
<1> QED
  BY <1>1, <1>3, <1>4, PnlMoves

\* Amending a day keeps the invariant of the history.
LEMMA AmendDayStep ==
    ASSUME PnlInv, NEW t \in PnlTasks, AmendDay(t)
    PROVE  PnlInv'
<1>1. call[t].at = "amend day" /\ call' = [call EXCEPT ![t] = Idle] /\ UNCHANGED <<history, nextId>>
  BY DEF AmendDay, At, Return
<1>2. "at" \in DOMAIN Idle /\ Idle.at = "idle"
  BY DEF Idle
<1> HIDE DEF Idle
<1>3. CallFits(Idle, nextSeq, nextId)
  BY <1>2 DEF CallFits, Listing, Holding
<1>4. call[t].at \notin Holding /\ Idle.at \notin Holding /\ \A s : ~WillPrune(call[t], s)
  BY <1>1, <1>2 DEF Holding, Listing, WillPrune
<1> QED
  BY <1>1, <1>3, <1>4, PnlMoves DEF history

\* The counters keep the invariant of the history.
LEMMA CountingStep ==
    ASSUME PnlInv, NEW t \in PnlTasks,
           CountFill(t) \/ Credit(t) \/ BookDay(t) \/ \E c \in Coins : BookCoin(t, c)
    PROVE  PnlInv'
<1>1. CASE CountFill(t)
  BY <1>1, ListingMoves DEF CountFill, At, Listing
<1>2. CASE Credit(t)
  BY <1>2, ListingMoves DEF Credit, At, Listing
<1>3. CASE BookDay(t)
  BY <1>3, ListingMoves DEF BookDay, At, Listing
<1>4. CASE \E c \in Coins : BookCoin(t, c)
  BY <1>4, ListingMoves DEF BookCoin, At, Listing
<1> QED
  BY <1>1, <1>2, <1>3, <1>4

\* Every step keeps the invariant of the history.
LEMMA PnlInvStep == ASSUME PnlAssumption, PnlInv, [PnlNext]_pnlVars PROVE PnlInv'
<1>1. CASE UNCHANGED pnlVars
  BY <1>1 DEF pnlVars, PnlInv, PnlTyped, SeqPlaces, IdPlaces
<1>2. ASSUME NEW t \in PnlTasks, RecordStep(t) PROVE PnlInv'
  BY <1>2, StoreFillStep, TakeSeqStep, PutOrderStep, CountingStep DEF RecordStep
<1>3. ASSUME NEW t \in PnlTasks, PruneStep(t) PROVE PnlInv'
  BY <1>3, PruneBeginsStep, UnlinkStep, DropFillStep DEF PruneStep
<1>4. ASSUME NEW t \in PnlTasks, UpdateStep(t) PROVE PnlInv'
  BY <1>4, UpdateStatusStep, AmendDayStep DEF UpdateStep
<1> QED
  BY <1>1, <1>2, <1>3, <1>4 DEF PnlNext

\* At rest the order holds the newest fills, and the fills are those in order.
LEMMA InvKeepsNewest == ASSUME PnlAssumption, PnlInv PROVE NewestKept
<1> SUFFICES ASSUME Quiet PROVE NewestKept
  BY DEF NewestKept
<1> DEFINE kept == {seq \in 0 .. nextSeq - 1 : seq >= nextSeq - MaxHistory}
           ids == {fillOrder[seq] : seq \in kept}
<1>1. nextSeq \in Nat /\ MaxHistory \in Nat /\ DOMAIN fillOrder \subseteq 0 .. nextSeq - 1
  BY PnlOf DEF PnlAssumption, PnlInv, PnlTyped
<1>2. \A t \in PnlTasks : call[t].at = "idle"
  BY DEF Quiet, At
<1>3. \A t \in PnlTasks : call[t].at \notin Holding /\ call[t].at # "order" /\ \A s : ~WillPrune(call[t], s)
  BY <1>2 DEF Holding, Listing, WillPrune
<1>4. DOMAIN fillOrder = kept
  <2>1. ASSUME NEW s \in DOMAIN fillOrder PROVE s \in kept
    <3>1. ~(s < nextSeq - MaxHistory)
      BY <1>3 DEF PnlInv, SeqPlaces
    <3> QED
      BY <1>1, <3>1
  <2>2. ASSUME NEW s \in kept PROVE s \in DOMAIN fillOrder
    <3>1. s \in 0 .. nextSeq - 1 /\ ~(s < nextSeq - MaxHistory)
      BY <1>1
    <3> QED
      BY <1>3, <3>1 DEF PnlInv, SeqPlaces
  <2> QED
    BY <2>1, <2>2
<1>5. DOMAIN fills = ids
  <2>1. DOMAIN fills \subseteq ids
    BY <1>3, <1>4 DEF PnlInv, IdPlaces
  <2>2. ids \subseteq DOMAIN fills
    BY <1>4 DEF PnlInv, IdPlaces
  <2> QED
    BY <2>1, <2>2
<1>6. Cardinality(DOMAIN fills) = Cardinality(kept)
  <2> DEFINE f == [s \in kept |-> fillOrder[s]]
  <2>1. IsFiniteSet(kept)
    <3>1. IsFiniteSet(0 .. nextSeq - 1)
      BY <1>1, FS_Interval
    <3>2. kept \subseteq 0 .. nextSeq - 1
      OBVIOUS
    <3> HIDE DEF kept
    <3> QED
      BY <3>1, <3>2, FS_Subset
  <2>2. \A r, s \in kept : fillOrder[r] = fillOrder[s] => r = s
    BY <1>4 DEF PnlInv, IdPlaces
  <2>3. f \in Bijection(kept, ids)
    BY <2>2 DEF Bijection, Injection, Surjection, IsInjective
  <2>4. Cardinality(kept) = Cardinality(ids)
    <3> HIDE DEF f, kept, ids
    <3>1. ExistsBijection(kept, ids)
      BY <2>3 DEF ExistsBijection
    <3> QED
      BY <2>1, <3>1, FS_Bijection
  <2> QED
    BY <1>5, <2>4
<1>7. RecentFills(MaxHistory) = {<<seq, fillOrder[seq]>> : seq \in kept}
  <2> DEFINE first == IF nextSeq > MaxHistory THEN nextSeq - MaxHistory ELSE 0
             seen == {s \in first .. nextSeq - 1 : s \in DOMAIN fillOrder /\ fillOrder[s] \in DOMAIN fills}
  <2>1. seen \subseteq kept
    BY <1>1, <1>4
  <2>2. kept \subseteq seen
    <3>1. \A s \in kept : s \in first .. nextSeq - 1
      BY <1>1
    <3> QED
      BY <1>4, <1>5, <3>1
  <2>3. RecentFills(MaxHistory) = {<<seq, fillOrder[seq]>> : seq \in seen}
    BY DEF RecentFills
  <2>4. seen = kept
    BY <2>1, <2>2
  <2> QED
    BY <2>3, <2>4
<1> QED
  BY <1>4, <1>5, <1>6, <1>7 DEF NewestKept

\* PnlTracker.NewestKept, for every number of tasks and every limit: the calls
\* that prune concurrently leave exactly the newest max_fill_history fills.
THEOREM NewestFillsKept == PnlSpec => []NewestKept
<1>1. PnlInit => PnlInv
  BY PnlInvInit
<1>2. PnlInv /\ [PnlNext]_pnlVars => PnlInv'
  BY PnlInvStep, PnlAssumption
<1>3. PnlInv => NewestKept
  BY InvKeepsNewest, PnlAssumption
<1> QED
  BY <1>1, <1>2, <1>3, PTL DEF PnlSpec

-----------------------------------------------------------------------------
(* BalanceTracker: how old an amount may be                                *)

\* An entry of the map: when its amount was asked for and when it was put in.
Amounts == [amount : Nat, updatedAt : Nat]

\* What a refresh has at hand.
Refreshes ==
    [at : {"idle"}]
    \union [at : {"answer", "full", "admitted"}, key : BalanceKeys, amount : Nat]
    \union [at : {"scan"}, left : SUBSET BalanceKeys, found : SUBSET BalanceKeys]

\* The task is on its way to the map with an amount.
Carries(t) == refresh[t].at \in {"answer", "full", "admitted"}

\* The map, the refreshes and the clock have their types.
BalanceTyped ==
    /\ now \in Nat
    /\ refresh \in [BalanceTasks -> Refreshes]
    /\ Keys \subseteq BalanceKeys
    /\ \A k \in Keys : balances[k] \in Amounts

\* Every amount reached the map, or can still reach it, within MaxDelay.
InTime ==
    /\ \A k \in Keys : balances[k].updatedAt <= balances[k].amount + MaxDelay
    /\ \A t \in BalanceTasks : Carries(t) => now <= refresh[t].amount + MaxDelay

\* The keys of the tasks that passed the check.
Admitted == {t \in BalanceTasks : refresh[t].at = "admitted"}

\* The keys that are in the map or will be.
Expected == Keys \union {refresh[t].key : t \in Admitted}

\* All that is in the map or may still be inserted fits, but for the tasks that
\* found the last room together.
RoomLeft ==
    /\ IsFiniteSet(Expected)
    /\ Cardinality(Expected) <= MaxEntries + Cardinality(BalanceTasks) - 1

\* What every step of BalanceTracker keeps.
BalanceInv == BalanceTyped /\ InTime /\ RoomLeft

\* Tasks hold no more keys than there are tasks.
LEMMA AdmittedKeys ==
    ASSUME NEW S \in SUBSET BalanceTasks, NEW f
    PROVE  /\ IsFiniteSet({f[t].key : t \in S})
           /\ Cardinality({f[t].key : t \in S}) \in Nat
           /\ Cardinality({f[t].key : t \in S}) <= Cardinality(BalanceTasks)
<1> USE BalanceAssumption
<1> DEFINE T == {f[t].key : t \in S}
           g == [t \in S |-> f[t].key]
<1>1. IsFiniteSet(S) /\ Cardinality(S) <= Cardinality(BalanceTasks)
  BY FS_Subset
<1>2. g \in Surjection(S, T)
  BY DEF Surjection
<1>3. IsFiniteSet(T) /\ Cardinality(T) <= Cardinality(S)
  BY <1>1, <1>2, FS_Surjection
<1>4. Cardinality(T) \in Nat /\ Cardinality(S) \in Nat /\ Cardinality(BalanceTasks) \in Nat
  BY <1>1, <1>3, FS_CardinalityType
<1> QED
  BY <1>1, <1>3, <1>4

\* Nothing new is expected: there is room as before.
LEMMA RoomKept ==
    ASSUME RoomLeft, Expected' \subseteq Expected
    PROVE  RoomLeft'
<1>1. /\ IsFiniteSet(Expected') /\ Cardinality(Expected') <= Cardinality(Expected)
  BY FS_Subset DEF RoomLeft
<1>2. /\ Cardinality(Expected') \in Nat /\ Cardinality(Expected) \in Nat
      /\ Cardinality(BalanceTasks) \in Nat
  BY <1>1, FS_CardinalityType, BalanceAssumption DEF RoomLeft
<1> QED
  BY <1>1, <1>2, BalanceAssumption DEF RoomLeft

\* At the start nothing is cached.
LEMMA BalanceInvInit ==
    ASSUME BalanceInit
    PROVE  BalanceInv
<1> USE BalanceAssumption
<1>1. Keys = {} /\ Expected = {}
  BY DEF BalanceInit, Keys, Expected, Admitted, Free
<1>2. Cardinality(BalanceTasks) \in Nat \ {0}
  BY FS_CardinalityType, FS_EmptySet
<1>3. RoomLeft
  BY <1>1, <1>2, FS_EmptySet DEF RoomLeft
<1>4. BalanceTyped /\ InTime
  BY <1>1 DEF BalanceInit, BalanceTyped, InTime, Carries, Free, Refreshes
<1> QED
  BY <1>3, <1>4 DEF BalanceInv

\* A task moves on without touching the map.
LEMMA BalanceTaskMoves ==
    ASSUME BalanceInv, NEW t \in BalanceTasks, NEW r \in Refreshes,
           refresh' = [refresh EXCEPT ![t] = r], UNCHANGED <<balances, now>>,
           r.at \in {"answer", "full", "admitted"} => now <= r.amount + MaxDelay,
           r.at = "admitted" => r.key \in Expected
    PROVE  BalanceInv'
<1>1. BalanceTyped'
  BY DEF BalanceInv, BalanceTyped, Keys
<1>2. InTime'
  BY DEF BalanceInv, BalanceTyped, InTime, Carries, Keys
<1>3. Expected' \subseteq Expected
  BY DEF Expected, Admitted, Keys, BalanceInv, BalanceTyped
<1> QED
  BY <1>1, <1>2, <1>3, RoomKept DEF BalanceInv

\* A key is removed from the map; a task that clears a wallet crosses it out.
LEMMA BalanceRemoved ==
    ASSUME BalanceInv, NEW k, balances' = Restrict(balances, Keys \ {k}), now' = now,
           refresh' \in [BalanceTasks -> Refreshes],
           \A t \in BalanceTasks : \/ refresh'[t] = refresh[t]
                                   \/ refresh[t].at = "scan" /\ refresh'[t].at = "scan"
    PROVE  BalanceInv'
<1>1. /\ Keys' = Keys \ {k}
      /\ \A x \in Keys' : balances'[x] = balances[x]
  BY DEF Restrict, Keys
<1>2. BalanceTyped'
  BY <1>1 DEF BalanceInv, BalanceTyped
<1>3. InTime'
  BY <1>1 DEF BalanceInv, InTime, Carries
<1>4. Expected' \subseteq Expected
  BY <1>1 DEF Expected, Admitted
<1> QED
  BY <1>2, <1>3, <1>4, RoomKept DEF BalanceInv

\* A task carries what it fetched: its own record of the key and the amount.
LEMMA Carried ==
    ASSUME BalanceInv, NEW t \in BalanceTasks, Carries(t), NEW label \in {"full", "admitted"}
    PROVE  /\ refresh[t] \in [at : {"answer", "full", "admitted"}, key : BalanceKeys, amount : Nat]
           /\ [refresh[t] EXCEPT !.at = label] \in Refreshes
           /\ [refresh[t] EXCEPT !.at = label].at = label
           /\ [refresh[t] EXCEPT !.at = label].key = refresh[t].key
           /\ [refresh[t] EXCEPT !.at = label].amount = refresh[t].amount
           /\ now <= refresh[t].amount + MaxDelay
<1>1. refresh[t] \in [at : {"answer", "full", "admitted"}, key : BalanceKeys, amount : Nat]
  BY DEF BalanceInv, BalanceTyped, Refreshes, Carries
<1> QED
  BY <1>1 DEF BalanceInv, InTime, Refreshes

\* The check of the size keeps the invariant of the cache.
LEMMA BalanceCheckLen ==
    ASSUME BalanceInv, NEW t \in BalanceTasks, CheckLen(t)
    PROVE  BalanceInv'
<1> USE BalanceAssumption
<1>1. Carries(t) /\ UNCHANGED <<balances, now>>
  BY DEF CheckLen, Carries
<1>2. CASE Cardinality(Keys) >= MaxEntries
  <2> DEFINE r == [refresh[t] EXCEPT !.at = "full"]
  <2>1. refresh' = [refresh EXCEPT ![t] = r]
    BY <1>2 DEF CheckLen, Moves, BalanceInv, BalanceTyped
  <2>2. r \in Refreshes /\ r.at = "full" /\ now <= r.amount + MaxDelay
    BY <1>1, Carried
  <2> HIDE DEF r
  <2> QED
    BY <1>1, <2>1, <2>2, BalanceTaskMoves
<1>3. CASE ~(Cardinality(Keys) >= MaxEntries)
  <2> DEFINE r == [refresh[t] EXCEPT !.at = "admitted"]
             K == {refresh'[s].key : s \in Admitted'}
  <2>1. refresh' = [refresh EXCEPT ![t] = r]
    BY <1>3 DEF CheckLen, Moves, BalanceInv, BalanceTyped
  <2>2. r \in Refreshes /\ r.at = "admitted" /\ now <= r.amount + MaxDelay
    BY <1>1, Carried
  <2>3. BalanceTyped'
    BY <1>1, <2>1, <2>2 DEF BalanceInv, BalanceTyped, Keys
  <2>4. InTime'
    BY <1>1, <2>1, <2>2 DEF BalanceInv, BalanceTyped, InTime, Carries, Keys
  <2>5. /\ IsFiniteSet(K) /\ Cardinality(K) \in Nat
        /\ Cardinality(K) <= Cardinality(BalanceTasks)
    BY AdmittedKeys DEF Admitted
  <2>6. IsFiniteSet(Keys) /\ Cardinality(Keys) \in Nat
    BY FS_Subset, FS_CardinalityType DEF BalanceInv, RoomLeft, Expected
  <2>7. /\ Cardinality(Keys) <= MaxEntries - 1
        /\ Cardinality(BalanceTasks) \in Nat
    BY <1>3, <2>6, FS_CardinalityType
  <2>8. Expected' = Keys \union K
    BY <1>1 DEF Expected, Keys
  <2> HIDE DEF K
  <2>9. /\ IsFiniteSet(Keys \union K) /\ Cardinality(Keys \intersect K) \in Nat
        /\ Cardinality(Keys \union K) = Cardinality(Keys) + Cardinality(K) - Cardinality(Keys \intersect K)
    BY <2>5, <2>6, FS_Union, FS_Intersection, FS_CardinalityType
  <2>10. RoomLeft'
    BY <2>5, <2>6, <2>7, <2>8, <2>9 DEF RoomLeft
  <2> QED
    BY <2>3, <2>4, <2>10 DEF BalanceInv
<1> QED
  BY <1>2, <1>3

\* An insertion keeps the invariant of the cache.
LEMMA BalanceInsert ==
    ASSUME BalanceInv, NEW t \in BalanceTasks, Insert(t)
    PROVE  BalanceInv'
<1> DEFINE k == refresh[t].key
           e == [amount |-> refresh[t].amount, updatedAt |-> now]
<1>1. /\ Carries(t) /\ t \in Admitted /\ now' = now
      /\ refresh' = [refresh EXCEPT ![t] = Free]
      /\ balances' = [x \in Keys \union {k} |-> IF x = k THEN e ELSE balances[x]]
  BY DEF Insert, Carries, Admitted, Ends
<1>2. k \in BalanceKeys /\ e \in Amounts /\ e.updatedAt <= e.amount + MaxDelay
  BY <1>1, Carried DEF Amounts, BalanceInv, BalanceTyped
<1> HIDE DEF e
<1>3. /\ Keys' = Keys \union {k}
      /\ \A x \in Keys' : balances'[x] = IF x = k THEN e ELSE balances[x]
  BY <1>1 DEF Keys
<1>4. Free \in Refreshes /\ Free.at = "idle"
  BY DEF Free, Refreshes
<1>5. BalanceTyped'
  BY <1>1, <1>2, <1>3, <1>4 DEF BalanceInv, BalanceTyped
<1>6. InTime'
  BY <1>1, <1>2, <1>3, <1>4 DEF BalanceInv, BalanceTyped, InTime, Carries
<1>7. Expected' \subseteq Expected
  BY <1>1, <1>3, <1>4 DEF Expected, Admitted, BalanceInv, BalanceTyped
<1> QED
  BY <1>5, <1>6, <1>7, RoomKept DEF BalanceInv

\* Every step keeps the invariant of the cache.
LEMMA BalanceInvStep ==
    ASSUME BalanceInv, [BalanceNext]_balanceVars
    PROVE  BalanceInv'
<1> USE BalanceAssumption
<1> DEFINE Scans == [at : {"scan"}, left : SUBSET BalanceKeys, found : SUBSET BalanceKeys]
<1>1. ASSUME NEW t \in BalanceTasks, NEW k \in BalanceKeys, Fetch(t, k)
      PROVE  BalanceInv'
  <2> DEFINE r == [at |-> "answer", key |-> k, amount |-> now]
  <2>1. r \in Refreshes /\ now <= r.amount + MaxDelay
    BY DEF Refreshes, BalanceInv, BalanceTyped
  <2> QED
    BY <1>1, <2>1, BalanceTaskMoves DEF Fetch
<1>2. ASSUME NEW t \in BalanceTasks, CheckKnown(t)
      PROVE  BalanceInv'
  <2>1. Carries(t) /\ UNCHANGED <<balances, now>>
    BY <1>2 DEF CheckKnown, Carries
  <2>2. CASE refresh[t].key \in Keys
    <3> DEFINE r == [refresh[t] EXCEPT !.at = "admitted"]
    <3>1. refresh' = [refresh EXCEPT ![t] = r]
      BY <1>2, <2>2 DEF CheckKnown, Moves, BalanceInv, BalanceTyped
    <3>2. r \in Refreshes /\ r.key \in Expected /\ now <= r.amount + MaxDelay
      BY <2>1, <2>2, Carried DEF Expected
    <3> HIDE DEF r
    <3> QED
      BY <2>1, <3>1, <3>2, BalanceTaskMoves
  <2>3. CASE refresh[t].key \notin Keys
    <3>1. Free \in Refreshes /\ Free.at = "idle"
      BY DEF Free, Refreshes
    <3> QED
      BY <1>2, <2>1, <2>3, <3>1, BalanceTaskMoves DEF CheckKnown, Ends
  <2> QED
    BY <2>2, <2>3
<1>3. ASSUME NEW t \in BalanceTasks, NEW w \in Wallets, ClearBegins(t, w)
      PROVE  BalanceInv'
  <2> DEFINE r == [at |-> "scan", left |-> {w} \X WalletTokens, found |-> {}]
  <2>1. r \in Refreshes
    BY DEF Refreshes, BalanceKeys
  <2> QED
    BY <1>3, <2>1, BalanceTaskMoves DEF ClearBegins
<1>4. ASSUME NEW t \in BalanceTasks, NEW k \in BalanceKeys, ClearVisits(t, k)
      PROVE  BalanceInv'
  <2> DEFINE found == IF k \in Keys THEN refresh[t].found \union {k} ELSE refresh[t].found
             r == [refresh[t] EXCEPT !.left = @ \ {k}, !.found = found]
  <2>1. refresh[t] \in Scans
    BY <1>4 DEF ClearVisits, BalanceInv, BalanceTyped, Refreshes
  <2>2. r \in Scans
    BY <2>1
  <2>3. refresh' = [refresh EXCEPT ![t] = r] /\ UNCHANGED <<balances, now>>
    BY <1>4 DEF ClearVisits, BalanceInv, BalanceTyped
  <2>4. r \in Refreshes /\ r.at = "scan"
    BY <2>2 DEF Refreshes
  <2> HIDE DEF r
  <2> QED
    BY <2>3, <2>4, BalanceTaskMoves
<1>5. ASSUME NEW t \in BalanceTasks, NEW k \in BalanceKeys, ClearRemoves(t, k)
      PROVE  BalanceInv'
  <2> DEFINE r == [refresh[t] EXCEPT !.found = @ \ {k}]
  <2>1. refresh[t] \in Scans
    BY <1>5 DEF ClearRemoves, BalanceInv, BalanceTyped, Refreshes
  <2>2. r \in Scans
    BY <2>1
  <2>3. refresh' = [refresh EXCEPT ![t] = r] /\ refresh[t].at = "scan"
    BY <1>5 DEF ClearRemoves, BalanceInv, BalanceTyped
  <2>4. r \in Refreshes /\ r.at = "scan"
    BY <2>2 DEF Refreshes
  <2> HIDE DEF r
  <2>5. /\ refresh' \in [BalanceTasks -> Refreshes]
        /\ \A s \in BalanceTasks : refresh'[s] = IF s = t THEN r ELSE refresh[s]
    BY <2>3, <2>4 DEF BalanceInv, BalanceTyped
  <2> QED
    BY <1>5, <2>3, <2>4, <2>5, BalanceRemoved DEF ClearRemoves
<1>6. ASSUME NEW t \in BalanceTasks, ClearEnds(t)
      PROVE  BalanceInv'
  <2>1. Free \in Refreshes /\ Free.at = "idle"
    BY DEF Free, Refreshes
  <2> QED
    BY <1>6, <2>1, BalanceTaskMoves DEF ClearEnds, Ends
<1>7. CASE ClearPart
  BY <1>7, BalanceRemoved DEF ClearPart, BalanceInv, BalanceTyped
<1>8. CASE ClockTicks
  <2>1. UNCHANGED <<balances, refresh>> /\ now' = now + 1
    BY <1>8 DEF ClockTicks
  <2>2. BalanceTyped'
    BY <2>1 DEF BalanceInv, BalanceTyped, Keys
  <2>3. InTime'
    <3>1. \A t \in BalanceTasks : Carries(t) => now < refresh[t].amount + MaxDelay /\ refresh[t].amount \in Nat
      BY <1>8, Carried DEF ClockTicks, Carries
    <3> QED
      BY <2>1, <3>1 DEF BalanceInv, BalanceTyped, InTime, Carries, Keys
  <2>4. Expected' = Expected
    BY <2>1 DEF Expected, Admitted, Keys
  <2> QED
    BY <2>2, <2>3, <2>4, RoomKept DEF BalanceInv
<1>9. CASE UNCHANGED balanceVars
  BY <1>9 DEF balanceVars, BalanceInv, BalanceTyped, InTime, RoomLeft, Carries, Expected, Admitted, Keys
<1> QED
  BY <1>1, <1>2, <1>3, <1>4, <1>5, <1>6, <1>7, <1>8, <1>9, BalanceCheckLen, BalanceInsert
  DEF BalanceNext, RefreshStep, ClearStep

\* What is not called stale is recent.
LEMMA BalanceInvRecent ==
    ASSUME BalanceInv
    PROVE  FreshIsRecent
<1> USE BalanceAssumption
<1> DEFINE Recent(amount) == now - amount <= StaleThreshold + MaxDelay
<1>1. \A k \in Keys : ~Stale(k) => Recent(balances[k].amount)
  BY DEF Stale, BalanceInv, BalanceTyped, InTime, Amounts
<1>2. \A k \in BalanceKeys : ~Stale(k) => Balance(k) # {} /\ \A a \in Balance(k) : Recent(a)
  <2> SUFFICES ASSUME NEW k \in BalanceKeys, ~Stale(k)
               PROVE  Balance(k) # {} /\ \A a \in Balance(k) : Recent(a)
    OBVIOUS
  <2>1. k \in Keys
    BY DEF Stale
  <2>2. Balance(k) = {balances[k].amount}
    BY <2>1 DEF Balance
  <2> QED
    BY <1>1, <2>1, <2>2
<1>3. \A w \in Wallets : \A b \in WalletBalances(w) : b.isStale \/ Recent(b.amount)
  <2> SUFFICES ASSUME NEW w \in Wallets, NEW k \in Keys,
                      NEW b, b = [key |-> k, amount |-> balances[k].amount, isStale |-> Stale(k)]
               PROVE  b.isStale \/ Recent(b.amount)
    BY DEF WalletBalances
  <2> QED
    BY <1>1
<1>4. IsFiniteSet(Keys) /\ Cardinality(Keys) <= MaxEntries + Cardinality(BalanceTasks) - 1
  <2>1. IsFiniteSet(Keys) /\ Cardinality(Keys) <= Cardinality(Expected)
    BY FS_Subset DEF BalanceInv, RoomLeft, Expected
  <2>2. /\ Cardinality(Keys) \in Nat /\ Cardinality(Expected) \in Nat
        /\ Cardinality(BalanceTasks) \in Nat
    BY <2>1, FS_CardinalityType DEF BalanceInv, RoomLeft
  <2> QED
    BY <2>1, <2>2 DEF BalanceInv, RoomLeft
<1>5. ASSUME NEW chain \in SUBSET Wallets
      PROVE  /\ ChainSummary(chain).stale = 0 =>
                  \A k \in Keys : k[1] \in chain => Recent(balances[k].amount)
             /\ ChainSummary(chain).entries <= MaxEntries + Cardinality(BalanceTasks) - 1
  <2> DEFINE of == {k \in Keys : k[1] \in chain}
             stale == {k \in of : Stale(k)}
  <2>1. /\ IsFiniteSet(of) /\ Cardinality(of) <= Cardinality(Keys)
        /\ IsFiniteSet(stale)
    BY <1>4, FS_Subset
  <2>2. /\ Cardinality(of) \in Nat /\ Cardinality(Keys) \in Nat
        /\ Cardinality(BalanceTasks) \in Nat
    BY <1>4, <2>1, FS_CardinalityType
  <2>3. ChainSummary(chain).entries = Cardinality(of) /\ ChainSummary(chain).stale = Cardinality(stale)
    BY DEF ChainSummary
  <2>4. Cardinality(stale) = 0 => stale = {}
    BY <2>1, FS_EmptySet
  <2>5. stale = {} => \A k \in Keys : k[1] \in chain => Recent(balances[k].amount)
    BY <1>1
  <2> HIDE DEF of, stale
  <2> QED
    BY <1>4, <2>1, <2>2, <2>3, <2>4, <2>5
<1> QED
  BY <1>2, <1>3, <1>5 DEF FreshIsRecent

\* For any wallets, tokens, tasks and limits: an amount that is not called stale
\* was on the chain within the threshold and the longest answer, and the map
\* exceeds its limit by less than the number of tasks.
THEOREM UnstaleAmountIsRecent == BalanceSpec => []FreshIsRecent
BY BalanceInvInit, BalanceInvStep, BalanceInvRecent, PTL DEF BalanceSpec

-----------------------------------------------------------------------------
(* PnlTracker: the running total and the days                              *)

\* The width of the running total.
Width == 2 * I64Max + 2
InWidth(n) == n \in Int /\ -I64Max - 1 <= n /\ n <= I64Max

\* A multiple of the width between two numbers in its range is none at all.
LEMMA OneInWidth ==
    ASSUME PnlAssumption, NEW m, NEW n, InWidth(m), InWidth(n),
           NEW k \in Int, m = n + k * Width
    PROVE  m = n
<1>0. I64Max \in Nat /\ Width \in Nat /\ Width > 0 /\ Width = 2 * I64Max + 2
  BY DEF PnlAssumption, Width
<1>1. m - n < Width /\ n - m < Width /\ m \in Int /\ n \in Int
  BY <1>0 DEF InWidth
<1> HIDE DEF Width
<1>2. CASE k >= 1
  <2>1. k * Width >= Width
    BY <1>0, <1>2
  <2>2. k * Width \in Int
    BY <1>0
  <2> QED BY <1>0, <1>1, <2>1, <2>2
<1>3. CASE k <= -1
  <2>1. k * Width <= -Width
    BY <1>0, <1>3
  <2>2. k * Width \in Int
    BY <1>0
  <2> QED BY <1>0, <1>1, <2>1, <2>2
<1>4. CASE k = 0
  BY <1>0, <1>1, <1>4
<1> QED BY <1>2, <1>3, <1>4

\* fetch_add stays in range and differs from the sum by a multiple of the width.
LEMMA WrappedIs ==
    ASSUME PnlAssumption, NEW n \in Int
    PROVE  InWidth(Wrapped(n)) /\ \E k \in Int : Wrapped(n) = n + k * Width
<1>0. I64Max \in Nat /\ Width \in Nat /\ Width > 0 /\ Width = 2 * I64Max + 2
  BY DEF PnlAssumption, Width
<1> DEFINE a == n + I64Max + 1
<1>1. a \in Int /\ Wrapped(n) = (a % Width) - I64Max - 1
  BY <1>0 DEF Wrapped, Width
<1> HIDE DEF Width
<1>2. a % Width \in 0 .. Width - 1
  <2> HIDE DEF a
  <2> QED BY <1>0, <1>1
<1>3. a = Width * (a \div Width) + (a % Width) /\ a \div Width \in Int
  <2> HIDE DEF a
  <2> QED BY <1>0, <1>1
<1>4. InWidth(Wrapped(n))
  <2> HIDE DEF a
  <2> QED BY <1>0, <1>1, <1>2 DEF InWidth
<1>5. Wrapped(n) = n + (-(a \div Width)) * Width
  <2> DEFINE q == a \div Width
             r == a % Width
             m == Width * q
  <2>1. (-q) * Width = -m
    <3> HIDE DEF a
    <3>1. q \in Int
      BY <1>3
    <3> HIDE DEF q
    <3> QED BY <3>1, <1>0
  <2>2. m \in Int
    <3> HIDE DEF a
    <3>1. q \in Int
      BY <1>3
    <3> HIDE DEF q
    <3> QED BY <3>1, <1>0
  <2>3. a = m + r /\ r \in Int
    BY <1>2, <1>3, <1>0
  <2> HIDE DEF m, q, r
  <2>4. Wrapped(n) = r - I64Max - 1
    BY <1>1 DEF r
  <2>5. Wrapped(n) = n + (-m)
    BY <2>2, <2>3, <2>4, <1>0
  <2> QED BY <2>1, <2>5 DEF q
<1>6. -(a \div Width) \in Int
  BY <1>3
<1> QED BY <1>4, <1>5, <1>6

\* A number of the width is what any number wraps to that differs by whole widths.
LEMMA WrappedOnly ==
    ASSUME PnlAssumption, NEW n \in Int, NEW m, InWidth(m), NEW k \in Int, m = n + k * Width
    PROVE  Wrapped(n) = m
<1>0. Width \in Int /\ m \in Int
  BY DEF PnlAssumption, Width, InWidth
<1>1. PICK j \in Int : Wrapped(n) = n + j * Width
  BY WrappedIs
<1>2. InWidth(Wrapped(n))
  BY WrappedIs
<1>3. Wrapped(n) \in Int
  BY <1>2 DEF InWidth
<1>4. m = Wrapped(n) + (k - j) * Width
  <2> HIDE DEF Width
  <2>1. (k - j) * Width = k * Width - j * Width /\ k * Width \in Int /\ j * Width \in Int
    BY <1>0
  <2> QED BY <2>1, <1>1, <1>3, <1>0
<1>5. k - j \in Int
  OBVIOUS
<1> HIDE DEF Width, Wrapped
<1> QED BY <1>2, <1>4, <1>5, OneInWidth

-----------------------------------------------------------------------------

\* Fills whose profit fits into the running total, which a call adds clamped.
Bookable == {r \in FillRecords : InWidth(r.pnl)}

\* A call that has a record at hand.
Bookkeeping == {"sequence", "order", "count", "credit", "day", "spent", "received", "prune",
                "late credit", "amend day"}
Amending == {"late credit", "amend day"}

\* The record a call has at hand fits its place.
CallBooks(c) ==
    /\ "at" \in DOMAIN c
    /\ c.at \in Bookkeeping => "rec" \in DOMAIN c /\ c.rec \in Bookable
    /\ c.at \in Amending => "new" \in DOMAIN c /\ c.new \in FillStatuses
    /\ c.at = "credit" => c.rec.status = "Confirmed"
    /\ c.at = "late credit" => c.rec.status = "Pending" /\ c.new = "Confirmed"

\* The profit that a call has entered in the running total and in no day yet.
Credited(c) ==
    IF \/ c.at = "day" /\ c.rec.status = "Confirmed"
       \/ c.at = "amend day" /\ c.rec.status = "Pending" /\ c.new = "Confirmed"
    THEN c.rec.pnl ELSE 0

\* The fill that a call has stored and not counted yet.
Uncounted(c) == IF c.at \in {"sequence", "order", "count"} THEN 1 ELSE 0

\* How often a call will count its fill for a token.
Unshared(c) ==
    IF c.at \in {"sequence", "order", "count", "credit", "day", "spent"} THEN 2
    ELSE IF c.at = "received" THEN 1 ELSE 0

\* These three over all calls, and the sums of the two books.
Ahead(calls) == SumOver([t \in PnlTasks |-> Credited(calls[t])], PnlTasks)
ToCount(calls) == SumOver([t \in PnlTasks |-> Uncounted(calls[t])], PnlTasks)
ToShare(calls) == SumOver([t \in PnlTasks |-> Unshared(calls[t])], PnlTasks)
DaySum(book) == SumOver([d \in DOMAIN book |-> book[d].pnl], DOMAIN book)
CoinSum(book) == SumOver([c \in DOMAIN book |-> book[c].fillCount], DOMAIN book)

DayEntries == [pnl : Int, fillCount : Nat, reverted : Nat]
CoinEntries == [pnl : Int, fillCount : Nat]

\* The types of what is summed.
BooksTyped ==
    /\ nextId \in Int /\ totalFills \in Int /\ unlisted \in Int /\ InWidth(realized)
    /\ \A id \in DOMAIN fills : fills[id] \in Bookable
    /\ IsFiniteSet(DOMAIN dayBook) /\ \A d \in DOMAIN dayBook : dayBook[d] \in DayEntries
    /\ IsFiniteSet(DOMAIN coinBook) /\ \A c \in DOMAIN coinBook : coinBook[c] \in CoinEntries

CallsTyped ==
    /\ call = [t \in PnlTasks |-> call[t]]
    /\ \A t \in PnlTasks : CallBooks(call[t])

\* The total is ahead of the days by what the calls have credited and not booked
\* yet; what is not counted yet is with the calls.
BooksAgree ==
    /\ \E k \in Int : realized = DaySum(dayBook) + unlisted + Ahead(call) + k * Width
    /\ totalFills + ToCount(call) = nextId - 1
    /\ TrackCoins => CoinSum(coinBook) + ToShare(call) = 2 * (nextId - 1)

\* What every step keeps of the books.
BooksInv == BooksTyped /\ CallsTyped /\ BooksAgree

\* What a call has still to write is a number.
LEMMA MeasuresTyped ==
    ASSUME NEW c, CallBooks(c)
    PROVE  Credited(c) \in Int /\ Uncounted(c) \in Int /\ Unshared(c) \in Int
<1>1. c.at \in Bookkeeping => c.rec.pnl \in Int
  BY DEF CallBooks, Bookable, InWidth
<1>2. Credited(c) = 0 \/ (c.at \in {"day", "amend day"} /\ Credited(c) = c.rec.pnl)
  <2> DEFINE credits == \/ c.at = "day" /\ c.rec.status = "Confirmed"
                        \/ c.at = "amend day" /\ c.rec.status = "Pending" /\ c.new = "Confirmed"
  <2>1. credits => c.at \in {"day", "amend day"}
    OBVIOUS
  <2>2. Credited(c) = IF credits THEN c.rec.pnl ELSE 0
    BY DEF Credited
  <2> HIDE DEF credits
  <2> QED BY <2>1, <2>2
<1>3. Credited(c) \in Int
  <2>1. CASE Credited(c) = 0
    BY <2>1
  <2>2. CASE c.at \in {"day", "amend day"} /\ Credited(c) = c.rec.pnl
    BY <1>1, <2>2 DEF Bookkeeping
  <2> QED BY <1>2, <2>1, <2>2
<1>4. Uncounted(c) \in Int
  BY DEF Uncounted
<1>5. Unshared(c) \in Int
  BY DEF Unshared
<1> QED BY <1>3, <1>4, <1>5

\* The sum of the days is a number.
LEMMA DaySumTyped ==
    ASSUME NEW book, IsFiniteSet(DOMAIN book), \A d \in DOMAIN book : book[d] \in DayEntries
    PROVE  DaySum(book) \in Int
<1>1. \A d \in DOMAIN book : book[d].pnl \in Int
  BY DEF DayEntries
<1> QED BY <1>1, SumType DEF DaySum

\* The sum of the tokens is a number.
LEMMA CoinSumTyped ==
    ASSUME NEW book, IsFiniteSet(DOMAIN book), \A d \in DOMAIN book : book[d] \in CoinEntries
    PROVE  CoinSum(book) \in Int
<1>1. \A d \in DOMAIN book : book[d].fillCount \in Int
  BY DEF CoinEntries
<1> QED BY <1>1, SumType DEF CoinSum

\* The sums over the calls are numbers.
LEMMA CallSumsTyped ==
    ASSUME PnlAssumption, NEW calls, \A t \in PnlTasks : CallBooks(calls[t])
    PROVE  Ahead(calls) \in Int /\ ToCount(calls) \in Int /\ ToShare(calls) \in Int
<1>1. \A t \in PnlTasks : /\ Credited(calls[t]) \in Int /\ Uncounted(calls[t]) \in Int
                          /\ Unshared(calls[t]) \in Int
  BY MeasuresTyped
<1>2. IsFiniteSet(PnlTasks)
  BY DEF PnlAssumption
<1>3. Ahead(calls) \in Int
  BY <1>1, <1>2, SumType DEF Ahead
<1>4. ToCount(calls) \in Int
  BY <1>1, <1>2, SumType DEF ToCount
<1>5. ToShare(calls) \in Int
  BY <1>1, <1>2, SumType DEF ToShare
<1> QED BY <1>3, <1>4, <1>5

\* One call changes, and with it the three sums over the calls.
LEMMA CallSums ==
    ASSUME PnlAssumption, CallsTyped, NEW t \in PnlTasks, NEW c, CallBooks(c),
           call' = [call EXCEPT ![t] = c]
    PROVE  /\ CallsTyped'
           /\ Ahead(call') = Ahead(call) - Credited(call[t]) + Credited(c)
           /\ ToCount(call') = ToCount(call) - Uncounted(call[t]) + Uncounted(c)
           /\ ToShare(call') = ToShare(call) - Unshared(call[t]) + Unshared(c)
<1>1. \A u \in PnlTasks : call'[u] = IF u = t THEN c ELSE call[u]
  BY DEF CallsTyped
<1>2. CallsTyped'
  BY <1>1 DEF CallsTyped
<1>3. \A u \in PnlTasks : CallBooks(call[u]) /\ CallBooks(call'[u])
  BY <1>1 DEF CallsTyped
<1>4. IsFiniteSet(PnlTasks)
  BY DEF PnlAssumption
<1>5. Ahead(call') = Ahead(call) - Credited(call[t]) + Credited(c)
  <2> DEFINE f == [u \in PnlTasks |-> Credited(call[u])]
             h == [u \in PnlTasks |-> Credited(call'[u])]
  <2>1. \A u \in PnlTasks : f[u] \in Int /\ h[u] \in Int
    BY <1>3, MeasuresTyped
  <2>2. \A u \in PnlTasks \ {t} : f[u] = h[u]
    BY <1>1
  <2>3. f[t] = Credited(call[t]) /\ h[t] = Credited(c)
    BY <1>1
  <2>4. Ahead(call) = SumOver(f, PnlTasks) /\ Ahead(call') = SumOver(h, PnlTasks)
    BY DEF Ahead
  <2> HIDE DEF f, h
  <2>5. SumOver(h, PnlTasks) = SumOver(f, PnlTasks) - f[t] + h[t]
    BY <2>1, <2>2, <1>4, SumChange
  <2> QED BY <2>3, <2>4, <2>5
<1>6. ToCount(call') = ToCount(call) - Uncounted(call[t]) + Uncounted(c)
  <2> DEFINE f == [u \in PnlTasks |-> Uncounted(call[u])]
             h == [u \in PnlTasks |-> Uncounted(call'[u])]
  <2>1. \A u \in PnlTasks : f[u] \in Int /\ h[u] \in Int
    BY <1>3, MeasuresTyped
  <2>2. \A u \in PnlTasks \ {t} : f[u] = h[u]
    BY <1>1
  <2>3. f[t] = Uncounted(call[t]) /\ h[t] = Uncounted(c)
    BY <1>1
  <2>4. ToCount(call) = SumOver(f, PnlTasks) /\ ToCount(call') = SumOver(h, PnlTasks)
    BY DEF ToCount
  <2> HIDE DEF f, h
  <2>5. SumOver(h, PnlTasks) = SumOver(f, PnlTasks) - f[t] + h[t]
    BY <2>1, <2>2, <1>4, SumChange
  <2> QED BY <2>3, <2>4, <2>5
<1>7. ToShare(call') = ToShare(call) - Unshared(call[t]) + Unshared(c)
  <2> DEFINE f == [u \in PnlTasks |-> Unshared(call[u])]
             h == [u \in PnlTasks |-> Unshared(call'[u])]
  <2>1. \A u \in PnlTasks : f[u] \in Int /\ h[u] \in Int
    BY <1>3, MeasuresTyped
  <2>2. \A u \in PnlTasks \ {t} : f[u] = h[u]
    BY <1>1
  <2>3. f[t] = Unshared(call[t]) /\ h[t] = Unshared(c)
    BY <1>1
  <2>4. ToShare(call) = SumOver(f, PnlTasks) /\ ToShare(call') = SumOver(h, PnlTasks)
    BY DEF ToShare
  <2> HIDE DEF f, h
  <2>5. SumOver(h, PnlTasks) = SumOver(f, PnlTasks) - f[t] + h[t]
    BY <2>1, <2>2, <1>4, SumChange
  <2> QED BY <2>3, <2>4, <2>5
<1> QED BY <1>2, <1>5, <1>6, <1>7

\* What the step of a call adds to the total it adds to the days or to what the
\* call has credited; and so for the counts of fills and of tokens.
TotalMoves(t, c) ==
    \E k \in Int : realized' - realized + Credited(call[t])
        = (DaySum(dayBook') - DaySum(dayBook)) + (unlisted' - unlisted) + Credited(c) + k * Width
CountMoves(t, c) ==
    totalFills' - totalFills + Uncounted(c) = Uncounted(call[t]) + (nextId' - nextId)
SharesMove(t, c) ==
    TrackCoins => CoinSum(coinBook') - CoinSum(coinBook) + Unshared(c)
                    = Unshared(call[t]) + 2 * (nextId' - nextId)

\* A step of one call keeps the books when it moves as much between the call
\* and the books as it adds to both.
LEMMA BooksKept ==
    ASSUME PnlAssumption, BooksInv, NEW t \in PnlTasks, NEW c, CallBooks(c),
           call' = [call EXCEPT ![t] = c], BooksTyped',
           TotalMoves(t, c), CountMoves(t, c), SharesMove(t, c)
    PROVE  BooksInv'
<1>1. /\ CallsTyped'
      /\ Ahead(call') = Ahead(call) - Credited(call[t]) + Credited(c)
      /\ ToCount(call') = ToCount(call) - Uncounted(call[t]) + Uncounted(c)
      /\ ToShare(call') = ToShare(call) - Unshared(call[t]) + Unshared(c)
  BY CallSums DEF BooksInv
<1>2. /\ DaySum(dayBook) \in Int /\ CoinSum(coinBook) \in Int
      /\ Ahead(call) \in Int /\ ToCount(call) \in Int /\ ToShare(call) \in Int
  BY DaySumTyped, CoinSumTyped, CallSumsTyped DEF BooksInv, BooksTyped, CallsTyped
<1>3. /\ DaySum(dayBook') \in Int /\ CoinSum(coinBook') \in Int
      /\ Ahead(call') \in Int /\ ToCount(call') \in Int /\ ToShare(call') \in Int
  BY <1>1, DaySumTyped, CoinSumTyped, CallSumsTyped DEF BooksTyped, CallsTyped
<1>4. /\ Credited(call[t]) \in Int /\ Uncounted(call[t]) \in Int /\ Unshared(call[t]) \in Int
      /\ Credited(c) \in Int /\ Uncounted(c) \in Int /\ Unshared(c) \in Int
  BY MeasuresTyped DEF BooksInv, CallsTyped
<1>5. /\ nextId \in Int /\ totalFills \in Int /\ unlisted \in Int /\ realized \in Int
      /\ nextId' \in Int /\ totalFills' \in Int /\ unlisted' \in Int /\ realized' \in Int
  BY DEF BooksInv, BooksTyped, InWidth
<1>6. Width \in Int
  BY DEF PnlAssumption, Width
<1>7. \E k \in Int : realized' = DaySum(dayBook') + unlisted' + Ahead(call') + k * Width
  <2>1. PICK k \in Int : realized = DaySum(dayBook) + unlisted + Ahead(call) + k * Width
    BY DEF BooksInv, BooksAgree
  <2>2. PICK j \in Int : realized' - realized + Credited(call[t])
               = (DaySum(dayBook') - DaySum(dayBook)) + (unlisted' - unlisted) + Credited(c) + j * Width
    BY DEF TotalMoves
  <2>3. /\ (k + j) * Width = k * Width + j * Width /\ k * Width \in Int /\ j * Width \in Int
        /\ k + j \in Int
    <3> HIDE DEF Width
    <3> QED BY <1>6
  <2> DEFINE kw == k * Width
             jw == j * Width
             tw == (k + j) * Width
  <2>4. realized = DaySum(dayBook) + unlisted + Ahead(call) + kw
    BY <2>1
  <2>5. realized' - realized + Credited(call[t])
               = (DaySum(dayBook') - DaySum(dayBook)) + (unlisted' - unlisted) + Credited(c) + jw
    BY <2>2
  <2>6. tw = kw + jw /\ kw \in Int /\ jw \in Int
    BY <2>3
  <2> HIDE DEF kw, jw, tw, Width, Ahead, DaySum, Credited
  <2>7. realized' = DaySum(dayBook') + unlisted' + Ahead(call') + tw
    BY <1>1, <1>2, <1>3, <1>4, <1>5, <2>4, <2>5, <2>6
  <2> QED BY <2>7, <2>3 DEF tw
<1>8. totalFills' + ToCount(call') = nextId' - 1
  <2>1. totalFills + ToCount(call) = nextId - 1
    BY DEF BooksInv, BooksAgree
  <2> QED BY <2>1, <1>1, <1>2, <1>3, <1>4, <1>5 DEF CountMoves
<1>9. TrackCoins => CoinSum(coinBook') + ToShare(call') = 2 * (nextId' - 1)
  <2>1. TrackCoins => CoinSum(coinBook) + ToShare(call) = 2 * (nextId - 1)
    BY DEF BooksInv, BooksAgree
  <2> QED BY <2>1, <1>1, <1>2, <1>3, <1>4, <1>5 DEF SharesMove
<1>10. BooksAgree'
  BY <1>7, <1>8, <1>9 DEF BooksAgree, DaySum, CoinSum, Ahead, ToCount, ToShare
<1> QED BY <1>1, <1>10 DEF BooksInv

\* A step that touches neither the books nor what its call still owes them.
LEMMA BooksUntouched ==
    ASSUME PnlAssumption, BooksInv, NEW t \in PnlTasks, NEW c, CallBooks(c),
           call' = [call EXCEPT ![t] = c], UNCHANGED <<books, nextId, unlisted>>,
           \A id \in DOMAIN fills' : fills'[id] \in Bookable,
           Credited(c) = Credited(call[t]), Uncounted(c) = Uncounted(call[t]),
           Unshared(c) = Unshared(call[t])
    PROVE  BooksInv'
<1>1. BooksTyped'
  BY DEF BooksInv, BooksTyped, books
<1>2. /\ Credited(call[t]) \in Int /\ Uncounted(call[t]) \in Int /\ Unshared(call[t]) \in Int
  BY MeasuresTyped DEF BooksInv, CallsTyped
<1>3. DaySum(dayBook) \in Int /\ CoinSum(coinBook) \in Int /\ nextId \in Int
      /\ totalFills \in Int /\ unlisted \in Int /\ realized \in Int
  BY DaySumTyped, CoinSumTyped DEF BooksInv, BooksTyped, InWidth
<1>4. dayBook' = dayBook /\ coinBook' = coinBook /\ realized' = realized
      /\ totalFills' = totalFills /\ nextId' = nextId /\ unlisted' = unlisted
  BY DEF books
<1>5. Width \in Int /\ 0 * Width = 0
  BY DEF PnlAssumption, Width
<1>6. TotalMoves(t, c)
  <2>1. realized' - realized + Credited(call[t])
        = (DaySum(dayBook') - DaySum(dayBook)) + (unlisted' - unlisted) + Credited(c) + 0 * Width
    <3> HIDE DEF DaySum, Credited, Width
    <3> QED BY <1>2, <1>3, <1>4, <1>5
  <2> QED BY <2>1 DEF TotalMoves
<1>7. CountMoves(t, c)
  BY <1>2, <1>3, <1>4 DEF CountMoves
<1>8. SharesMove(t, c)
  BY <1>2, <1>3, <1>4 DEF SharesMove
<1> QED BY <1>1, <1>6, <1>7, <1>8, BooksKept

\* Continue moves the call to its next place and keeps its variables.
LEMMA CallGoesOn ==
    ASSUME CallsTyped, NEW t \in PnlTasks, NEW label, Continue(t, label)
    PROVE  \E c : /\ call' = [call EXCEPT ![t] = c]
                  /\ DOMAIN c = DOMAIN call[t] /\ c.at = label
                  /\ \A x \in DOMAIN c : x # "at" => c[x] = call[t][x]
<1> DEFINE c == [call[t] EXCEPT !.at = label]
<1>1. call' = [call EXCEPT ![t] = c]
  BY DEF Continue, CallsTyped
<1>2. "at" \in DOMAIN call[t]
  BY DEF CallsTyped, CallBooks
<1>3. DOMAIN c = DOMAIN call[t] /\ c.at = label /\ \A x \in DOMAIN c : x # "at" => c[x] = call[t][x]
  BY <1>2
<1> QED BY <1>1, <1>3

\* Storing a fill keeps the books.
LEMMA StoreFillBooks ==
    ASSUME PnlAssumption, Records \subseteq Bookable, BooksInv, NEW t \in PnlTasks,
           NEW r \in Records, StoreFill(t, r)
    PROVE  BooksInv'
<1> DEFINE c == [at |-> "sequence", id |-> nextId, rec |-> r]
<1>1. CallBooks(c) /\ call' = [call EXCEPT ![t] = c]
  BY DEF CallBooks, StoreFill, Bookkeeping, Amending
<1>2. call[t].at = "idle"
  BY DEF StoreFill, At
<1>3. /\ Credited(call[t]) = 0 /\ Uncounted(call[t]) = 0 /\ Unshared(call[t]) = 0
      /\ Credited(c) = 0 /\ Uncounted(c) = 1 /\ Unshared(c) = 2
  BY <1>2 DEF Credited, Uncounted, Unshared
<1>4. dayBook' = dayBook /\ coinBook' = coinBook /\ realized' = realized
      /\ totalFills' = totalFills /\ nextId' = nextId + 1 /\ unlisted' = unlisted
      /\ fills' = With(fills, nextId, r)
  BY DEF StoreFill, books
<1>5. BooksTyped'
  <2>1. \A id \in DOMAIN fills' : fills'[id] \in Bookable
    BY <1>4 DEF BooksInv, BooksTyped, With
  <2> QED BY <2>1, <1>4 DEF BooksInv, BooksTyped
<1>6. DaySum(dayBook) \in Int /\ CoinSum(coinBook) \in Int /\ nextId \in Int
      /\ totalFills \in Int /\ unlisted \in Int /\ realized \in Int
  BY DaySumTyped, CoinSumTyped DEF BooksInv, BooksTyped, InWidth
<1>7. 0 * Width = 0
  BY DEF PnlAssumption, Width
<1> HIDE DEF c
<1>8. TotalMoves(t, c)
  <2>1. realized' - realized + Credited(call[t])
        = (DaySum(dayBook') - DaySum(dayBook)) + (unlisted' - unlisted) + Credited(c) + 0 * Width
    <3> HIDE DEF DaySum, Credited, Width
    <3> QED BY <1>3, <1>4, <1>6, <1>7
  <2> QED BY <2>1 DEF TotalMoves
<1>9. CountMoves(t, c)
  BY <1>3, <1>4, <1>6 DEF CountMoves
<1>10. SharesMove(t, c)
  BY <1>3, <1>4, <1>6 DEF SharesMove
<1> QED BY <1>1, <1>5, <1>8, <1>9, <1>10, BooksKept

\* Taking and putting a sequence number keep the books.
LEMMA SequenceBooks ==
    ASSUME PnlAssumption, BooksInv, NEW t \in PnlTasks, TakeSeq(t) \/ PutOrder(t)
    PROVE  BooksInv'
<1>0. CallsTyped /\ CallBooks(call[t]) /\ \A id \in DOMAIN fills : fills[id] \in Bookable
  BY DEF BooksInv, CallsTyped, BooksTyped
<1>1. CASE TakeSeq(t)
  <2> DEFINE c == [at |-> "order", id |-> call[t].id, rec |-> call[t].rec, seq |-> nextSeq]
  <2>1. call[t].at = "sequence" /\ call' = [call EXCEPT ![t] = c] /\ fills' = fills
        /\ UNCHANGED <<books, nextId, unlisted>>
    BY <1>1 DEF TakeSeq, At
  <2>2. CallBooks(c)
    BY <1>0, <2>1 DEF CallBooks, Bookkeeping, Amending
  <2>3. Credited(c) = Credited(call[t]) /\ Uncounted(c) = Uncounted(call[t])
        /\ Unshared(c) = Unshared(call[t])
    BY <2>1 DEF Credited, Uncounted, Unshared
  <2> HIDE DEF c
  <2> QED BY <1>0, <2>1, <2>2, <2>3, BooksUntouched
<1>2. CASE PutOrder(t)
  <2>1. call[t].at = "order" /\ Continue(t, "count") /\ fills' = fills
        /\ UNCHANGED <<books, nextId, unlisted>>
    BY <1>2 DEF PutOrder, At
  <2>2. PICK c : /\ call' = [call EXCEPT ![t] = c]
                 /\ DOMAIN c = DOMAIN call[t] /\ c.at = "count"
                 /\ \A x \in DOMAIN c : x # "at" => c[x] = call[t][x]
    BY <1>0, <2>1, CallGoesOn
  <2>3. CallBooks(c)
    BY <1>0, <2>1, <2>2 DEF CallBooks, Bookkeeping, Amending
  <2>4. Credited(c) = Credited(call[t]) /\ Uncounted(c) = Uncounted(call[t])
        /\ Unshared(c) = Unshared(call[t])
    BY <2>1, <2>2 DEF Credited, Uncounted, Unshared
  <2> QED BY <1>0, <2>1, <2>2, <2>3, <2>4, BooksUntouched
<1> QED BY <1>1, <1>2

\* A call that goes on to prune owes the books nothing.
LEMMA PruneFromBooks ==
    ASSUME NEW t \in PnlTasks, NEW seq, NEW end, PruneFrom(t, seq, end)
    PROVE  \E c : /\ call' = [call EXCEPT ![t] = c]
                  /\ CallBooks(c) /\ Credited(c) = 0 /\ Uncounted(c) = 0 /\ Unshared(c) = 0
<1> DEFINE c == IF seq < end THEN [at |-> "unlink", seq |-> seq, end |-> end] ELSE Idle
<1>1. call' = [call EXCEPT ![t] = c]
  BY DEF PruneFrom, Return
<1>2. c.at \in {"unlink", "idle"} /\ "at" \in DOMAIN c
  BY DEF Idle
<1> HIDE DEF c
<1>3. CallBooks(c) /\ Credited(c) = 0 /\ Uncounted(c) = 0 /\ Unshared(c) = 0
  BY <1>2 DEF CallBooks, Credited, Uncounted, Unshared, Bookkeeping, Amending
<1> QED BY <1>1, <1>3

\* A step of a prune keeps the books.
LEMMA PruneBooks ==
    ASSUME PnlAssumption, BooksInv, NEW t \in PnlTasks, PruneStep(t)
    PROVE  BooksInv'
<1>0. CallsTyped /\ CallBooks(call[t]) /\ \A id \in DOMAIN fills : fills[id] \in Bookable
  BY DEF BooksInv, CallsTyped, BooksTyped
<1>1. call[t].at \in {"prune", "unlink", "drop"} /\ UNCHANGED <<books, nextId, unlisted>>
  BY DEF PruneStep, PruneBegins, Unlink, DropFill, At
<1>2. Credited(call[t]) = 0 /\ Uncounted(call[t]) = 0 /\ Unshared(call[t]) = 0
  BY <1>1 DEF Credited, Uncounted, Unshared
<1>3. \A id \in DOMAIN fills' : fills'[id] \in Bookable
  BY <1>0 DEF PruneStep, PruneBegins, Unlink, DropFill, Without, Restrict, history
<1>4. \E c : /\ call' = [call EXCEPT ![t] = c]
             /\ CallBooks(c) /\ Credited(c) = 0 /\ Uncounted(c) = 0 /\ Unshared(c) = 0
  <2>1. CASE \E seq, end : PruneFrom(t, seq, end)
    BY <2>1, PruneFromBooks
  <2>2. CASE \E seq, end, id :
               call' = [call EXCEPT ![t] = [at |-> "drop", seq |-> seq, end |-> end, id |-> id]]
    <3>1. PICK seq, end, id :
               call' = [call EXCEPT ![t] = [at |-> "drop", seq |-> seq, end |-> end, id |-> id]]
      BY <2>2
    <3> DEFINE c == [at |-> "drop", seq |-> seq, end |-> end, id |-> id]
    <3>2. CallBooks(c) /\ Credited(c) = 0 /\ Uncounted(c) = 0 /\ Unshared(c) = 0
      BY DEF CallBooks, Credited, Uncounted, Unshared, Bookkeeping, Amending
    <3> QED BY <3>1, <3>2
  <2> QED BY <2>1, <2>2 DEF PruneStep, PruneBegins, Unlink, DropFill
<1> QED BY <1>1, <1>2, <1>3, <1>4, BooksUntouched

\* A new status keeps the books.
LEMMA UpdateStatusBooks ==
    ASSUME PnlAssumption, BooksInv, NEW t \in PnlTasks, NEW id \in Recorded,
           NEW new \in FillStatuses, UpdateStatus(t, id, new)
    PROVE  BooksInv'
<1> DEFINE confirmed == fills[id].status = "Pending" /\ new = "Confirmed"
           c == [at |-> IF confirmed THEN "late credit" ELSE "amend day",
                 rec |-> fills[id], new |-> new]
<1>1. call[t].at = "idle" /\ id \in DOMAIN fills /\ call' = [call EXCEPT ![t] = c]
      /\ fills' = [fills EXCEPT ![id].status = new] /\ UNCHANGED <<books, nextId, unlisted>>
  BY DEF UpdateStatus, At
<1>2. fills[id] \in Bookable
  BY <1>1 DEF BooksInv, BooksTyped
<1>3. CallBooks(c)
  BY <1>2 DEF CallBooks, Bookkeeping, Amending
<1>4. /\ Credited(call[t]) = 0 /\ Uncounted(call[t]) = 0 /\ Unshared(call[t]) = 0
      /\ Credited(c) = 0 /\ Uncounted(c) = 0 /\ Unshared(c) = 0
  BY <1>1 DEF Credited, Uncounted, Unshared
<1>5. \A i \in DOMAIN fills' : fills'[i] \in Bookable
  <2>1. [fills[id] EXCEPT !.status = new] \in Bookable
    BY <1>2 DEF Bookable, FillRecords, InWidth
  <2> QED BY <1>1, <2>1 DEF BooksInv, BooksTyped
<1> HIDE DEF c
<1> QED BY <1>1, <1>3, <1>4, <1>5, BooksUntouched

\* A day that is put changes the sums by its difference.
LEMMA DayPut ==
    ASSUME NEW book, IsFiniteSet(DOMAIN book), \A d \in DOMAIN book : book[d] \in DayEntries,
           NEW x, NEW v \in DayEntries
    PROVE  /\ IsFiniteSet(DOMAIN With(book, x, v))
           /\ \A d \in DOMAIN With(book, x, v) : With(book, x, v)[d] \in DayEntries
           /\ DaySum(With(book, x, v))
                = DaySum(book) - (IF x \in DOMAIN book THEN book[x].pnl ELSE 0) + v.pnl
<1> DEFINE S == DOMAIN book
           new == With(book, x, v)
           f == [d \in S |-> book[d].pnl]
           h == [d \in DOMAIN new |-> new[d].pnl]
<1>1. DOMAIN new = S \union {x} /\ new[x] = v /\ \A d \in S \ {x} : new[d] = book[d]
  BY DEF With
<1>2. IsFiniteSet(DOMAIN new)
  BY <1>1, FS_AddElement
<1>3. \A d \in DOMAIN new : new[d] \in DayEntries
  BY <1>1
<1>4. /\ \A d \in S : f[d] \in Int
      /\ \A d \in S \union {x} : h[d] \in Int
      /\ \A d \in S \ {x} : h[d] = f[d]
      /\ h[x] = v.pnl
      /\ x \in S => f[x] = book[x].pnl
  BY <1>1, <1>3 DEF DayEntries
<1>5. DaySum(book) = SumOver(f, S) /\ DaySum(new) = SumOver(h, S \union {x})
  BY <1>1 DEF DaySum
<1> HIDE DEF f, h, S, new
<1>6. SumOver(h, S \union {x}) = SumOver(f, S) - (IF x \in S THEN f[x] ELSE 0) + h[x]
  BY <1>4, SumPut DEF S
<1>7. (IF x \in S THEN f[x] ELSE 0) = (IF x \in S THEN book[x].pnl ELSE 0)
  BY <1>4
<1>8. DaySum(new) = DaySum(book) - (IF x \in S THEN book[x].pnl ELSE 0) + v.pnl
  BY <1>4, <1>5, <1>6, <1>7
<1> QED BY <1>2, <1>3, <1>8 DEF new, S

\* A token that is put changes the sum by its difference.
LEMMA CoinPut ==
    ASSUME NEW book, IsFiniteSet(DOMAIN book), \A d \in DOMAIN book : book[d] \in CoinEntries,
           NEW x, NEW v \in CoinEntries
    PROVE  /\ IsFiniteSet(DOMAIN With(book, x, v))
           /\ \A d \in DOMAIN With(book, x, v) : With(book, x, v)[d] \in CoinEntries
           /\ CoinSum(With(book, x, v))
                = CoinSum(book) - (IF x \in DOMAIN book THEN book[x].fillCount ELSE 0) + v.fillCount
<1> DEFINE S == DOMAIN book
           new == With(book, x, v)
           f == [d \in S |-> book[d].fillCount]
           h == [d \in DOMAIN new |-> new[d].fillCount]
<1>1. DOMAIN new = S \union {x} /\ new[x] = v /\ \A d \in S \ {x} : new[d] = book[d]
  BY DEF With
<1>2. IsFiniteSet(DOMAIN new)
  BY <1>1, FS_AddElement
<1>3. \A d \in DOMAIN new : new[d] \in CoinEntries
  BY <1>1
<1>4. /\ \A d \in S : f[d] \in Int
      /\ \A d \in S \union {x} : h[d] \in Int
      /\ \A d \in S \ {x} : h[d] = f[d]
      /\ h[x] = v.fillCount
      /\ x \in S => f[x] = book[x].fillCount
  BY <1>1, <1>3 DEF CoinEntries
<1>5. CoinSum(book) = SumOver(f, S) /\ CoinSum(new) = SumOver(h, S \union {x})
  BY <1>1 DEF CoinSum
<1> HIDE DEF f, h, S, new
<1>6. SumOver(h, S \union {x}) = SumOver(f, S) - (IF x \in S THEN f[x] ELSE 0) + h[x]
  BY <1>4, SumPut DEF S
<1>7. (IF x \in S THEN f[x] ELSE 0) = (IF x \in S THEN book[x].fillCount ELSE 0)
  BY <1>4
<1>8. CoinSum(new) = CoinSum(book) - (IF x \in S THEN book[x].fillCount ELSE 0) + v.fillCount
  BY <1>4, <1>5, <1>6, <1>7
<1> QED BY <1>2, <1>3, <1>8 DEF new, S

\* Counting a fill keeps the books.
LEMMA CountFillBooks ==
    ASSUME PnlAssumption, BooksInv, NEW t \in PnlTasks, CountFill(t)
    PROVE  BooksInv'
<1> DEFINE label == IF call[t].rec.status = "Confirmed" THEN "credit" ELSE "day"
<1>0. CallsTyped /\ CallBooks(call[t]) /\ BooksTyped
  BY DEF BooksInv, CallsTyped
<1>1. /\ call[t].at = "count" /\ Continue(t, label)
      /\ dayBook' = dayBook /\ coinBook' = coinBook /\ realized' = realized
      /\ totalFills' = totalFills + 1 /\ nextId' = nextId /\ unlisted' = unlisted /\ fills' = fills
  BY DEF CountFill, At, history
<1>2. PICK c : /\ call' = [call EXCEPT ![t] = c]
               /\ DOMAIN c = DOMAIN call[t] /\ c.at = label
               /\ \A x \in DOMAIN c : x # "at" => c[x] = call[t][x]
  BY <1>0, <1>1, CallGoesOn
<1>3. "rec" \in DOMAIN c /\ c.rec = call[t].rec /\ c.rec \in Bookable /\ "at" \in DOMAIN c
      /\ label = IF c.rec.status = "Confirmed" THEN "credit" ELSE "day"
  BY <1>0, <1>1, <1>2 DEF CallBooks, Bookkeeping
<1> HIDE DEF label
<1>4. CallBooks(c)
  BY <1>2, <1>3 DEF CallBooks, Amending
<1>5. /\ Credited(call[t]) = 0 /\ Uncounted(call[t]) = 1 /\ Unshared(call[t]) = 2
      /\ Credited(c) = 0 /\ Uncounted(c) = 0 /\ Unshared(c) = 2
  BY <1>1, <1>2, <1>3 DEF Credited, Uncounted, Unshared
<1>6. BooksTyped'
  BY <1>0, <1>1 DEF BooksTyped
<1>7. DaySum(dayBook) \in Int /\ CoinSum(coinBook) \in Int /\ nextId \in Int
      /\ totalFills \in Int /\ unlisted \in Int /\ realized \in Int
  BY <1>0, DaySumTyped, CoinSumTyped DEF BooksTyped, InWidth
<1>8. 0 * Width = 0
  BY DEF PnlAssumption, Width
<1>9. TotalMoves(t, c)
  <2>1. realized' - realized + Credited(call[t])
        = (DaySum(dayBook') - DaySum(dayBook)) + (unlisted' - unlisted) + Credited(c) + 0 * Width
    <3> HIDE DEF DaySum, Credited, Width
    <3> QED BY <1>1, <1>5, <1>7, <1>8
  <2> QED BY <2>1 DEF TotalMoves
<1>10. CountMoves(t, c)
  BY <1>1, <1>5, <1>7 DEF CountMoves
<1>11. SharesMove(t, c)
  BY <1>1, <1>5, <1>7 DEF SharesMove
<1> QED BY <1>2, <1>4, <1>6, <1>9, <1>10, <1>11, BooksKept

\* Crediting the total keeps the books.
LEMMA CreditBooks ==
    ASSUME PnlAssumption, BooksInv, NEW t \in PnlTasks, Credit(t)
    PROVE  BooksInv'
<1> DEFINE label == IF call[t].at = "credit" THEN "day" ELSE "amend day"
           profit == call[t].rec.pnl
<1>0. CallsTyped /\ CallBooks(call[t]) /\ BooksTyped
  BY DEF BooksInv, CallsTyped
<1>a. realized' = Wrapped(realized + Clamped(profit))
  BY DEF Credit
<1>1. /\ call[t].at \in {"credit", "late credit"} /\ Continue(t, label)
      /\ dayBook' = dayBook /\ coinBook' = coinBook
      /\ totalFills' = totalFills /\ nextId' = nextId /\ unlisted' = unlisted /\ fills' = fills
  BY DEF Credit, At, history
<1>b. CallsTyped /\ Continue(t, label)
  BY <1>0, <1>1
<1> HIDE DEF label
<1>2. PICK c : /\ call' = [call EXCEPT ![t] = c]
               /\ DOMAIN c = DOMAIN call[t] /\ c.at = label
               /\ \A x \in DOMAIN c : x # "at" => c[x] = call[t][x]
  BY <1>b, CallGoesOn
<1>3. "rec" \in DOMAIN c /\ c.rec = call[t].rec /\ c.rec \in Bookable /\ "at" \in DOMAIN c
  BY <1>0, <1>1, <1>2 DEF CallBooks, Bookkeeping
<1>4. CallBooks(c) /\ Credited(c) = profit /\ Uncounted(c) = Uncounted(call[t])
      /\ Unshared(c) = Unshared(call[t]) /\ Credited(call[t]) = 0
  <2>1. CASE call[t].at = "credit"
    <3>1. c.at = "day" /\ c.rec.status = "Confirmed"
      BY <1>0, <1>2, <1>3, <2>1 DEF CallBooks, label
    <3> QED BY <1>3, <2>1, <3>1 DEF CallBooks, Amending, Credited, Uncounted, Unshared
  <2>2. CASE call[t].at = "late credit"
    <3>1. c.at = "amend day" /\ c.rec.status = "Pending" /\ "new" \in DOMAIN c
          /\ c.new = "Confirmed" /\ c.new \in FillStatuses
      BY <1>0, <1>2, <1>3, <2>2 DEF CallBooks, Amending, label
    <3> QED BY <1>3, <2>2, <3>1 DEF CallBooks, Amending, Credited, Uncounted, Unshared
  <2> QED BY <1>1, <2>1, <2>2
<1>5. profit \in Int /\ Clamped(profit) = profit /\ realized \in Int
  <2>1. InWidth(profit) /\ InWidth(realized) /\ I64Max \in Nat
    BY <1>0, <1>3 DEF Bookable, BooksTyped, PnlAssumption
  <2> QED BY <2>1 DEF InWidth, Clamped
<1>6. PICK k \in Int : InWidth(realized') /\ realized' = realized + profit + k * Width
  <2> HIDE DEF profit
  <2>1. realized' = Wrapped(realized + profit)
    BY <1>a, <1>5, Zenon
  <2>2. realized + profit \in Int
    BY <1>5
  <2> QED BY <2>1, <2>2, WrappedIs
<1>7. BooksTyped'
  BY <1>0, <1>1, <1>6 DEF BooksTyped
<1>8. DaySum(dayBook) \in Int /\ CoinSum(coinBook) \in Int /\ nextId \in Int
      /\ totalFills \in Int /\ unlisted \in Int /\ realized' \in Int
      /\ Uncounted(c) \in Int /\ Unshared(c) \in Int
  BY <1>0, <1>4, <1>6, DaySumTyped, CoinSumTyped, MeasuresTyped DEF BooksTyped, InWidth
<1> HIDE DEF profit
<1>9. TotalMoves(t, c)
  <2>0. k * Width \in Int
    BY DEF PnlAssumption, Width
  <2>1. realized' - realized + Credited(call[t])
        = (DaySum(dayBook') - DaySum(dayBook)) + (unlisted' - unlisted) + Credited(c) + k * Width
    <3> DEFINE kw == k * Width
    <3>1. kw \in Int /\ realized' = realized + profit + kw
      BY <1>6, <2>0
    <3>a. Credited(c) = profit /\ Credited(call[t]) = 0 /\ dayBook' = dayBook /\ unlisted' = unlisted
      BY <1>1, <1>4
    <3> HIDE DEF DaySum, Credited, Width, kw
    <3>2. realized' - realized + Credited(call[t])
        = (DaySum(dayBook') - DaySum(dayBook)) + (unlisted' - unlisted) + Credited(c) + kw
      BY <1>5, <1>8, <3>1, <3>a
    <3> QED BY <3>2 DEF kw
  <2> QED BY <2>1 DEF TotalMoves
<1>10. CountMoves(t, c)
  <2>1. totalFills' = totalFills /\ nextId' = nextId /\ Uncounted(c) = Uncounted(call[t])
    BY <1>1, <1>4
  <2> QED BY <2>1, <1>8 DEF CountMoves
<1>11. SharesMove(t, c)
  <2>1. coinBook' = coinBook /\ nextId' = nextId /\ Unshared(c) = Unshared(call[t])
    BY <1>1, <1>4
  <2> QED BY <2>1, <1>8 DEF SharesMove
<1> QED BY <1>2, <1>4, <1>7, <1>9, <1>10, <1>11, BooksKept

\* Booking a day keeps the books.
LEMMA BookDayBooks ==
    ASSUME PnlAssumption, BooksInv, NEW t \in PnlTasks, BookDay(t)
    PROVE  BooksInv'
<1> DEFINE label == IF TrackCoins THEN "spent" ELSE "prune"
           r == call[t].rec
           v == Booked(DayOf(r.day), r)
<1>0. CallsTyped /\ CallBooks(call[t]) /\ BooksTyped
  BY DEF BooksInv, CallsTyped
<1>1. /\ call[t].at = "day" /\ Continue(t, label)
      /\ dayBook' = With(dayBook, r.day, v) /\ coinBook' = coinBook /\ realized' = realized
      /\ totalFills' = totalFills /\ nextId' = nextId /\ unlisted' = unlisted /\ fills' = fills
  BY DEF BookDay, At, history
<1>2. PICK c : /\ call' = [call EXCEPT ![t] = c]
               /\ DOMAIN c = DOMAIN call[t] /\ c.at = label
               /\ \A x \in DOMAIN c : x # "at" => c[x] = call[t][x]
  BY <1>0, <1>1, CallGoesOn
<1>3. "rec" \in DOMAIN c /\ c.rec = r /\ r \in Bookable /\ "at" \in DOMAIN c
  BY <1>0, <1>1, <1>2 DEF CallBooks, Bookkeeping
<1>4. CallBooks(c)
  BY <1>2, <1>3 DEF CallBooks, Amending
<1>5. /\ Credited(call[t]) = (IF r.status = "Confirmed" THEN r.pnl ELSE 0)
      /\ Uncounted(call[t]) = 0 /\ Unshared(call[t]) = 2
      /\ Credited(c) = 0 /\ Uncounted(c) = 0
      /\ TrackCoins => Unshared(c) = 2
  BY <1>1, <1>2 DEF Credited, Uncounted, Unshared
<1>6. r.pnl \in Int /\ DayOf(r.day) \in DayEntries
      /\ DayOf(r.day).pnl = (IF r.day \in DOMAIN dayBook THEN dayBook[r.day].pnl ELSE 0)
  BY <1>0, <1>3 DEF Bookable, InWidth, DayOf, Opened, BooksTyped, DayEntries
<1>7. v \in DayEntries /\ DayOf(r.day).pnl \in Int
      /\ v.pnl = DayOf(r.day).pnl + (IF r.status = "Confirmed" THEN r.pnl ELSE 0)
  <2> DEFINE day == DayOf(r.day)
  <2>1. day \in DayEntries /\ r.pnl \in Int
    BY <1>6
  <2> HIDE DEF day, r
  <2>2. Booked(day, r) \in DayEntries
        /\ Booked(day, r).pnl = day.pnl + (IF r.status = "Confirmed" THEN r.pnl ELSE 0)
    BY <2>1 DEF Booked, DayEntries
  <2>3. day.pnl \in Int
    BY <2>1 DEF DayEntries
  <2> QED BY <2>2, <2>3 DEF day, r
<1>8. /\ IsFiniteSet(DOMAIN dayBook') /\ \A d \in DOMAIN dayBook' : dayBook'[d] \in DayEntries
      /\ DaySum(dayBook') = DaySum(dayBook) + (IF r.status = "Confirmed" THEN r.pnl ELSE 0)
  <2> DEFINE x == r.day
  <2>1. IsFiniteSet(DOMAIN dayBook) /\ \A d \in DOMAIN dayBook : dayBook[d] \in DayEntries
    BY <1>0 DEF BooksTyped
  <2>2. dayBook' = With(dayBook, x, v) /\ v \in DayEntries
    BY <1>1, <1>7
  <2>3. DaySum(dayBook) \in Int
    BY <2>1, DaySumTyped
  <2> HIDE DEF v, x
  <2>4. /\ IsFiniteSet(DOMAIN dayBook') /\ \A d \in DOMAIN dayBook' : dayBook'[d] \in DayEntries
        /\ DaySum(dayBook') = DaySum(dayBook) - (IF x \in DOMAIN dayBook THEN dayBook[x].pnl ELSE 0) + v.pnl
    BY <2>1, <2>2, DayPut
  <2>5. (IF x \in DOMAIN dayBook THEN dayBook[x].pnl ELSE 0) = DayOf(r.day).pnl
    BY <1>6 DEF x
  <2> QED BY <2>3, <2>4, <2>5, <1>6, <1>7
<1> HIDE DEF v
<1>9. BooksTyped'
  BY <1>0, <1>1, <1>8 DEF BooksTyped
<1>10. DaySum(dayBook) \in Int /\ CoinSum(coinBook) \in Int /\ nextId \in Int
      /\ totalFills \in Int /\ unlisted \in Int /\ realized \in Int
  BY <1>0, DaySumTyped, CoinSumTyped DEF BooksTyped, InWidth
<1>11. 0 * Width = 0
  BY DEF PnlAssumption, Width
<1>12. TotalMoves(t, c)
  <2> DEFINE gain == IF r.status = "Confirmed" THEN r.pnl ELSE 0
  <2>1. gain \in Int /\ Credited(call[t]) = gain /\ DaySum(dayBook') = DaySum(dayBook) + gain
    BY <1>5, <1>6, <1>8
  <2>2. realized' - realized + Credited(call[t])
        = (DaySum(dayBook') - DaySum(dayBook)) + (unlisted' - unlisted) + Credited(c) + 0 * Width
    <3> HIDE DEF DaySum, Credited, Width, gain
    <3> QED BY <2>1, <1>1, <1>5, <1>10, <1>11
  <2> QED BY <2>2 DEF TotalMoves
<1>13. CountMoves(t, c)
  BY <1>1, <1>5, <1>10 DEF CountMoves
<1>14. SharesMove(t, c)
  BY <1>1, <1>5, <1>10 DEF SharesMove
<1> QED BY <1>2, <1>4, <1>9, <1>12, <1>13, <1>14, BooksKept

\* Booking a token keeps the books.
LEMMA BookCoinBooks ==
    ASSUME PnlAssumption, BooksInv, NEW t \in PnlTasks, NEW x \in Coins, BookCoin(t, x)
    PROVE  BooksInv'
<1> DEFINE r == call[t].rec
           share == IF r.status = "Confirmed" THEN Half(r.pnl) ELSE 0
           v == [pnl |-> CoinOf(x).pnl + share, fillCount |-> CoinOf(x).fillCount + 1]
<1>0. CallsTyped /\ CallBooks(call[t]) /\ BooksTyped
  BY DEF BooksInv, CallsTyped
<1>1. /\ coinBook' = With(coinBook, x, v) /\ dayBook' = dayBook /\ realized' = realized
      /\ totalFills' = totalFills /\ nextId' = nextId /\ unlisted' = unlisted /\ fills' = fills
  BY DEF BookCoin, history
<1>2. PICK label : /\ Continue(t, label)
                   /\ \/ call[t].at = "spent" /\ label = "received"
                      \/ call[t].at = "received" /\ label = "prune"
  BY DEF BookCoin, At
<1>3. PICK c : /\ call' = [call EXCEPT ![t] = c]
               /\ DOMAIN c = DOMAIN call[t] /\ c.at = label
               /\ \A y \in DOMAIN c : y # "at" => c[y] = call[t][y]
  BY <1>0, <1>2, CallGoesOn
<1>4. "rec" \in DOMAIN c /\ c.rec = r /\ r \in Bookable /\ "at" \in DOMAIN c
  BY <1>0, <1>2, <1>3 DEF CallBooks, Bookkeeping
<1>5. CallBooks(c)
  BY <1>2, <1>3, <1>4 DEF CallBooks, Amending
<1>6. /\ Credited(call[t]) = 0 /\ Credited(c) = 0
      /\ Uncounted(call[t]) = 0 /\ Uncounted(c) = 0
  BY <1>2, <1>3 DEF Credited, Uncounted
<1>7. Unshared(call[t]) \in Int /\ Unshared(c) \in Int /\ Unshared(c) + 1 = Unshared(call[t])
  BY <1>2, <1>3 DEF Unshared
<1>8. share \in Int
  <2>1. r.pnl \in Int
    BY <1>4 DEF Bookable, InWidth
  <2> HIDE DEF r
  <2> QED BY <2>1 DEF Half
<1>9. CoinOf(x) \in CoinEntries
      /\ CoinOf(x).fillCount = (IF x \in DOMAIN coinBook THEN coinBook[x].fillCount ELSE 0)
  BY <1>0 DEF CoinOf, BooksTyped, CoinEntries
<1>10. v \in CoinEntries /\ v.fillCount = CoinOf(x).fillCount + 1 /\ CoinOf(x).fillCount \in Int
  <2> HIDE DEF share
  <2>1. CoinOf(x).pnl \in Int /\ CoinOf(x).fillCount \in Nat
    BY <1>9 DEF CoinEntries
  <2>2. CoinOf(x).pnl + share \in Int /\ CoinOf(x).fillCount + 1 \in Nat
    BY <1>8, <2>1
  <2> QED BY <2>1, <2>2 DEF CoinEntries
<1> HIDE DEF v
<1>11. /\ IsFiniteSet(DOMAIN coinBook') /\ \A y \in DOMAIN coinBook' : coinBook'[y] \in CoinEntries
       /\ CoinSum(coinBook') = CoinSum(coinBook) + 1
  <2>1. IsFiniteSet(DOMAIN coinBook) /\ \A y \in DOMAIN coinBook : coinBook[y] \in CoinEntries
    BY <1>0 DEF BooksTyped
  <2>2. CoinSum(coinBook) \in Int
    BY <2>1, CoinSumTyped
  <2>3. /\ IsFiniteSet(DOMAIN coinBook') /\ \A y \in DOMAIN coinBook' : coinBook'[y] \in CoinEntries
        /\ CoinSum(coinBook')
             = CoinSum(coinBook) - (IF x \in DOMAIN coinBook THEN coinBook[x].fillCount ELSE 0)
                 + v.fillCount
    BY <1>1, <1>10, <2>1, CoinPut
  <2> QED BY <2>2, <2>3, <1>9, <1>10
<1>12. BooksTyped'
  BY <1>0, <1>1, <1>11 DEF BooksTyped
<1>13. DaySum(dayBook) \in Int /\ CoinSum(coinBook) \in Int /\ nextId \in Int
      /\ totalFills \in Int /\ unlisted \in Int /\ realized \in Int
  BY <1>0, DaySumTyped, CoinSumTyped DEF BooksTyped, InWidth
<1>14. 0 * Width = 0
  BY DEF PnlAssumption, Width
<1>15. TotalMoves(t, c)
  <2>1. realized' - realized + Credited(call[t])
        = (DaySum(dayBook') - DaySum(dayBook)) + (unlisted' - unlisted) + Credited(c) + 0 * Width
    <3>1. realized' = realized /\ dayBook' = dayBook /\ unlisted' = unlisted
      BY <1>1
    <3> HIDE DEF DaySum, Credited, Width
    <3> QED BY <3>1, <1>6, <1>13, <1>14
  <2> QED BY <2>1 DEF TotalMoves
<1>16. CountMoves(t, c)
  <2>1. totalFills' = totalFills /\ nextId' = nextId
    BY <1>1
  <2> QED BY <2>1, <1>6, <1>13 DEF CountMoves
<1>17. SharesMove(t, c)
  <2>1. nextId' = nextId
    BY <1>1
  <2> QED BY <2>1, <1>7, <1>11, <1>13 DEF SharesMove
<1> QED BY <1>3, <1>5, <1>12, <1>15, <1>16, <1>17, BooksKept

\* Amending a day keeps the books.
LEMMA AmendDayBooks ==
    ASSUME PnlAssumption, BooksInv, NEW t \in PnlTasks, AmendDay(t)
    PROVE  BooksInv'
<1> DEFINE r == call[t].rec
           new == call[t].new
           gain == IF r.status = "Pending" /\ new = "Confirmed" THEN r.pnl ELSE 0
           c == Idle
<1>0. CallsTyped /\ CallBooks(call[t]) /\ BooksTyped
  BY DEF BooksInv, CallsTyped
<1>1. /\ call[t].at = "amend day" /\ call' = [call EXCEPT ![t] = c]
      /\ coinBook' = coinBook /\ realized' = realized
      /\ totalFills' = totalFills /\ nextId' = nextId /\ fills' = fills
  BY DEF AmendDay, At, history, Return
<1>2. CallBooks(c)
  BY DEF CallBooks, Idle, Bookkeeping, Amending
<1>3. /\ Credited(call[t]) = gain /\ Credited(c) = 0
      /\ Uncounted(call[t]) = 0 /\ Uncounted(c) = 0
      /\ Unshared(call[t]) = 0 /\ Unshared(c) = 0
  BY <1>1 DEF Credited, Uncounted, Unshared, Idle
<1>4. r.pnl \in Int
  BY <1>0, <1>1 DEF CallBooks, Bookkeeping, Bookable, InWidth
<1>5. gain \in Int
  BY <1>4
<1>6. DaySum(dayBook) \in Int /\ CoinSum(coinBook) \in Int /\ nextId \in Int
      /\ totalFills \in Int /\ unlisted \in Int /\ realized \in Int
  BY <1>0, DaySumTyped, CoinSumTyped DEF BooksTyped, InWidth
<1>7. ASSUME NEW day \in DayEntries
      PROVE  /\ Amended(day, r.status, new, r.pnl) \in DayEntries
             /\ Amended(day, r.status, new, r.pnl).pnl = day.pnl + gain /\ day.pnl \in Int
  <2> DEFINE old == r.status
             profit == r.pnl
  <2>1. profit \in Int
    BY <1>4
  <2>2. gain = IF old = "Pending" /\ new = "Confirmed" THEN profit ELSE 0
    OBVIOUS
  <2> HIDE DEF old, new, profit, gain
  <2>3. Amended(day, old, new, profit) \in DayEntries
    BY <2>1 DEF Amended, DayEntries
  <2>4. Amended(day, old, new, profit).pnl = day.pnl + gain /\ day.pnl \in Int
    BY <2>1, <2>2 DEF Amended, DayEntries
  <2> QED BY <2>3, <2>4 DEF old, profit
<1>8. /\ IsFiniteSet(DOMAIN dayBook') /\ \A d \in DOMAIN dayBook' : dayBook'[d] \in DayEntries
      /\ DaySum(dayBook') \in Int /\ unlisted' \in Int
      /\ (DaySum(dayBook') - DaySum(dayBook)) + (unlisted' - unlisted) = gain
  <2>1. IsFiniteSet(DOMAIN dayBook) /\ \A d \in DOMAIN dayBook : dayBook[d] \in DayEntries
    BY <1>0 DEF BooksTyped
  <2>2. CASE r.day \in DOMAIN dayBook
    <3> DEFINE x == r.day
               v == Amended(dayBook[x], r.status, new, r.pnl)
    <3>1. dayBook' = [dayBook EXCEPT ![x] = v] /\ unlisted' = unlisted
      BY <2>2 DEF AmendDay
    <3>2. x \in DOMAIN dayBook /\ dayBook[x] \in DayEntries
      BY <2>1, <2>2
    <3>3. v \in DayEntries /\ v.pnl = dayBook[x].pnl + gain /\ dayBook[x].pnl \in Int
      BY <1>7, <3>2
    <3> HIDE DEF v, x, gain
    <3>4. dayBook' = With(dayBook, x, v)
      <4>1. DOMAIN dayBook \union {x} = DOMAIN dayBook
        BY <3>2
      <4> QED BY <3>1, <4>1 DEF With
    <3>5. /\ IsFiniteSet(DOMAIN dayBook') /\ \A d \in DOMAIN dayBook' : dayBook'[d] \in DayEntries
          /\ DaySum(dayBook') = DaySum(dayBook) - (IF x \in DOMAIN dayBook THEN dayBook[x].pnl ELSE 0)
                                  + v.pnl
      BY <2>1, <3>3, <3>4, DayPut
    <3>6. DaySum(dayBook') = DaySum(dayBook) + gain
      BY <3>2, <3>3, <3>5, <1>5, <1>6
    <3> QED BY <3>1, <3>5, <3>6, <1>5, <1>6
  <2>3. CASE r.day \notin DOMAIN dayBook
    <3>1. dayBook' = dayBook /\ unlisted' = unlisted + Amended(Opened, r.status, new, r.pnl).pnl
      BY <2>3 DEF AmendDay
    <3>2. Opened \in DayEntries /\ Opened.pnl = 0
      BY DEF Opened, DayEntries
    <3>3. Amended(Opened, r.status, new, r.pnl).pnl = gain
      BY <1>5, <1>7, <3>2
    <3> HIDE DEF gain
    <3>4. unlisted' = unlisted + gain
      BY <3>1, <3>3
    <3> QED BY <2>1, <3>1, <3>4, <1>5, <1>6
  <2> QED BY <2>2, <2>3
<1>9. BooksTyped'
  BY <1>0, <1>1, <1>8 DEF BooksTyped
<1>10. 0 * Width = 0
  BY DEF PnlAssumption, Width
<1> HIDE DEF c, gain
<1>11. TotalMoves(t, c)
  <2>1. realized' - realized + Credited(call[t])
        = (DaySum(dayBook') - DaySum(dayBook)) + (unlisted' - unlisted) + Credited(c) + 0 * Width
    <3>1. realized' = realized
      BY <1>1
    <3> HIDE DEF DaySum, Credited, Width
    <3> QED BY <3>1, <1>3, <1>5, <1>6, <1>8, <1>10
  <2> QED BY <2>1 DEF TotalMoves
<1>12. CountMoves(t, c)
  <2>1. totalFills' = totalFills /\ nextId' = nextId
    BY <1>1
  <2> QED BY <2>1, <1>3, <1>6 DEF CountMoves
<1>13. SharesMove(t, c)
  <2>1. coinBook' = coinBook /\ nextId' = nextId
    BY <1>1
  <2> QED BY <2>1, <1>3, <1>6 DEF SharesMove
<1> QED BY <1>1, <1>2, <1>9, <1>11, <1>12, <1>13, BooksKept

\* The books are empty and agree at the start.
LEMMA BooksInvInit == ASSUME PnlAssumption, PnlInit PROVE BooksInv
<1>1. I64Max \in Nat /\ IsFiniteSet(PnlTasks)
  BY DEF PnlAssumption
<1>2. DOMAIN dayBook = {} /\ DOMAIN coinBook = {} /\ DOMAIN fills = {}
  BY DEF PnlInit
<1>3. BooksTyped
  BY <1>1, <1>2, FS_EmptySet DEF BooksTyped, PnlInit, InWidth
<1>4. \A t \in PnlTasks : call[t] = Idle
  BY DEF PnlInit
<1>5. CallBooks(Idle) /\ Credited(Idle) = 0 /\ Uncounted(Idle) = 0 /\ Unshared(Idle) = 0
  BY DEF CallBooks, Idle, Bookkeeping, Amending, Credited, Uncounted, Unshared
<1>6. CallsTyped
  BY <1>5 DEF CallsTyped, PnlInit
<1>7. DaySum(dayBook) = 0 /\ CoinSum(coinBook) = 0
  BY <1>2, SumEmpty DEF DaySum, CoinSum
<1>8. Ahead(call) = 0 /\ ToCount(call) = 0 /\ ToShare(call) = 0
  BY <1>1, <1>4, <1>5, SumZero DEF Ahead, ToCount, ToShare
<1>9. 0 * Width = 0
  BY <1>1 DEF Width
<1>10. BooksAgree
  <2>1. realized = 0 /\ unlisted = 0 /\ totalFills = 0 /\ nextId = 1
    BY DEF PnlInit
  <2>2. realized = DaySum(dayBook) + unlisted + Ahead(call) + 0 * Width
    BY <2>1, <1>7, <1>8, <1>9
  <2> QED BY <2>1, <2>2, <1>7, <1>8 DEF BooksAgree
<1> QED BY <1>3, <1>6, <1>10 DEF BooksInv

\* Every step keeps the books.
LEMMA BooksInvStep ==
    ASSUME PnlAssumption, Records \subseteq Bookable, BooksInv, [PnlNext]_pnlVars
    PROVE  BooksInv'
<1>1. CASE UNCHANGED pnlVars
  BY <1>1 DEF pnlVars, BooksInv, BooksTyped, CallsTyped, BooksAgree, DaySum, CoinSum,
              Ahead, ToCount, ToShare
<1>2. ASSUME NEW t \in PnlTasks, NEW r \in Records, StoreFill(t, r) PROVE BooksInv'
  BY <1>2, StoreFillBooks
<1>3. ASSUME NEW t \in PnlTasks, TakeSeq(t) \/ PutOrder(t) PROVE BooksInv'
  BY <1>3, SequenceBooks
<1>4. ASSUME NEW t \in PnlTasks, CountFill(t) PROVE BooksInv'
  BY <1>4, CountFillBooks
<1>5. ASSUME NEW t \in PnlTasks, Credit(t) PROVE BooksInv'
  BY <1>5, CreditBooks
<1>6. ASSUME NEW t \in PnlTasks, BookDay(t) PROVE BooksInv'
  BY <1>6, BookDayBooks
<1>7. ASSUME NEW t \in PnlTasks, NEW x \in Coins, BookCoin(t, x) PROVE BooksInv'
  BY <1>7, BookCoinBooks
<1>8. ASSUME NEW t \in PnlTasks, PruneStep(t) PROVE BooksInv'
  BY <1>8, PruneBooks
<1>9. ASSUME NEW t \in PnlTasks, UpdateStep(t) PROVE BooksInv'
  BY <1>9, UpdateStatusBooks, AmendDayBooks DEF UpdateStep
<1> QED BY <1>1, <1>2, <1>3, <1>4, <1>5, <1>6, <1>7, <1>8, <1>9 DEF PnlNext, RecordStep

\* The folds of the property are the sums of the invariant.
LEMMA DaysFolded ==
    ASSUME NEW A, IsFiniteSet(A), \A x \in A : x[2].pnl \in Int
    PROVE  MapThenSumSet(LAMBDA d : d[2].pnl, A) = SumOver([x \in A |-> x[2].pnl], A)
<1> DEFINE f == [x \in A |-> x[2].pnl]
           Pick(s) == CHOOSE x \in s : TRUE
           Next1(g, s) == IF s = {} THEN 0 ELSE Pick(s)[2].pnl + g[s \ {Pick(s)}]
           it == CHOOSE g : g = [s \in SUBSET A |-> Next1(g, s)]
<1>1. MapThenSumSet(LAMBDA d : d[2].pnl, A) = it[A]
  BY DEF MapThenSumSet, MapThenFoldSet
<1>2. ASSUME NEW g PROVE [s \in SUBSET A |-> Next1(g, s)]
                          = [s \in SUBSET A |-> IF s = {} THEN 0 ELSE f[Pick(s)] + g[s \ {Pick(s)}]]
  <2>1. ASSUME NEW s \in SUBSET A, s # {} PROVE Pick(s)[2].pnl = f[Pick(s)]
    BY <2>1
  <2> HIDE DEF Pick
  <2> QED BY <2>1
<1>3. ASSUME NEW g PROVE SumsUp(g, f, A) <=> g = [s \in SUBSET A |-> Next1(g, s)]
  <2> HIDE DEF f
  <2> QED BY <1>2 DEF SumsUp
<1>4. PICK g : SumsUp(g, f, A)
  BY SumsExist
<1> DEFINE P(h) == h = [s \in SUBSET A |-> Next1(h, s)]
<1>5. P(g)
  BY <1>3, <1>4
<1>6. P(it)
  <2>1. it = CHOOSE h : P(h)
    OBVIOUS
  <2> HIDE DEF P, it
  <2> QED BY <2>1, <1>5
<1>7. SumsUp(it, f, A)
  BY <1>3, <1>6
<1>8. \A x \in A : f[x] \in Int
  OBVIOUS
<1> HIDE DEF it, f
<1>9. it[A] = SumOver(f, A)
  BY <1>7, <1>8, SumsAtTop
<1> QED BY <1>1, <1>9 DEF f

\* The fold over listed tokens is a sum.
LEMMA CoinsFolded ==
    ASSUME NEW A, IsFiniteSet(A), \A x \in A : x[2].fillCount \in Int
    PROVE  MapThenSumSet(LAMBDA c : c[2].fillCount, A) = SumOver([x \in A |-> x[2].fillCount], A)
<1> DEFINE f == [x \in A |-> x[2].fillCount]
           Pick(s) == CHOOSE x \in s : TRUE
           Next1(g, s) == IF s = {} THEN 0 ELSE Pick(s)[2].fillCount + g[s \ {Pick(s)}]
           it == CHOOSE g : g = [s \in SUBSET A |-> Next1(g, s)]
<1>1. MapThenSumSet(LAMBDA c : c[2].fillCount, A) = it[A]
  BY DEF MapThenSumSet, MapThenFoldSet
<1>2. ASSUME NEW g PROVE [s \in SUBSET A |-> Next1(g, s)]
                          = [s \in SUBSET A |-> IF s = {} THEN 0 ELSE f[Pick(s)] + g[s \ {Pick(s)}]]
  <2>1. ASSUME NEW s \in SUBSET A, s # {} PROVE Pick(s)[2].fillCount = f[Pick(s)]
    BY <2>1
  <2> HIDE DEF Pick
  <2> QED BY <2>1
<1>3. ASSUME NEW g PROVE SumsUp(g, f, A) <=> g = [s \in SUBSET A |-> Next1(g, s)]
  <2> HIDE DEF f
  <2> QED BY <1>2 DEF SumsUp
<1>4. PICK g : SumsUp(g, f, A)
  BY SumsExist
<1> DEFINE P(h) == h = [s \in SUBSET A |-> Next1(h, s)]
<1>5. P(g)
  BY <1>3, <1>4
<1>6. P(it)
  <2>1. it = CHOOSE h : P(h)
    OBVIOUS
  <2> HIDE DEF P, it
  <2> QED BY <2>1, <1>5
<1>7. SumsUp(it, f, A)
  BY <1>3, <1>6
<1>8. \A x \in A : f[x] \in Int
  OBVIOUS
<1> HIDE DEF it, f
<1>9. it[A] = SumOver(f, A)
  BY <1>7, <1>8, SumsAtTop
<1> QED BY <1>1, <1>9 DEF f

\* The listed days are those of the book.
LEMMA DaysListed ==
    ASSUME BooksTyped
    PROVE  /\ MapThenSumSet(LAMBDA d : d[2].pnl, AllDailyPnl) = DaySum(dayBook)
           /\ Cardinality(AllDailyPnl) = Cardinality(DOMAIN dayBook)
<1> DEFINE S == DOMAIN dayBook
           f == [d \in S |-> dayBook[d].pnl]
           p == [d \in S |-> <<d, dayBook[d]>>]
           T == {p[d] : d \in S}
           h == [x \in T |-> x[2].pnl]
<1>1. T = AllDailyPnl
  BY DEF AllDailyPnl
<1>2. IsFiniteSet(S) /\ \A d \in S : f[d] \in Int
  BY DEF BooksTyped, DayEntries
<1>3. \A d, e \in S : p[d] = p[e] => d = e
  OBVIOUS
<1>4. /\ \A d \in S : p[d] \in T /\ h[p[d]] = f[d]
      /\ \A y \in T : \E d \in S : y = p[d]
  OBVIOUS
<1>5. \A x \in T : x[2].pnl \in Int
  BY <1>2
<1>6. DaySum(dayBook) = SumOver(f, S)
  BY DEF DaySum
<1> HIDE DEF f, p, h, S, T
<1>7. IsFiniteSet(T) /\ Cardinality(T) = Cardinality(S) /\ SumOver(h, T) = SumOver(f, S)
  BY <1>2, <1>3, <1>4, SumRenamed
<1>8. MapThenSumSet(LAMBDA d : d[2].pnl, T) = SumOver(h, T)
  BY <1>5, <1>7, DaysFolded DEF h
<1> QED BY <1>1, <1>6, <1>7, <1>8 DEF S

\* The listed tokens are those of the book.
LEMMA CoinsListed ==
    ASSUME BooksTyped
    PROVE  /\ MapThenSumSet(LAMBDA c : c[2].fillCount, AllTokenPnl) = CoinSum(coinBook)
           /\ Cardinality(AllTokenPnl) = Cardinality(DOMAIN coinBook)
<1> DEFINE S == DOMAIN coinBook
           f == [d \in S |-> coinBook[d].fillCount]
           p == [d \in S |-> <<d, coinBook[d]>>]
           T == {p[d] : d \in S}
           h == [x \in T |-> x[2].fillCount]
<1>1. T = AllTokenPnl
  BY DEF AllTokenPnl
<1>2. IsFiniteSet(S) /\ \A d \in S : f[d] \in Int
  BY DEF BooksTyped, CoinEntries
<1>3. \A d, e \in S : p[d] = p[e] => d = e
  OBVIOUS
<1>4. /\ \A d \in S : p[d] \in T /\ h[p[d]] = f[d]
      /\ \A y \in T : \E d \in S : y = p[d]
  OBVIOUS
<1>5. \A x \in T : x[2].fillCount \in Int
  BY <1>2
<1>6. CoinSum(coinBook) = SumOver(f, S)
  BY DEF CoinSum
<1> HIDE DEF f, p, h, S, T
<1>7. IsFiniteSet(T) /\ Cardinality(T) = Cardinality(S) /\ SumOver(h, T) = SumOver(f, S)
  BY <1>2, <1>3, <1>4, SumRenamed
<1>8. MapThenSumSet(LAMBDA c : c[2].fillCount, T) = SumOver(h, T)
  BY <1>5, <1>7, CoinsFolded DEF h
<1> QED BY <1>1, <1>6, <1>7, <1>8 DEF S

\* Books in agreement give the total.
LEMMA BooksInvTotal == ASSUME PnlAssumption, BooksInv PROVE TotalFollowsDays
<1> SUFFICES ASSUME Quiet
             PROVE  /\ realized = Wrapped(MapThenSumSet(LAMBDA d : d[2].pnl, AllDailyPnl) + unlisted)
                    /\ totalFills = nextId - 1
                    /\ Cardinality(DOMAIN dayBook) = Cardinality(AllDailyPnl)
                    /\ Cardinality(DOMAIN coinBook) = Cardinality(AllTokenPnl)
                    /\ TrackCoins => MapThenSumSet(LAMBDA c : c[2].fillCount, AllTokenPnl)
                                        = 2 * totalFills
  BY DEF TotalFollowsDays, Summary
<1>1. IsFiniteSet(PnlTasks)
  BY DEF PnlAssumption
<1>2. \A t \in PnlTasks : Credited(call[t]) = 0 /\ Uncounted(call[t]) = 0 /\ Unshared(call[t]) = 0
  BY DEF Quiet, At, Credited, Uncounted, Unshared
<1>3. Ahead(call) = 0 /\ ToCount(call) = 0 /\ ToShare(call) = 0
  BY <1>1, <1>2, SumZero DEF Ahead, ToCount, ToShare
<1>4. DaySum(dayBook) \in Int /\ CoinSum(coinBook) \in Int /\ nextId \in Int
      /\ totalFills \in Int /\ unlisted \in Int /\ InWidth(realized)
  BY DaySumTyped, CoinSumTyped DEF BooksInv, BooksTyped
<1>5. PICK k \in Int : realized = DaySum(dayBook) + unlisted + Ahead(call) + k * Width
  BY DEF BooksInv, BooksAgree
<1>6. realized = Wrapped(DaySum(dayBook) + unlisted)
  <2> DEFINE n == DaySum(dayBook) + unlisted
  <2>1. n \in Int /\ n + 0 = n
    BY <1>4
  <2>2. realized = n + k * Width
    BY <1>3, <1>5, <2>1
  <2> HIDE DEF n
  <2>3. Wrapped(n) = realized
    BY <1>4, <2>1, <2>2, WrappedOnly
  <2> QED BY <2>3 DEF n
<1>7. totalFills = nextId - 1
  BY <1>3, <1>4 DEF BooksInv, BooksAgree
<1>8. TrackCoins => CoinSum(coinBook) = 2 * totalFills
  BY <1>3, <1>4, <1>7 DEF BooksInv, BooksAgree
<1> QED BY <1>6, <1>7, <1>8, DaysListed, CoinsListed DEF BooksInv

\* The running total is the sum of the listed days and everything that is
\* recorded is counted, once nobody is in the middle of a call, whatever the
\* tasks, records and updates; provided that no single profit leaves the range
\* of the total, which would enter it clamped and the day whole (pnl.rs:207-242,
\* 316-360).
THEOREM TotalIsSumOfDays ==
    ASSUME Records \subseteq Bookable
    PROVE  PnlSpec => []TotalFollowsDays
<1>1. PnlInit => BooksInv
  BY PnlAssumption, BooksInvInit
<1>2. BooksInv /\ [PnlNext]_pnlVars => BooksInv'
  BY PnlAssumption, BooksInvStep
<1>3. BooksInv => TotalFollowsDays
  BY PnlAssumption, BooksInvTotal
<1> QED BY <1>1, <1>2, <1>3, PTL DEF PnlSpec
=============================================================================
