--------------------- MODULE ConfirmationMonitor_proofs ---------------------
(***************************************************************************)
(* What the guard kept over two awaits is good for, for any number of      *)
(* transactions and tasks: a final status is not overwritten by an answer  *)
(* that was on its way, and a confirmation is real but for receipts        *)
(* without a block number and blocks dropped between the two answers.      *)
(***************************************************************************)
EXTENDS ConfirmationMonitor, TLAPS

Waits(c) == at[c] \in {"receipt", "head"}

\* A check that waits for an answer has a record that is not final, to itself.
Guards ==
    \A c \in Checkers : Waits(c) =>
        /\ IsPending(target[c])
        /\ \A d \in Checkers : Waits(d) /\ target[d] = target[c] => d = c

GuardInv == ConfirmTypeOK /\ Guards

\* An answer that is written into the record.
Answered(c) ==
    \/ \E numbered \in BOOLEAN : ReceiptArrives(c, numbered)
    \/ \E current \in 0 .. head : HeadArrives(c, current)

\* Every step keeps the types.
LEMMA TypeStep == ASSUME GuardInv, [ConfirmNext]_confirmVars PROVE ConfirmTypeOK'
<1> USE ConfirmationAssumption DEF GuardInv, ConfirmTypeOK
<1>1. ASSUME NEW t \in Trackers, NEW x \in Hashes, CheckLimit(t, x) PROVE ConfirmTypeOK'
  BY <1>1 DEF CheckLimit, Go, Tasks, pruner, world, past
<1>2. ASSUME NEW t \in Trackers, InsertRecord(t) PROVE ConfirmTypeOK'
  <2>1. [status |-> "pending", block |-> None, age |-> 0] \in Record
    BY DEF Record, Statuses
  <2> QED
    BY <1>2, <2>1 DEF InsertRecord, Go, Tasks, pruner, world
<1>3. ASSUME NEW c \in Checkers, NEW x \in Hashes, CheckDrops(c, x) PROVE ConfirmTypeOK'
  BY <1>3 DEF CheckDrops, SetStatus, IsPending, Record, Statuses, pruner, world, past
<1>4. ASSUME NEW c \in Checkers, NEW x \in Hashes, CheckBegins(c, x) PROVE ConfirmTypeOK'
  BY <1>4 DEF CheckBegins, Go, Tasks, pruner, world, past
<1>5. ASSUME NEW c \in Checkers, CheckGivesUp(c) PROVE ConfirmTypeOK'
  BY <1>5 DEF CheckGivesUp, Go, Tasks, pruner, world, past
<1>6. ASSUME NEW c \in Checkers, NEW numbered \in BOOLEAN, ReceiptArrives(c, numbered) PROVE ConfirmTypeOK'
  <2>1. IsPending(target[c])
    BY <1>6 DEF Guards, Waits, ReceiptArrives
  <2> QED
    BY <1>6, <2>1 DEF ReceiptArrives, IsPending, Go, Tasks, Record, Receipt, Statuses, pruner, world, past
<1>7. ASSUME NEW c \in Checkers, NEW n \in 0 .. head, HeadArrives(c, n) PROVE ConfirmTypeOK'
  <2>1. IsPending(target[c])
    BY <1>7 DEF Guards, Waits, HeadArrives
  <2> QED
    BY <1>7, <2>1 DEF HeadArrives, SetStatus, IsPending, Go, Tasks, Record, Statuses, pruner, world, past
<1>8. ASSUME NEW p \in Pruners, NEW x \in Hashes,
             PruneVisits(p, x) \/ RemoveBegins(p, x)
      PROVE  ConfirmTypeOK'
  BY <1>8 DEF PruneVisits, RemoveBegins, Go, Tasks, pruner, world, past
<1>9. ASSUME NEW p \in Pruners, NEW x \in Hashes, Removes(p, x) PROVE ConfirmTypeOK'
  BY <1>9 DEF Removes, Go, Tasks, pruner, world, past
<1>10. ASSUME NEW x \in Hashes, NEW ok \in BOOLEAN, Include(x, ok) PROVE ConfirmTypeOK'
  BY <1>10 DEF Include, Receipt, pruner, past
<1>11. CASE EmptyBlock
  BY <1>11 DEF EmptyBlock, pruner, past
<1>12. ASSUME NEW x \in Hashes, Reorg(x) PROVE ConfirmTypeOK'
  BY <1>12 DEF Reorg, pruner
<1>13. CASE Tick
  <2>1. ASSUME NEW x \in Hashes, records[x] # None, ~TimedOut(x)
        PROVE  [records[x] EXCEPT !.age = @ + 1] \in Record
    BY <2>1 DEF TimedOut, Record
  <2> QED
    BY <1>13, <2>1 DEF Tick, pruner, world, past
<1>14. CASE UNCHANGED confirmVars
  BY <1>14 DEF confirmVars
<1>15. ASSUME NEW p \in Pruners, PruneBegins(p) \/ RemoveEnds(p) PROVE ConfirmTypeOK'
  BY <1>15 DEF PruneBegins, RemoveEnds, Go, Tasks, pruner, world, past
<1> QED
  BY <1>1, <1>2, <1>3, <1>4, <1>5, <1>6, <1>7, <1>8, <1>9, <1>10, <1>11, <1>12, <1>13, <1>14, <1>15
     DEF ConfirmNext, TrackStep, CheckStep, Answer, PruneStep, Chain

\* A record that is updated stays a record.
LEMMA ReceiptKeeps ==
    ASSUME GuardInv, NEW c \in Checkers, Answered(c)
    PROVE  records'[target[c]] # None
<1> USE ConfirmationAssumption DEF GuardInv, ConfirmTypeOK
<1>1. target[c] \in Hashes /\ records[target[c]] \in Record
  BY DEF Answered, ReceiptArrives, HeadArrives, Guards, Waits, IsPending
<1>2. records'[target[c]] \in Record
  <2>1. ASSUME NEW numbered \in BOOLEAN, ReceiptArrives(c, numbered)
        PROVE  records'[target[c]] \in Record
    <3>1. receipts[target[c]] \in Receipt
      BY <1>1, <2>1 DEF ReceiptArrives
    <3> QED
      BY <1>1, <2>1, <3>1 DEF ReceiptArrives, Record, Statuses, Receipt
  <2>2. ASSUME NEW n \in 0 .. head, HeadArrives(c, n) PROVE records'[target[c]] \in Record
    BY <1>1, <2>2 DEF HeadArrives, SetStatus, Record, Statuses
  <2> QED
    BY <2>1, <2>2 DEF Answered
<1> QED
  BY <1>2

\* Time takes no record away.
LEMMA TickKeeps ==
    ASSUME GuardInv, NEW x \in Hashes, records[x] # None, Tick
    PROVE  records'[x] # None
<1> USE ConfirmationAssumption DEF GuardInv, ConfirmTypeOK
<1>1. CASE TimedOut(x)
  BY <1>1 DEF Tick
<1>2. CASE ~TimedOut(x)
  <2>1. records'[x] = [records[x] EXCEPT !.age = @ + 1] /\ records[x] \in Record
    BY <1>2 DEF Tick
  <2>2. records'[x] \in Record
    BY <1>2, <2>1 DEF TimedOut, Record
  <2> QED
    BY <2>2
<1> QED
  BY <1>1, <1>2

\* Who does not check leaves the waiting checks and their records alone.
LEMMA OthersKeepGuards ==
    ASSUME GuardInv,
           \A c \in Checkers : at'[c] = at[c] /\ target'[c] = target[c],
           \A x \in Hashes : Guarded(x) => IsPending(x)'
    PROVE  Guards'
BY DEF GuardInv, ConfirmTypeOK, Guards, Waits, Guarded, IsPending

\* Every step keeps the guards of the map consistent.
LEMMA GuardStep == ASSUME GuardInv, [ConfirmNext]_confirmVars PROVE GuardInv'
<1> USE ConfirmationAssumption DEF GuardInv, ConfirmTypeOK
<1>1. ASSUME NEW t \in Trackers, NEW x \in Hashes, CheckLimit(t, x) PROVE Guards'
  BY <1>1 DEF CheckLimit, Go, Tasks, Guards, Waits, IsPending, pruner, world, past
<1>2. ASSUME NEW t \in Trackers, InsertRecord(t) PROVE Guards'
  <2>1. \A c \in Checkers : at'[c] = at[c] /\ target'[c] = target[c]
    BY <1>2 DEF InsertRecord, Go, Tasks
  <2>2. ASSUME NEW x \in Hashes, Guarded(x) PROVE IsPending(x)'
    <3>1. IsPending(x) /\ records'[x] = records[x]
      BY <1>2, <2>2 DEF InsertRecord, Guarded, Guards, Waits
    <3> QED
      BY <3>1 DEF IsPending
  <2> QED
    BY <2>1, <2>2, OthersKeepGuards
<1>3. ASSUME NEW c \in Checkers, NEW x \in Hashes, CheckDrops(c, x) PROVE Guards'
  <2>1. \A d \in Checkers : at'[d] = at[d] /\ target'[d] = target[d]
    BY <1>3 DEF CheckDrops
  <2>2. ASSUME NEW y \in Hashes, Guarded(y) PROVE IsPending(y)'
    <3>1. IsPending(y) /\ records'[y] = records[y]
      BY <1>3, <2>2 DEF CheckDrops, SetStatus, Guarded, Guards, Waits
    <3> QED
      BY <3>1 DEF IsPending
  <2> QED
    BY <2>1, <2>2, OthersKeepGuards
<1>4. ASSUME NEW c \in Checkers, NEW x \in Hashes, CheckBegins(c, x) PROVE Guards'
  BY <1>4 DEF CheckBegins, Go, Tasks, Guards, Waits, Guarded, IsPending, pruner, world, past
<1>5. ASSUME NEW c \in Checkers, CheckGivesUp(c) PROVE Guards'
  BY <1>5 DEF CheckGivesUp, Go, Tasks, Guards, Waits, IsPending, pruner, world, past
<1>6. ASSUME NEW c \in Checkers, NEW numbered \in BOOLEAN, ReceiptArrives(c, numbered) PROVE Guards'
  <2>1. IsPending(target[c]) /\ target[c] \in Hashes
    BY <1>6 DEF Guards, Waits, ReceiptArrives
  <2>2. ASSUME NEW d \in Checkers, d # c, Waits(d) PROVE target[d] # target[c]
    BY <1>6, <2>2 DEF Guards, Waits, ReceiptArrives
  <2>3. \A x \in Hashes : x # target[c] => records'[x] = records[x]
    BY <1>6 DEF ReceiptArrives
  <2>4. receipts[target[c]].ok => records'[target[c]].status = records[target[c]].status
    BY <1>6, <2>1 DEF ReceiptArrives, IsPending, Record
  <2>5. records'[target[c]] # None
    BY <1>6, <2>1, ReceiptKeeps DEF Answered
  <2>6. /\ \A d \in Checkers : d # c => at'[d] = at[d]
        /\ target' = target
        /\ Waits(c)' => receipts[target[c]].ok
    BY <1>6 DEF ReceiptArrives, Go, Waits, Tasks
  <2>7. \A d \in Checkers : Waits(d)' => Waits(d)
    BY <1>6, <2>6 DEF Waits, ReceiptArrives
  <2>8. IsPending(target[c]) /\ Waits(c)' => IsPending(target[c])'
    BY <2>1, <2>4, <2>5, <2>6 DEF IsPending
  <2>9. ASSUME NEW d \in Checkers, d # c, Waits(d) PROVE IsPending(target[d])'
    <3>1. IsPending(target[d]) /\ target[d] \in Hashes
      BY <2>9 DEF Guards
    <3>2. target[d] # target[c] /\ target' = target
      BY <2>2, <2>6, <2>9
    <3>3. records'[target'[d]] = records[target[d]]
      BY <2>3, <3>1, <3>2
    <3> QED
      BY <3>1, <3>3 DEF IsPending
  <2> QED
    BY <2>1, <2>6, <2>7, <2>8, <2>9 DEF Guards
<1>7. ASSUME NEW c \in Checkers, NEW n \in 0 .. head, HeadArrives(c, n) PROVE Guards'
  <2>1. ASSUME NEW d \in Checkers, Waits(d)' PROVE Waits(d) /\ d # c /\ target[d] # target[c]
    BY <1>7, <2>1 DEF HeadArrives, Go, Waits, Tasks, Guards
  <2>2. \A x \in Hashes : x # target[c] => records'[x] = records[x]
    BY <1>7 DEF HeadArrives, SetStatus
  <2>3. target' = target
    BY <1>7 DEF HeadArrives
  <2> QED
    BY <2>1, <2>2, <2>3 DEF Guards, IsPending
<1>8. ASSUME NEW p \in Pruners, NEW x \in Hashes,
             PruneVisits(p, x) \/ RemoveBegins(p, x)
      PROVE  Guards'
  BY <1>8 DEF PruneVisits, RemoveBegins, Go, Tasks, Guards, Waits, IsPending, pruner, world, past
<1>9. ASSUME NEW p \in Pruners, NEW x \in Hashes, Removes(p, x) PROVE Guards'
  <2>1. \A d \in Checkers : at'[d] = at[d] /\ target'[d] = target[d]
    BY <1>9 DEF Removes
  <2>2. ASSUME NEW y \in Hashes, Guarded(y) PROVE IsPending(y)'
    <3>1. IsPending(y) /\ records'[y] = records[y]
      BY <1>9, <2>2 DEF Removes, Guarded, Guards, Waits
    <3> QED
      BY <3>1 DEF IsPending
  <2> QED
    BY <2>1, <2>2, OthersKeepGuards
<1>10. ASSUME UNCHANGED <<records, at, target>> PROVE Guards'
  BY <1>10 DEF Guards, Waits, IsPending
<1>11. ASSUME Tick PROVE Guards'
  <2>1. \A d \in Checkers : at'[d] = at[d] /\ target'[d] = target[d]
    BY <1>11 DEF Tick
  <2>2. ASSUME NEW y \in Hashes, Guarded(y) PROVE IsPending(y)'
    <3>1. IsPending(y)
      BY <2>2 DEF Guarded, Guards, Waits
    <3>2. records[y] \in Record /\ records'[y] \in {records[y], [records[y] EXCEPT !.age = @ + 1]}
      BY <1>11, <3>1 DEF Tick, IsPending
    <3>3. records'[y].status = records[y].status
      BY <3>2 DEF Record
    <3>4. records'[y] # None
      BY <1>11, <3>1, TickKeeps DEF IsPending
    <3> QED
      BY <3>1, <3>3, <3>4 DEF IsPending
  <2> QED
    BY <2>1, <2>2, OthersKeepGuards
<1>12. ASSUME NEW p \in Pruners, PruneBegins(p) \/ RemoveEnds(p) PROVE Guards'
  BY <1>12 DEF PruneBegins, RemoveEnds, Go, Tasks, Guards, Waits, IsPending, pruner, world, past
<1>13. ASSUME NEW x \in Hashes, (\E ok \in BOOLEAN : Include(x, ok)) \/ Reorg(x)
       PROVE  UNCHANGED <<records, at, target>>
  BY <1>13 DEF Include, Reorg
<1>14. EmptyBlock \/ UNCHANGED confirmVars => UNCHANGED <<records, at, target>>
  BY DEF EmptyBlock, confirmVars
<1> QED
  BY <1>1, <1>2, <1>3, <1>4, <1>5, <1>6, <1>7, <1>8, <1>9, <1>10, <1>11, <1>12, <1>13, <1>14, TypeStep
     DEF ConfirmNext, TrackStep, CheckStep, Answer, PruneStep, Chain

\* The guards are consistent at the start.
LEMMA GuardInit == ConfirmInit => GuardInv
BY ConfirmationAssumption DEF ConfirmInit, GuardInv, ConfirmTypeOK, Guards, Waits, Tasks

\* The guards of the map are consistent in every reachable state.
LEMMA GuardInvariant == ConfirmSpec => []GuardInv
<1> QED
  BY GuardInit, GuardStep, PTL DEF ConfirmSpec

\* Every variable of ConfirmationMonitor has its type (confirmation.rs:60-100); a
\* check never writes to a record that was removed while it waited.
THEOREM TypeCorrect == ConfirmSpec => []ConfirmTypeOK
<1>1. GuardInv => ConfirmTypeOK
  BY DEF GuardInv
<1> QED
  BY <1>1, GuardInvariant, PTL

-----------------------------------------------------------------------------
(* A final status                                                          *)

\* The steps that write to the map.
LEMMA RecordWriters ==
    ASSUME ConfirmNext
    PROVE  \/ \E t \in Trackers : InsertRecord(t)
           \/ \E c \in Checkers :
                (\E y \in Hashes : CheckDrops(c, y)) \/ Answered(c)
           \/ \E p \in Pruners, y \in Hashes : Removes(p, y)
           \/ Tick
           \/ records' = records
BY DEF Answered, ConfirmNext, TrackStep, CheckStep, Answer, PruneStep, Chain, CheckLimit, CheckBegins,
   CheckGivesUp, PruneBegins, PruneVisits, RemoveBegins, RemoveEnds, Include, EmptyBlock, Reorg

\* A final status is left by a removal or a new track_transaction only.
LEMMA FinalStep ==
    ASSUME GuardInv, ConfirmNext, NEW x \in Hashes, IsFinal(x)
    PROVE  \/ records'[x] = None
           \/ records'[x].status = records[x].status
           \/ \E t \in Trackers : InsertRecord(t) /\ target[t] = x
<1> USE ConfirmationAssumption DEF GuardInv, ConfirmTypeOK
<1>1. ASSUME NEW t \in Trackers, InsertRecord(t), target[t] # x PROVE records'[x] = records[x]
  BY <1>1 DEF InsertRecord
<1>2. ASSUME NEW c \in Checkers, NEW y \in Hashes, CheckDrops(c, y) PROVE records'[x] = records[x]
  BY <1>2 DEF CheckDrops, SetStatus, IsFinal, IsPending
<1>3. ASSUME NEW c \in Checkers, Answered(c)
      PROVE  records'[x] = records[x]
  <2>1. target[c] # x
    BY <1>3 DEF Answered, ReceiptArrives, HeadArrives, Guards, Waits, IsFinal, IsPending
  <2>2. ASSUME NEW numbered \in BOOLEAN, ReceiptArrives(c, numbered) PROVE records'[x] = records[x]
    BY <2>1, <2>2 DEF ReceiptArrives
  <2>3. ASSUME NEW n \in 0 .. head, HeadArrives(c, n) PROVE records'[x] = records[x]
    BY <2>1, <2>3 DEF HeadArrives, SetStatus
  <2> QED
    BY <1>3, <2>2, <2>3 DEF Answered
<1>4. ASSUME NEW p \in Pruners, NEW y \in Hashes, Removes(p, y)
      PROVE  records'[x] = None \/ records'[x] = records[x]
  BY <1>4 DEF Removes
<1>5. CASE Tick
  <2>1. /\ records[x] \in Record
        /\ records'[x] \in {records[x], [records[x] EXCEPT !.age = @ + 1]}
    BY <1>5 DEF Tick, IsFinal
  <2> QED
    BY <2>1 DEF Record
<1>6. CASE records' = records
  BY <1>6
<1>7. \/ \E t \in Trackers : InsertRecord(t)
      \/ \E c \in Checkers : (\E y \in Hashes : CheckDrops(c, y)) \/ Answered(c)
      \/ \E p \in Pruners, y \in Hashes : Removes(p, y)
      \/ Tick
      \/ records' = records
  BY RecordWriters
<1> QED
  BY <1>1, <1>2, <1>3, <1>4, <1>5, <1>6, <1>7

\* Only a new track_transaction takes a record out of a final status: no answer
\* awaited since before it was final is written over it (confirmation.rs:172-286).
THEOREM FinalStays == ConfirmSpec => FinalIsFinal
<1>1. ASSUME GuardInv, [ConfirmNext]_confirmVars
      PROVE  [\A x \in Hashes : IsFinal(x) =>
                  \/ records'[x] = None
                  \/ records'[x].status = records[x].status
                  \/ \E t \in Trackers : InsertRecord(t) /\ target[t] = x]_confirmVars
  BY <1>1, FinalStep
<1> QED
  BY <1>1, GuardInvariant, PTL DEF ConfirmSpec, FinalIsFinal

-----------------------------------------------------------------------------
(* Confirmations                                                           *)

\* Between the receipt and the block number the block of a record that is not
\* shaken is the one the chain still has, and no block is above the head.
Seen ==
    /\ \A x \in Hashes : receipts[x] # None => receipts[x].block <= head
    /\ \A c \in Checkers : at[c] = "head" /\ target[c] \notin shaken =>
         LET x == target[c] IN
         receipts[x] # None /\ receipts[x].ok /\ records[x].block = receipts[x].block

\* Every step keeps what a check has seen of the chain true.
LEMMA SeenStep ==
    ASSUME GuardInv, Seen, [ConfirmNext]_confirmVars
    PROVE  Seen'
<1> USE ConfirmationAssumption DEF GuardInv, ConfirmTypeOK
<1>1. ASSUME NEW t \in Trackers, InsertRecord(t) PROVE Seen'
  BY <1>1 DEF InsertRecord, Go, Tasks, Seen, Guarded, world
<1>2. ASSUME NEW c \in Checkers, NEW x \in Hashes, CheckDrops(c, x) PROVE Seen'
  BY <1>2 DEF CheckDrops, SetStatus, Seen, Record, IsPending, world, past
<1>3. ASSUME NEW c \in Checkers, NEW numbered \in BOOLEAN, ReceiptArrives(c, numbered) PROVE Seen'
  <2>1. /\ target[c] \in Hashes /\ records[target[c]] \in Record /\ receipts[target[c]] # None
        /\ UNCHANGED <<target, receipts, head>>
    BY <1>3 DEF ReceiptArrives, Guards, Waits, IsPending, world
  <2>2. numbered => records'[target[c]].block = receipts[target[c]].block
    BY <1>3, <2>1 DEF ReceiptArrives, Record
  <2>3. /\ at'[c] = "head" => receipts[target[c]].ok /\ (numbered \/ target[c] \in shaken')
        /\ shaken \subseteq shaken'
    BY <1>3 DEF ReceiptArrives, Go, Tasks
  <2>4. ASSUME NEW d \in Checkers, at'[d] = "head", d # c
        PROVE  at[d] = "head" /\ target[d] # target[c]
    BY <1>3, <2>4 DEF ReceiptArrives, Go, Tasks, Guards, Waits
  <2>5. \A x \in Hashes : x # target[c] => records'[x] = records[x]
    BY <1>3 DEF ReceiptArrives
  <2> QED
    BY <2>1, <2>2, <2>3, <2>4, <2>5 DEF Seen
\* A check ends: the record it worked on is nobody's any more.
<1>4. ASSUME NEW c \in Checkers,
             CheckGivesUp(c) \/ \E n \in 0 .. head : HeadArrives(c, n)
      PROVE  Seen'
  <2>1. ASSUME NEW d \in Checkers, at'[d] = "head" PROVE at[d] = "head" /\ target[d] # target[c]
    BY <1>4, <2>1 DEF CheckGivesUp, HeadArrives, Go, Tasks, Guards, Waits
  <2>2. \A x \in Hashes : x # target[c] => records'[x] = records[x]
    BY <1>4 DEF CheckGivesUp, HeadArrives, SetStatus
  <2>3. shaken' = shaken \ {target[c]} /\ UNCHANGED <<target, receipts, head>>
    BY <1>4 DEF CheckGivesUp, HeadArrives, world
  <2> QED
    BY <2>1, <2>2, <2>3 DEF Seen
<1>5. ASSUME NEW p \in Pruners, NEW x \in Hashes, Removes(p, x) PROVE Seen'
  BY <1>5 DEF Removes, Seen, Guarded, world
<1>6. ASSUME NEW x \in Hashes, NEW ok \in BOOLEAN, Include(x, ok) PROVE Seen'
  <2>1. ASSUME NEW y \in Hashes, receipts[y] # None PROVE receipts'[y] = receipts[y] /\ y # x
    BY <1>6, <2>1 DEF Include
  <2>2. \A y \in Hashes : receipts'[y] # None => receipts'[y].block <= head'
    BY <1>6 DEF Include, Seen, Receipt
  <2> QED
    BY <1>6, <2>1, <2>2 DEF Include, Seen, past
<1>7. CASE EmptyBlock
  <2>1. \A y \in Hashes : receipts[y] # None => receipts[y] \in Receipt
    OBVIOUS
  <2> QED
    BY <1>7, <2>1 DEF EmptyBlock, Seen, Receipt, past
\* A block that is dropped shakes the check that has its receipt.
<1>8. ASSUME NEW x \in Hashes, Reorg(x) PROVE Seen'
  <2>1. ASSUME NEW c \in Checkers, at'[c] = "head", target'[c] \notin shaken'
        PROVE  at[c] = "head" /\ target[c] \notin shaken /\ target[c] # x
    BY <1>8, <2>1 DEF Reorg, Counting
  <2> QED
    BY <1>8, <2>1 DEF Reorg, Seen
<1>9. CASE Tick
  <2>1. ASSUME NEW x \in Hashes, records[x] # None PROVE records'[x].block = records[x].block
    <3>1. /\ records[x] \in Record
          /\ records'[x] \in {records[x], [records[x] EXCEPT !.age = @ + 1]}
      BY <1>9, <2>1 DEF Tick
    <3> QED
      BY <3>1 DEF Record
  <2> QED
    BY <1>9, <2>1 DEF Tick, Seen, Guards, Waits, IsPending, world, past
<1>10. ASSUME UNCHANGED <<records, receipts, head, shaken>>,
              \A c \in Checkers : at'[c] = "head" => at[c] = "head" /\ target'[c] = target[c]
       PROVE  Seen'
  BY <1>10 DEF Seen
<1>11. ASSUME NEW c \in Checkers, NEW x \in Hashes, CheckBegins(c, x) PROVE Seen'
  BY <1>10, <1>11 DEF CheckBegins, Go, Tasks, world, past
<1>12. ASSUME NEW t \in Trackers, NEW x \in Hashes, CheckLimit(t, x) PROVE Seen'
  BY <1>10, <1>12 DEF CheckLimit, Go, Tasks, world, past
<1>13. ASSUME NEW p \in Pruners,
              \/ PruneBegins(p) \/ RemoveEnds(p)
              \/ \E x \in Hashes : PruneVisits(p, x) \/ RemoveBegins(p, x)
       PROVE  Seen'
  BY <1>10, <1>13 DEF PruneBegins, RemoveEnds, PruneVisits, RemoveBegins, Go, Tasks, world, past
<1>14. CASE UNCHANGED confirmVars
  BY <1>14 DEF confirmVars, Seen
<1> QED
  BY <1>1, <1>2, <1>3, <1>4, <1>5, <1>6, <1>7, <1>8, <1>9, <1>11, <1>12, <1>13, <1>14
     DEF ConfirmNext, TrackStep, CheckStep, Answer, PruneStep, Chain

\* Only the block number makes a record Confirmed.
LEMMA HeadConfirms ==
    ASSUME GuardInv, ConfirmNext, NEW x \in Hashes, Confirms(x)
    PROVE  \E c \in Checkers, n \in 0 .. head : HeadArrives(c, n) /\ target[c] = x
<1> USE ConfirmationAssumption DEF GuardInv, ConfirmTypeOK, Confirms
<1>1. records'[x] # records[x]
  BY DEF IsFinal, Final
<1>2. ASSUME NEW t \in Trackers, InsertRecord(t) PROVE FALSE
  BY <1>1, <1>2 DEF InsertRecord
<1>3. ASSUME NEW c \in Checkers, NEW y \in Hashes, CheckDrops(c, y) PROVE FALSE
  <2>1. x = y /\ records[y] \in Record
    BY <1>1, <1>3 DEF CheckDrops, SetStatus, IsPending
  <2> QED
    BY <1>3, <2>1 DEF CheckDrops, SetStatus, Record
<1>4. ASSUME NEW c \in Checkers, NEW numbered \in BOOLEAN, ReceiptArrives(c, numbered) PROVE FALSE
  <2>1. x = target[c]
    BY <1>1, <1>4 DEF ReceiptArrives
  <2>2. records[x] \in Record /\ records[x].status # "confirmed"
    BY <1>4, <2>1 DEF ReceiptArrives, Guards, Waits, IsPending, Final
  <2>3. records'[x].status \in {records[x].status, "reverted"}
    BY <1>4, <2>1, <2>2 DEF ReceiptArrives, Record
  <2> QED
    BY <2>2, <2>3
<1>5. ASSUME NEW p \in Pruners, NEW y \in Hashes, Removes(p, y) PROVE FALSE
  BY <1>1, <1>5 DEF Removes
<1>6. ASSUME Tick PROVE FALSE
  <2>1. records[x] \in Record /\ records'[x] = [records[x] EXCEPT !.age = @ + 1]
    BY <1>1, <1>6 DEF Tick
  <2>2. records'[x].status = records[x].status
    BY <2>1 DEF Record
  <2> QED
    BY <2>1, <2>2 DEF IsFinal, Final
<1>7. ASSUME NEW c \in Checkers, NEW n \in 0 .. head, HeadArrives(c, n) PROVE target[c] = x
  BY <1>1, <1>7 DEF HeadArrives, SetStatus
<1> QED
  BY <1>1, <1>2, <1>3, <1>4, <1>5, <1>6, <1>7, RecordWriters DEF Answered

\* A record becomes Confirmed only when the chain has its transaction with the
\* required confirmations, whenever blocks are dropped and however far behind the
\* node is, but for a receipt without a block number and a block dropped between
\* the two answers (confirmation.rs:199-271).
THEOREM ConfirmedReally == ConfirmSpec => ConfirmedIsDeep
<1> USE ConfirmationAssumption
<1>1. ConfirmInit => Seen
  BY DEF ConfirmInit, Seen, Tasks
<1>2. GuardInv /\ Seen /\ [ConfirmNext]_confirmVars => Seen'
  BY SeenStep
<1>3. ASSUME GuardInv, Seen, ConfirmNext, NEW x \in Hashes, Confirms(x), x \notin shaken
      PROVE  Deep(x)
  <2> USE <1>3 DEF GuardInv, ConfirmTypeOK
  <2>1. PICK c \in Checkers, n \in 0 .. head : HeadArrives(c, n) /\ target[c] = x
    BY HeadConfirms
  <2>2. /\ at[c] = "head" /\ records[x] \in Record
        /\ receipts[x] # None /\ receipts[x].ok /\ receipts[x] \in Receipt
        /\ records[x].block = receipts[x].block /\ receipts[x].block <= head
    BY <2>1 DEF HeadArrives, Seen, Guards, Waits, IsPending
  <2>3. Saturating(n, records[x].block) >= Required
    BY <2>1, <2>2 DEF HeadArrives, SetStatus, Record, Confirms
  <2> QED
    BY <2>2, <2>3 DEF Saturating, Receipt, Deep
<1>4. ASSUME GuardInv, Seen, [ConfirmNext]_confirmVars
      PROVE  [\A x \in Hashes : Confirms(x) => Deep(x) \/ x \in shaken]_confirmVars
  BY <1>3, <1>4
<1> QED
  BY <1>1, <1>2, <1>4, GuardInvariant, PTL DEF ConfirmSpec, ConfirmedIsDeep

-----------------------------------------------------------------------------
(* Removal                                                                 *)

\* What a pruner has chosen is final or gone, unless it was tracked again since.
Doomed ==
    \A p \in Pruners : \A x \in doomed[p] : IsPending(x) => x \in revived

\* What is not in the map gets there by InsertRecord alone.
LEMMA NoneStays ==
    ASSUME GuardInv, ConfirmNext, NEW x \in Hashes, records[x] = None, records'[x] # None
    PROVE  \E t \in Trackers : InsertRecord(t) /\ target[t] = x
<1> USE ConfirmationAssumption DEF GuardInv, ConfirmTypeOK
<1>1. ASSUME NEW c \in Checkers, NEW y \in Hashes, CheckDrops(c, y) PROVE FALSE
  BY <1>1 DEF CheckDrops, SetStatus, IsPending
<1>2. ASSUME NEW c \in Checkers, Answered(c) PROVE FALSE
  <2>1. target[c] # x
    BY <1>2 DEF Answered, ReceiptArrives, HeadArrives, Guards, Waits, IsPending
  <2>2. records'[x] = records[x]
    BY <1>2, <2>1 DEF Answered, ReceiptArrives, HeadArrives, SetStatus
  <2> QED
    BY <2>2
<1>3. ASSUME NEW p \in Pruners, NEW y \in Hashes, Removes(p, y) PROVE FALSE
  BY <1>3 DEF Removes
<1>4. ~Tick
  BY DEF Tick
<1>5. ASSUME NEW t \in Trackers, InsertRecord(t) PROVE target[t] = x
  BY <1>5 DEF InsertRecord
<1> QED
  BY <1>1, <1>2, <1>3, <1>4, <1>5, RecordWriters

\* Only track_transaction makes a pending record.
LEMMA PendingNew ==
    ASSUME GuardInv, ConfirmNext, NEW x \in Hashes, ~IsPending(x), IsPending(x)'
    PROVE  \E t \in Trackers : InsertRecord(t) /\ target[t] = x
<1>1. CASE IsFinal(x)
  BY <1>1, FinalStep DEF IsFinal, IsPending
<1>2. CASE records[x] = None
  BY <1>2, NoneStays DEF IsPending
<1> QED
  BY <1>1, <1>2 DEF IsFinal, IsPending

\* Only a removal makes a record disappear.
LEMMA RecordGone ==
    ASSUME GuardInv, ConfirmNext, NEW x \in Hashes, records[x] # None, records'[x] = None
    PROVE  \E p \in Pruners : Removes(p, x)
<1> USE ConfirmationAssumption DEF GuardInv, ConfirmTypeOK
<1>1. ASSUME NEW t \in Trackers, InsertRecord(t) PROVE FALSE
  <2>1. [status |-> "pending", block |-> None, age |-> 0] # None
    BY DEF Record, Statuses
  <2> QED
    BY <1>1, <2>1 DEF InsertRecord
<1>2. ASSUME NEW c \in Checkers, NEW y \in Hashes, CheckDrops(c, y) PROVE FALSE
  <2>1. records[y] \in Record
    BY <1>2 DEF CheckDrops, IsPending
  <2>2. [records[y] EXCEPT !.status = "dropped"] \in Record
    BY <2>1 DEF Record, Statuses
  <2> QED
    BY <1>2, <2>2 DEF CheckDrops, SetStatus
<1>3. ASSUME NEW c \in Checkers, Answered(c) PROVE FALSE
  <2>1. target[c] # x => records'[x] = records[x]
    BY <1>3 DEF Answered, ReceiptArrives, HeadArrives, SetStatus
  <2> QED
    BY <1>3, <2>1, ReceiptKeeps
<1>4. ~Tick
  BY TickKeeps
<1>5. ASSUME NEW p \in Pruners, NEW y \in Hashes, Removes(p, y) PROVE y = x
  BY <1>5 DEF Removes
<1> QED
  BY <1>1, <1>2, <1>3, <1>4, <1>5, RecordWriters

\* Every step keeps what a pruner has chosen final, gone or revived.
LEMMA DoomedStep ==
    ASSUME GuardInv, Doomed, [ConfirmNext]_confirmVars
    PROVE  Doomed'
<1> USE ConfirmationAssumption DEF GuardInv, ConfirmTypeOK
<1>1. ASSUME NEW t \in Trackers, InsertRecord(t) PROVE Doomed'
  <2>1. /\ doomed' = doomed /\ revived \subseteq revived'
        /\ \A x \in Hashes : x # target[t] => records'[x] = records[x]
        /\ \A p \in Pruners : target[t] \in doomed[p] => target[t] \in revived'
    BY <1>1 DEF InsertRecord, pruner
  <2> QED
    BY <2>1 DEF Doomed, IsPending
<1>2. ASSUME NEW p \in Pruners, NEW x \in Hashes, Removes(p, x) PROVE Doomed'
  BY <1>2 DEF Removes, Doomed, IsPending
<1>3. ASSUME ConfirmNext, \A t \in Trackers : ~InsertRecord(t), revived' = revived,
             \A p \in Pruners : \A x \in doomed'[p] : x \in doomed[p] \/ IsFinal(x)
      PROVE  Doomed'
  <2>1. \A x \in Hashes : IsPending(x)' => IsPending(x)
    BY <1>3, PendingNew
  <2>2. \A p \in Pruners : \A x \in doomed'[p] : x \in Hashes
    BY TypeStep
  <2> QED
    BY <1>3, <2>1, <2>2 DEF Doomed, IsFinal, IsPending
<1>4. ASSUME ConfirmNext, UNCHANGED <<doomed, revived>>, \A t \in Trackers : at'[t] = at[t]
      PROVE  Doomed'
  <2>1. ASSUME NEW t \in Trackers, InsertRecord(t) PROVE FALSE
    BY <1>4, <2>1 DEF InsertRecord, Go, Tasks
  <2> QED
    BY <1>3, <1>4, <2>1
<1>5. ASSUME ConfirmNext, NEW c \in Checkers, CheckStep(c) PROVE Doomed'
  BY <1>4, <1>5 DEF CheckStep, Answer, CheckDrops, CheckBegins, CheckGivesUp, ReceiptArrives,
                    HeadArrives, Go, Tasks, pruner, past
<1>6. ASSUME ConfirmNext, Chain \/ Tick PROVE Doomed'
  BY <1>4, <1>6 DEF Chain, Include, Reorg, EmptyBlock, Tick, pruner, past
<1>7. ASSUME ConfirmNext, NEW p \in Pruners,
             \/ PruneBegins(p) \/ RemoveEnds(p)
             \/ \E x \in Hashes : PruneVisits(p, x) \/ RemoveBegins(p, x)
      PROVE  Doomed'
  <2>1. revived' = revived /\ \A t \in Trackers : at'[t] = at[t]
    BY <1>7 DEF PruneBegins, PruneVisits, RemoveBegins, RemoveEnds, Go, Tasks, past
  <2>2. ASSUME NEW t \in Trackers, InsertRecord(t) PROVE FALSE
    BY <2>1, <2>2 DEF InsertRecord, Go, Tasks
  <2>3. \A q \in Pruners : \A x \in doomed'[q] : x \in doomed[q] \/ IsFinal(x)
    BY <1>7 DEF PruneBegins, PruneVisits, RemoveBegins, RemoveEnds, pruner
  <2> QED
    BY <1>3, <1>7, <2>1, <2>2, <2>3
<1>8. ASSUME NEW t \in Trackers, NEW x \in Hashes, CheckLimit(t, x) PROVE Doomed'
  BY <1>8 DEF CheckLimit, Doomed, IsPending, pruner, past
<1>9. CASE UNCHANGED confirmVars
  BY <1>9 DEF confirmVars, Doomed, IsPending
<1> QED
  BY <1>1, <1>2, <1>5, <1>6, <1>7, <1>8, <1>9 DEF ConfirmNext, TrackStep, PruneStep

\* Whatever trackers, checkers and pruners interleave, pruning removes no pending
\* record, but one tracked again after the pruner chose it (confirmation.rs:290-321).
THEOREM PendingStays == ConfirmSpec => PendingKept
<1> USE ConfirmationAssumption
<1>1. ConfirmInit => Doomed
  BY DEF ConfirmInit, Doomed
<1>2. GuardInv /\ Doomed /\ [ConfirmNext]_confirmVars => Doomed'
  BY DoomedStep
<1>3. ASSUME GuardInv, Doomed, ConfirmNext, NEW x \in Hashes, IsPending(x)
      PROVE  records'[x] # None \/ x \in revived
  <2>1. ASSUME NEW p \in Pruners, Removes(p, x) PROVE x \in revived
    BY <1>3, <2>1 DEF Removes, Doomed
  <2> QED
    BY <1>3, <2>1, RecordGone DEF IsPending
<1>4. ASSUME GuardInv, Doomed, [ConfirmNext]_confirmVars
      PROVE  [\A x \in Hashes : IsPending(x) => records'[x] # None \/ x \in revived]_confirmVars
  BY <1>3, <1>4
<1> QED
  BY <1>1, <1>2, <1>4, GuardInvariant, PTL DEF ConfirmSpec, PendingKept
=============================================================================
