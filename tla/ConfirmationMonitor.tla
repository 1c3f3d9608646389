------------------------- MODULE ConfirmationMonitor -------------------------
(***************************************************************************)
(* crates/phantom-settlement/src/confirmation.rs: ConfirmationMonitor, a   *)
(* concurrent map of transaction records.                                  *)
(*                                                                         *)
(* check_status takes the guard of the record and keeps it over both of    *)
(* its awaits, so nobody else reads or writes that record meanwhile, and   *)
(* len(), which visits the whole map, waits too.  The chain does not wait: *)
(* the receipt and the block number are two answers of two moments.  Each  *)
(* record is taken to be in a shard of the map of its own.                 *)
(***************************************************************************)
EXTENDS Integers, FiniteSets

CONSTANTS
    Hashes,          \* transaction hashes
    Trackers,     \* tasks that call track_transaction
    Checkers,     \* tasks that call check_status
    Pruners,      \* tasks that call prune_finalized or remove_finalized
    Required,     \* config.required_confirmations
    Timeout,      \* config.timeout_ms, in ticks of the clock
    MaxTracked,   \* config.max_tracked
    MaxHead,      \* bound: the highest block
    None          \* no record; no block; no receipt

Tasks == Trackers \union Checkers \union Pruners

Statuses == {"pending", "included", "confirmed", "reverted", "dropped"}
Final    == {"confirmed", "reverted", "dropped"}

Record  == [status: Statuses, block: Nat \union {None}, age: 0 .. (Timeout + 1)]
Receipt == [block: Nat, ok: BOOLEAN]

ASSUME ConfirmationAssumption ==
    /\ IsFiniteSet(Hashes) /\ IsFiniteSet(Trackers)
    /\ Trackers \intersect Checkers = {} /\ Pruners \intersect (Trackers \union Checkers) = {}
    /\ Required \in Nat /\ Timeout \in Nat /\ MaxTracked \in Nat
    /\ MaxHead \in Nat
    /\ None \notin Nat \union Record \union Receipt

VARIABLES
    records,   \* the map: status, block_number and the time since submitted_at,
               \* which is told apart up to the first tick after the timeout
    at,        \* where each task is
    target,    \* the transaction a tracker or checker works on
    visit,     \* what a pruner's iterator has still to visit
    doomed,    \* what a pruner is going to remove
    receipts,  \* the chain: block and success of included transactions
    head,      \* the chain: the current block number
    shaken,    \* history: transactions being checked whose receipt had no block
               \* number, or whose block was dropped since it was answered
    revived    \* history: transactions tracked again since a pruner chose them

confirmVars == <<records, at, target, visit, doomed, receipts, head, shaken, revived>>

world  == <<receipts, head>>
pruner == <<visit, doomed>>
past   == <<shaken, revived>>

ConfirmTypeOK ==
    /\ records \in [Hashes -> Record \union {None}]
    /\ at \in [Tasks -> {"idle", "insert", "receipt", "head", "scan", "remove"}]
    /\ target \in [Trackers \union Checkers -> Hashes]
    /\ visit \in [Pruners -> SUBSET Hashes]
    /\ doomed \in [Pruners -> SUBSET Hashes]
    /\ receipts \in [Hashes -> Receipt \union {None}]
    /\ head \in Nat
    /\ shaken \subseteq Hashes /\ revived \subseteq Hashes

ConfirmInit ==
    /\ records = [x \in Hashes |-> None]
    /\ at = [t \in Tasks |-> "idle"]
    /\ target \in [Trackers \union Checkers -> Hashes]
    /\ visit = [p \in Pruners |-> {}]
    /\ doomed = [p \in Pruners |-> {}]
    /\ receipts = [x \in Hashes |-> None]
    /\ head = 0
    /\ shaken = {} /\ revived = {}

Go(t, label) == at' = [at EXCEPT ![t] = label]

\* A checker awaits with the guard of x in its hands.
Guarded(x) == \E c \in Checkers : at[c] \in {"receipt", "head"} /\ target[c] = x

\* Faulty form of IsFinal: Included counts as final too.
IsFinal_Included(x) == records[x] # None /\ records[x].status # "pending"

IsFinal(x)   == records[x] # None /\ records[x].status \in Final
IsPending(x) == records[x] # None /\ records[x].status \notin Final

Tracked == {x \in Hashes : records[x] # None}

SetStatus(x, s) == records' = [records EXCEPT ![x].status = s]

-----------------------------------------------------------------------------
(* track_transaction: the limit is checked first, the record inserted next *)

CheckLimit(t, x) ==
    /\ at[t] = "idle"
    /\ \A y \in Hashes : ~Guarded(y)
    /\ Cardinality(Tracked) < MaxTracked
    /\ target' = [target EXCEPT ![t] = x]
    /\ Go(t, "insert")
    /\ UNCHANGED <<records, pruner, world, past>>

\* An existing record, final or not, is overwritten.
InsertRecord(t) ==
    LET x == target[t] IN
    /\ at[t] = "insert"
    /\ ~Guarded(x)
    /\ records' = [records EXCEPT ![x] = [status |-> "pending", block |-> None, age |-> 0]]
    /\ revived' = IF \E p \in Pruners : x \in doomed[p] THEN revived \union {x} ELSE revived
    /\ Go(t, "idle")
    /\ UNCHANGED <<target, pruner, world, shaken>>

-----------------------------------------------------------------------------
(* check_status                                                            *)

TimedOut(x) == records[x].age > Timeout

\* Faulty form of CheckDrops: only a transaction never seen in a block.
CheckDrops_Unseen(c, x) ==
    /\ at[c] = "idle"
    /\ ~Guarded(x) /\ IsPending(x) /\ TimedOut(x)
    /\ records[x].status = "pending"
    /\ SetStatus(x, "dropped")
    /\ UNCHANGED <<at, target, pruner, world, past>>

\* The record is too old: dropped, without a look at the chain.
CheckDrops(c, x) ==
    /\ at[c] = "idle"
    /\ ~Guarded(x) /\ IsPending(x) /\ TimedOut(x)
    /\ SetStatus(x, "dropped")
    /\ UNCHANGED <<at, target, pruner, world, past>>

\* Faulty form of CheckBegins: no early return for a final record.
CheckBegins_Final(c, x) ==
    /\ at[c] = "idle"
    /\ ~Guarded(x) /\ records[x] # None /\ ~TimedOut(x)
    /\ target' = [target EXCEPT ![c] = x]
    /\ Go(c, "receipt")
    /\ UNCHANGED <<records, pruner, world, past>>

\* Neither final nor too old: ask for the receipt, guard in hand.
CheckBegins(c, x) ==
    /\ at[c] = "idle"
    /\ ~Guarded(x) /\ IsPending(x) /\ ~TimedOut(x)
    /\ target' = [target EXCEPT ![c] = x]
    /\ Go(c, "receipt")
    /\ UNCHANGED <<records, pruner, world, past>>

\* The provider fails on either question, or has no receipt: the guard is
\* given back; what was written of the receipt stays.
CheckGivesUp(c) ==
    /\ at[c] \in {"receipt", "head"}
    /\ shaken' = shaken \ {target[c]}
    /\ Go(c, "idle")
    /\ UNCHANGED <<records, target, pruner, world, revived>>

\* A receipt: reverted at once, or ask for the block number.  The node may leave
\* out the number of the block, which then counts as 0.
ReceiptArrives(c, numbered) ==
    LET x == target[c] IN
    /\ at[c] = "receipt"
    /\ receipts[x] # None
    /\ records' = [records EXCEPT
           ![x].block = IF numbered THEN receipts[x].block ELSE 0,
           ![x].status = IF receipts[x].ok THEN @ ELSE "reverted"]
    /\ Go(c, IF receipts[x].ok THEN "head" ELSE "idle")
    /\ shaken' = IF receipts[x].ok /\ ~numbered THEN shaken \union {x} ELSE shaken
    /\ UNCHANGED <<target, pruner, world, revived>>

Saturating(a, b) == IF a > b THEN a - b ELSE 0

\* Faulty form of HeadArrives: the block of inclusion counts as a confirmation.
HeadArrives_CountsInclusion(c, current) ==
    LET x == target[c] IN
    /\ at[c] = "head"
    /\ SetStatus(x, IF Saturating(current, records[x].block) + 1 >= Required
                    THEN "confirmed" ELSE "included")
    /\ shaken' = shaken \ {x}
    /\ Go(c, "idle")
    /\ UNCHANGED <<target, pruner, world, revived>>

\* The block number, of a node that may be behind.
HeadArrives(c, current) ==
    LET x == target[c] IN
    /\ at[c] = "head"
    /\ SetStatus(x, IF Saturating(current, records[x].block) >= Required
                    THEN "confirmed" ELSE "included")
    /\ shaken' = shaken \ {x}
    /\ Go(c, "idle")
    /\ UNCHANGED <<target, pruner, world, revived>>

-----------------------------------------------------------------------------
(* prune_finalized and remove_finalized: collect first, remove afterwards  *)

PruneBegins(p) ==
    /\ at[p] = "idle"
    /\ visit' = [visit EXCEPT ![p] = Hashes]
    /\ Go(p, "scan")
    /\ UNCHANGED <<records, target, doomed, world, past>>

\* The iterator visits one record.
PruneVisits(p, x) ==
    /\ at[p] = "scan"
    /\ x \in visit[p]
    /\ ~Guarded(x)
    /\ visit' = [visit EXCEPT ![p] = @ \ {x}]
    /\ doomed' = [doomed EXCEPT ![p] = IF IsFinal(x) THEN @ \union {x} ELSE @]
    /\ Go(p, IF visit[p] = {x} THEN "remove" ELSE "scan")
    /\ UNCHANGED <<records, target, world, past>>

RemoveBegins(p, x) ==
    /\ at[p] = "idle"
    /\ ~Guarded(x) /\ IsFinal(x)
    /\ doomed' = [doomed EXCEPT ![p] = {x}]
    /\ Go(p, "remove")
    /\ UNCHANGED <<records, target, visit, world, past>>

\* One removal, of whatever the map holds by now.
Removes(p, x) ==
    /\ at[p] = "remove"
    /\ x \in doomed[p]
    /\ ~Guarded(x)
    /\ records' = [records EXCEPT ![x] = None]
    /\ doomed' = [doomed EXCEPT ![p] = @ \ {x}]
    /\ revived' = revived \ {x}
    /\ UNCHANGED <<at, target, visit, world, shaken>>

RemoveEnds(p) ==
    /\ at[p] = "remove"
    /\ doomed[p] = {}
    /\ Go(p, "idle")
    /\ UNCHANGED <<records, target, pruner, world, past>>

-----------------------------------------------------------------------------
(* The chain and the clock                                                 *)

Include(x, ok) ==
    /\ receipts[x] = None
    /\ head < MaxHead
    /\ head' = head + 1
    /\ receipts' = [receipts EXCEPT ![x] = [block |-> head + 1, ok |-> ok]]
    /\ UNCHANGED <<records, at, target, pruner, past>>

EmptyBlock ==
    /\ head < MaxHead
    /\ head' = head + 1
    /\ UNCHANGED <<records, at, target, pruner, receipts, past>>

\* A check has the receipt of x and waits for the block number.
Counting(x) == \E c \in Checkers : at[c] = "head" /\ target[c] = x

\* The block of a transaction is replaced by one without it, at any moment.
Reorg(x) ==
    /\ receipts[x] # None
    /\ receipts' = [receipts EXCEPT ![x] = None]
    /\ shaken' = IF Counting(x) THEN shaken \union {x} ELSE shaken
    /\ UNCHANGED <<records, at, target, pruner, head, revived>>

\* The clock moves on for every record, guarded or not.
Tick ==
    /\ records' = [x \in Hashes |->
           IF records[x] # None /\ ~TimedOut(x) THEN [records[x] EXCEPT !.age = @ + 1]
                                              ELSE records[x]]
    /\ UNCHANGED <<at, target, pruner, world, past>>

-----------------------------------------------------------------------------
TrackStep(t) == (\E x \in Hashes : CheckLimit(t, x)) \/ InsertRecord(t)

Answer(c) ==
    \/ CheckGivesUp(c)
    \/ \E numbered \in BOOLEAN : ReceiptArrives(c, numbered)
    \/ \E current \in 0 .. head : HeadArrives(c, current)

CheckStep(c) == (\E x \in Hashes : CheckDrops(c, x) \/ CheckBegins(c, x)) \/ Answer(c)

PruneStep(p) ==
    \/ PruneBegins(p)
    \/ \E x \in Hashes : PruneVisits(p, x) \/ RemoveBegins(p, x) \/ Removes(p, x)
    \/ RemoveEnds(p)

Chain ==
    \/ \E x \in Hashes : (\E ok \in BOOLEAN : Include(x, ok)) \/ Reorg(x)
    \/ EmptyBlock

ConfirmNext ==
    \/ \E t \in Trackers : TrackStep(t)
    \/ \E c \in Checkers : CheckStep(c)
    \/ \E p \in Pruners : PruneStep(p)
    \/ Chain
    \/ Tick

ConfirmSpec == ConfirmInit /\ [][ConfirmNext]_confirmVars

-----------------------------------------------------------------------------
(* Properties                                                              *)

\* Only the insertion of track_transaction takes a record out of a final
\* status, and nothing but a prune makes it disappear: the guard kept over the
\* awaits leaves no stale write behind a final one.
FinalIsFinal ==
    [][\A x \in Hashes : IsFinal(x) =>
            \/ records'[x] = None
            \/ records'[x].status = records[x].status
            \/ \E t \in Trackers : InsertRecord(t) /\ target[t] = x]_confirmVars

\* prune_finalized and remove_finalized "removes finalized transactions"
\* (confirmation.rs:290-293, 304): a pending record disappears only when its
\* transaction was tracked again after the pruner had chosen it.
PendingKept ==
    [][\A x \in Hashes : IsPending(x) => records'[x] # None \/ x \in revived]_confirmVars

Confirms(x) == records'[x] # None /\ records'[x].status = "confirmed" /\ ~IsFinal(x)

\* The chain has x with the required confirmations.
Deep(x) == receipts[x] # None /\ receipts[x].ok /\ head - receipts[x].block >= Required

\* "Transaction reached required confirmations" (confirmation.rs:44-45): what is
\* reported Confirmed is on the chain and deep enough.  It is not when a receipt
\* without a block number counts as block 0 (line 215), nor when the block is
\* dropped between the two answers.
DepthReached == [][\A x \in Hashes : Confirms(x) => Deep(x)]_confirmVars

\* These two are the only ways to a shallow Confirmed: otherwise the depth is
\* real, although the head moves between the answers, a node may be behind, and
\* blocks are dropped before and after.
ConfirmedIsDeep == [][\A x \in Hashes : Confirms(x) => Deep(x) \/ x \in shaken]_confirmVars

Inserted(x) == \E t \in Trackers : InsertRecord(t) /\ target[t] = x

\* Whatever the chain and the provider do, a tracked transaction that is polled
\* becomes final, by its timeout at the latest, unless it is tracked again and
\* again, or a check of it waits for an answer for ever: the provider's requests
\* have no timeout here, and the one of line 185 is not looked at meanwhile.
BecomesFinal ==
    \A x \in Hashes :
        \/ IsPending(x) ~> ~IsPending(x)
        \/ []<><<Inserted(x)>>_confirmVars
        \/ \E c \in Checkers : <>[](at[c] \in {"receipt", "head"} /\ target[c] = x)
=============================================================================
