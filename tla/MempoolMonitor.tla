--------------------------- MODULE MempoolMonitor ---------------------------
(***************************************************************************)
(* crates/phantom-chain/src/mempool.rs: MempoolMonitor polls the pending   *)
(* block and announces the transactions it has not seen yet; the set of    *)
(* the seen ones is emptied when it has grown too large.                   *)
(***************************************************************************)
EXTENDS Integers, FiniteSets

CONSTANTS
    Hashes,     \* transactions, by their hash
    Watched,    \* those whose `to` is one of config.watched_addresses
    MaxSeen,    \* MAX_SEEN_CAPACITY
    MaxBlock,   \* the node: transactions in one pending block
    MaxClears   \* bound: clears of the seen set that are counted

ASSUME MempoolAssumption ==
    /\ IsFiniteSet(Hashes) /\ Watched \subseteq Hashes
    /\ MaxSeen \in Nat /\ MaxBlock \in Nat /\ MaxClears \in Nat

VARIABLES
    filtering,  \* config.watched_addresses is not empty; never changes
    monitor,    \* where the monitoring task is
    unvisited,  \* the hashes of the pending block still to visit
    asked,      \* the hashes whose transaction is being fetched: at most one
    seen,       \* seen_hashes
    announced,  \* how often each hash was announced
    clears,     \* how often the seen set was emptied
    quit        \* the shutdown signal

mempoolVars == <<filtering, monitor, unvisited, asked, seen, announced, clears, quit>>

MempoolInit ==
    /\ filtering \in BOOLEAN
    /\ monitor = "poll"
    /\ unvisited = {} /\ asked = {} /\ seen = {}
    /\ announced = [h \in Hashes |-> 0]
    /\ clears = 0
    /\ quit = FALSE

\* Recorded up to one more than is allowed.
Announce(h) == announced' = [announced EXCEPT ![h] = IF @ <= MaxClears + 1 THEN @ + 1 ELSE @]

-----------------------------------------------------------------------------
\* The node answers with its pending block; it may fail or know none.
PollPending(pool) ==
    /\ monitor = "poll" /\ ~quit
    /\ Cardinality(pool) <= MaxBlock
    /\ unvisited' = pool
    /\ monitor' = "visit"
    /\ UNCHANGED <<asked, seen, announced, clears, quit>>

\* Faulty: only what is announced is remembered.
VisitHash_Late(h) ==
    /\ monitor = "visit" /\ asked = {} /\ h \in unvisited
    /\ unvisited' = unvisited \ {h}
    /\ IF h \in seen THEN UNCHANGED <<asked, seen, announced>>
       ELSE IF filtering THEN asked' = {h} /\ UNCHANGED <<seen, announced>>
       ELSE Announce(h) /\ seen' = seen \union {h} /\ UNCHANGED asked
    /\ UNCHANGED <<monitor, clears, quit>>

\* One hash of the block: remembered, then announced or looked up.
VisitHash(h) ==
    /\ monitor = "visit" /\ asked = {} /\ h \in unvisited
    /\ unvisited' = unvisited \ {h}
    /\ seen' = seen \union {h}
    /\ IF h \in seen THEN UNCHANGED <<asked, announced>>
       ELSE IF filtering THEN asked' = {h} /\ UNCHANGED announced
       ELSE Announce(h) /\ UNCHANGED asked
    /\ UNCHANGED <<monitor, clears, quit>>

\* get_transaction_by_hash answers, or fails: then the transaction is skipped.
TransactionArrives(h, found) ==
    /\ h \in asked
    /\ asked' = {}
    /\ IF found /\ h \in Watched THEN Announce(h) ELSE UNCHANGED announced
    /\ UNCHANGED <<monitor, unvisited, seen, clears, quit>>

TooManySeen == Cardinality(seen) > MaxSeen

\* After the last hash, or a poll without a block: prune, then sleep.
PollEnds ==
    /\ \/ monitor = "poll" /\ ~quit
       \/ monitor = "visit" /\ unvisited = {} /\ asked = {}
    /\ IF TooManySeen
       THEN /\ clears < MaxClears
            /\ seen' = {}
            /\ clears' = clears + 1
       ELSE UNCHANGED <<seen, clears>>
    /\ monitor' = "sleep"
    /\ UNCHANGED <<unvisited, asked, announced, quit>>

Wakes ==
    /\ monitor = "sleep" /\ ~quit
    /\ monitor' = "poll"
    /\ UNCHANGED <<unvisited, asked, seen, announced, clears, quit>>

StopMonitor ==
    /\ ~quit
    /\ quit' = TRUE
    /\ UNCHANGED <<monitor, unvisited, asked, seen, announced, clears>>

MonitorStops ==
    /\ monitor \in {"poll", "sleep"} /\ quit
    /\ monitor' = "stopped"
    /\ UNCHANGED <<unvisited, asked, seen, announced, clears, quit>>

MempoolNext ==
    /\ \/ \E pool \in SUBSET Hashes : PollPending(pool)
       \/ \E h \in Hashes : VisitHash(h)
       \/ \E h \in Hashes, found \in BOOLEAN : TransactionArrives(h, found)
       \/ PollEnds \/ Wakes \/ StopMonitor \/ MonitorStops
    /\ UNCHANGED filtering

MempoolSpec == MempoolInit /\ [][MempoolNext]_mempoolVars

-----------------------------------------------------------------------------
(* Properties                                                              *)

\* However often a transaction comes back in pending blocks, it is announced
\* at most once for each time the seen set was emptied and once more, only if
\* it is watched, and the set outgrows its limit by one block at most
\* (mempool.rs:158-162, 210-251).
AnnouncedOnce ==
    /\ \A h \in Hashes : announced[h] <= 1 + clears
    /\ filtering => \A h \in Hashes \ Watched : announced[h] = 0
    /\ Cardinality(seen) <= MaxSeen + MaxBlock
=============================================================================
