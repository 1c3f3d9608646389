------------------------------ MODULE OrderBook ------------------------------
(***************************************************************************)
(* crates/phantom-discovery/src/orderbook.rs: OrderBook, a concurrent map  *)
(* from order ids to entries with a lifecycle status.                      *)
(*                                                                         *)
(* A transition holds the entry's guard and is one step.  insert is two    *)
(* accesses to the map (contains_key, then insert), and cleanup_expired    *)
(* visits the entries one after the other, with the time its caller took   *)
(* before.                                                                 *)
(***************************************************************************)
EXTENDS Integers

CONSTANTS
    Orders,       \* order ids
    Discoverers,  \* tasks that insert orders
    Cleaners,     \* tasks that call cleanup_expired
    Deadline,     \* the deadline of each order
    MaxTime,      \* bound: the clock stops here
    None          \* the book has no entry for the order

ASSUME OrderBookAssumption ==
    /\ Deadline \in [Orders -> Nat]
    /\ MaxTime \in Nat
    /\ Discoverers \intersect Cleaners = {}
    /\ None \notin {"pending", "active", "filled", "expired", "cancelled"}

VARIABLES
    status,   \* the map: the status of each entry
    pc,       \* where each task is
    found,    \* the order a discoverer inserts
    cutoff,   \* the argument `now` of a cleaner's call
    visit,    \* what a cleaner's iterator has still to visit
    owed,     \* history: active and overdue when the cleaner's call began, and
              \* not removed since
    now       \* the clock

vars == <<status, pc, found, cutoff, visit, owed, now>>

cleaner == <<cutoff, visit, owed>>

Tasks == Discoverers \union Cleaners

Statuses == {"pending", "active", "filled", "expired", "cancelled"}
Ended    == {"filled", "expired", "cancelled"}

TypeOK ==
    /\ status \in [Orders -> Statuses \union {None}]
    /\ pc \in [Tasks -> {"idle", "insert", "scan"}]
    /\ found \in [Discoverers -> Orders]
    /\ cutoff \in [Cleaners -> Nat]
    /\ visit \in [Cleaners -> SUBSET Orders]
    /\ owed \in [Cleaners -> SUBSET Orders]
    /\ now \in Nat

Init ==
    /\ status = [x \in Orders |-> None]
    /\ pc = [t \in Tasks |-> "idle"]
    /\ found \in [Discoverers -> Orders]
    /\ cutoff = [c \in Cleaners |-> 0]
    /\ visit = [c \in Cleaners |-> {}]
    /\ owed = [c \in Cleaners |-> {}]
    /\ now = 0

Goto(t, label) == pc' = [pc EXCEPT ![t] = label]

\* DutchAuctionOrder::is_expired
IsExpired(x, time) == time > Deadline[x]

-----------------------------------------------------------------------------
(* insert                                                                  *)

\* Faulty form of CheckAbsent: the check overlooks orders that have ended.
CheckAbsent_Ended(d, x) ==
    /\ pc[d] = "idle"
    /\ status[x] \in Ended \union {None}
    /\ found' = [found EXCEPT ![d] = x]
    /\ Goto(d, "insert")
    /\ UNCHANGED <<status, cleaner, now>>

\* contains_key says no (a yes is an error that changes nothing).
CheckAbsent(d, x) ==
    /\ pc[d] = "idle"
    /\ status[x] = None
    /\ found' = [found EXCEPT ![d] = x]
    /\ Goto(d, "insert")
    /\ UNCHANGED <<status, cleaner, now>>

\* The entry is written, over whatever is there by now.
InsertEntry(d) ==
    /\ pc[d] = "insert"
    /\ status' = [status EXCEPT ![found[d]] = "pending"]
    /\ Goto(d, "idle")
    /\ UNCHANGED <<found, cleaner, now>>

-----------------------------------------------------------------------------
(* transition and remove                                                   *)

Transition(x, from, to) ==
    /\ status[x] = from
    /\ status' = [status EXCEPT ![x] = to]
    /\ UNCHANGED <<pc, found, cleaner, now>>

Activate(x)    == Transition(x, "pending", "active")
MarkFilled(x)  == Transition(x, "active", "filled")
MarkExpired(x) == Transition(x, "active", "expired")

MarkCancelled(x) == \E from \in {"pending", "active"} : Transition(x, from, "cancelled")

Remove(x) ==
    /\ status[x] # None
    /\ status' = [status EXCEPT ![x] = None]
    /\ owed' = [c \in Cleaners |-> owed[c] \ {x}]
    /\ UNCHANGED <<pc, found, cutoff, visit, now>>

-----------------------------------------------------------------------------
(* cleanup_expired                                                         *)

Overdue(time) == {x \in Orders : status[x] = "active" /\ IsExpired(x, time)}

\* The caller took the time at some moment up to now.
ScanBegins(c, time) ==
    /\ pc[c] = "idle"
    /\ time <= now
    /\ cutoff' = [cutoff EXCEPT ![c] = time]
    /\ visit' = [visit EXCEPT ![c] = Orders]
    /\ owed' = [owed EXCEPT ![c] = Overdue(time)]
    /\ Goto(c, "scan")
    /\ UNCHANGED <<status, found, now>>

\* Faulty form of ScanVisits: an order due at the previous tick is spared.
ScanVisits_Late(c, x) ==
    /\ pc[c] = "scan"
    /\ x \in visit[c]
    /\ visit' = [visit EXCEPT ![c] = @ \ {x}]
    /\ status' = IF x \in Overdue(cutoff[c] - 1) THEN [status EXCEPT ![x] = "expired"]
                                                 ELSE status
    /\ UNCHANGED <<pc, found, cutoff, owed, now>>

\* The iterator visits one entry.
ScanVisits(c, x) ==
    /\ pc[c] = "scan"
    /\ x \in visit[c]
    /\ visit' = [visit EXCEPT ![c] = @ \ {x}]
    /\ status' = IF x \in Overdue(cutoff[c]) THEN [status EXCEPT ![x] = "expired"]
                                             ELSE status
    /\ UNCHANGED <<pc, found, cutoff, owed, now>>

ScanEnds(c) ==
    /\ pc[c] = "scan"
    /\ visit[c] = {}
    /\ owed' = [owed EXCEPT ![c] = {}]
    /\ cutoff' = [cutoff EXCEPT ![c] = 0]
    /\ Goto(c, "idle")
    /\ UNCHANGED <<status, found, visit, now>>

Tick ==
    /\ now < MaxTime
    /\ now' = now + 1
    /\ UNCHANGED <<status, pc, found, cleaner>>

-----------------------------------------------------------------------------
DiscoverStep(d) == (\E x \in Orders : CheckAbsent(d, x)) \/ InsertEntry(d)

Move(x) == Activate(x) \/ MarkFilled(x) \/ MarkExpired(x) \/ MarkCancelled(x) \/ Remove(x)

CleanStep(c) ==
    \/ \E time \in 0 .. now : ScanBegins(c, time)
    \/ \E x \in Orders : ScanVisits(c, x)
    \/ ScanEnds(c)

Next ==
    \/ \E d \in Discoverers : DiscoverStep(d)
    \/ \E x \in Orders : Move(x)
    \/ \E c \in Cleaners : CleanStep(c)
    \/ Tick

Spec == Init /\ [][Next]_vars

-----------------------------------------------------------------------------
(* Properties                                                              *)

\* The lifecycle of orderbook.rs:4: no entry, Pending, Active, then one of
\* Filled, Expired and Cancelled, out of which only a removal leads.
Lifecycle ==
    {<<None, "pending">>, <<"pending", "active">>, <<"pending", "cancelled">>}
        \union {<<"active", s>> : s \in Ended}
        \union {<<s, None>> : s \in Statuses}

\* With a single task that inserts, every step of the book follows the
\* lifecycle, whatever transitions, removals and scans come between the two
\* halves of insert.
FollowsLifecycle ==
    [][\A x \in Orders : status'[x] # status[x] => <<status[x], status'[x]>> \in Lifecycle]_vars

\* "Returns an error if an order with the same ID already exists"
\* (orderbook.rs:43): no insertion overwrites an entry.
InsertKeeps ==
    [][\A d \in Discoverers : InsertEntry(d) => status[found[d]] = None]_vars

\* What was active and overdue when cleanup_expired was called, and stayed in
\* the book, is not active any more once it was visited: the scan misses
\* nothing although other tasks change the book under it.
ScanMissesNothing ==
    \A c \in Cleaners : \A x \in owed[c] : x \in visit[c] \/ status[x] \in Ended
=============================================================================
