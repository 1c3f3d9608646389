----------------------------- MODULE PnlTracker -----------------------------
(***************************************************************************)
(* crates/phantom-inventory/src/pnl.rs: PnlTracker, four maps and three    *)
(* counters that record_fill and update_fill_status change one access at a *)
(* time.                                                                   *)
(*                                                                         *)
(* A fill record is one of Records: its status, day, profit and the two    *)
(* tokens; amounts and gas are summed like the profit and are left out.    *)
(* The running total is an i64 of wei that wraps, the daily sums are wide. *)
(***************************************************************************)
EXTENDS Integers, FiniteSetsExt, Functions

CONSTANTS
    PnlTasks,      \* tasks that record and update fills
    Records,       \* what is recorded: [status, day, pnl, spent, received]
    Days,          \* the days of the records
    Coins,         \* the token and chain pairs of the records
    MaxHistory,    \* config.max_fill_history
    TrackCoins,    \* config.track_per_token
    I64Max,        \* the largest value of total_realized_wei
    MaxFills,      \* bound: fills that are recorded, each under its own id
    MaxUpdates     \* bound: updates of a status

Recorded == 1 .. MaxFills
FillStatuses == {"Pending", "Confirmed", "Reverted"}
FillRecords == [status : FillStatuses, day : Days, pnl : Int, spent : Coins, received : Coins]

ASSUME PnlAssumption ==
    /\ IsFiniteSet(PnlTasks)
    /\ Records \subseteq FillRecords
    /\ MaxHistory \in Nat /\ I64Max \in Nat
    /\ MaxFills \in Nat /\ MaxUpdates \in Nat
    /\ TrackCoins \in BOOLEAN

VARIABLES
    fills,        \* fills: the stored records
    fillOrder,    \* fill_order: the id under each sequence number
    nextSeq,      \* next_seq
    realized,     \* total_realized_wei
    totalFills,   \* total_fills
    dayBook,      \* daily
    coinBook,     \* tokens
    call,         \* what each task is doing, with its local variables
    nextId,       \* the callers' next fill id
    unlisted,     \* sum of the profits that were confirmed and found no day (history)
    updates       \* how many updates there were (for the bound)

pnlVars == <<fills, fillOrder, nextSeq, realized, totalFills, dayBook, coinBook,
             call, nextId, unlisted, updates>>
books == <<realized, totalFills, dayBook, coinBook>>
history == <<fills, fillOrder, nextSeq>>

Idle == [at |-> "idle"]

PnlInit ==
    /\ fills = << >>
    /\ fillOrder = << >>
    /\ nextSeq = 0
    /\ realized = 0
    /\ totalFills = 0
    /\ dayBook = << >>
    /\ coinBook = << >>
    /\ call = [t \in PnlTasks |-> Idle]
    /\ nextId = 1
    /\ unlisted = 0
    /\ updates = 0

Without(f, x) == Restrict(f, DOMAIN f \ {x})
With(f, x, v) == [y \in DOMAIN f \union {x} |-> IF y = x THEN v ELSE f[y]]
At(t, label) == call[t].at = label
Continue(t, label) == call' = [call EXCEPT ![t].at = label]

\* pnl.clamp(i64::MIN, i64::MAX)
Clamped(n) == IF n > I64Max THEN I64Max ELSE IF n < -I64Max - 1 THEN -I64Max - 1 ELSE n

\* fetch_add on the i64.
Wrapped(n) == ((n + I64Max + 1) % (2 * I64Max + 2)) - I64Max - 1

\* Half of the profit, rounded towards zero.
Half(n) == IF n < 0 THEN -((-n) \div 2) ELSE n \div 2

-----------------------------------------------------------------------------
(* record_fill                                                             *)

StoreFill(t, r) ==
    /\ At(t, "idle") /\ nextId \in Recorded
    /\ nextId' = nextId + 1
    /\ fills' = With(fills, nextId, r)
    /\ call' = [call EXCEPT ![t] = [at |-> "sequence", id |-> nextId, rec |-> r]]
    /\ UNCHANGED <<fillOrder, nextSeq, books, unlisted, updates>>

TakeSeq(t) ==
    /\ At(t, "sequence")
    /\ nextSeq' = nextSeq + 1
    /\ call' = [call EXCEPT ![t] = [at |-> "order", id |-> call[t].id, rec |-> call[t].rec, seq |-> nextSeq]]
    /\ UNCHANGED <<fills, fillOrder, books, nextId, unlisted, updates>>

PutOrder(t) ==
    /\ At(t, "order")
    /\ fillOrder' = With(fillOrder, call[t].seq, call[t].id)
    /\ Continue(t, "count")
    /\ UNCHANGED <<fills, nextSeq, books, nextId, unlisted, updates>>

CountFill(t) ==
    /\ At(t, "count")
    /\ totalFills' = totalFills + 1
    /\ Continue(t, IF call[t].rec.status = "Confirmed" THEN "credit" ELSE "day")
    /\ UNCHANGED <<history, realized, dayBook, coinBook, nextId, unlisted, updates>>

\* A profit enters the running total: of a fill recorded as confirmed, or of a
\* pending one that has become confirmed.
Credit(t) ==
    /\ call[t].at \in {"credit", "late credit"}
    /\ realized' = Wrapped(realized + Clamped(call[t].rec.pnl))
    /\ Continue(t, IF At(t, "credit") THEN "day" ELSE "amend day")
    /\ UNCHANGED <<history, totalFills, dayBook, coinBook, nextId, unlisted, updates>>

Opened == [pnl |-> 0, fillCount |-> 0, reverted |-> 0]
DayOf(d) == IF d \in DOMAIN dayBook THEN dayBook[d] ELSE Opened

\* A pending fill counts as a fill, its profit not yet.
Booked(day, r) ==
    [pnl       |-> IF r.status = "Confirmed" THEN day.pnl + r.pnl ELSE day.pnl,
     fillCount |-> IF r.status = "Reverted" THEN day.fillCount ELSE day.fillCount + 1,
     reverted  |-> IF r.status = "Reverted" THEN day.reverted + 1 ELSE day.reverted]

BookDay(t) ==
    LET r == call[t].rec IN
    /\ At(t, "day")
    /\ dayBook' = With(dayBook, r.day, Booked(DayOf(r.day), r))
    /\ Continue(t, IF TrackCoins THEN "spent" ELSE "prune")
    /\ UNCHANGED <<history, realized, totalFills, coinBook, nextId, unlisted, updates>>

CoinOf(c) == IF c \in DOMAIN coinBook THEN coinBook[c] ELSE [pnl |-> 0, fillCount |-> 0]

\* update_token_pnl, for the token spent and then for the one received.
BookCoin(t, c) ==
    LET r == call[t].rec
        share == IF r.status = "Confirmed" THEN Half(r.pnl) ELSE 0
    IN
    /\ \/ At(t, "spent") /\ c = r.spent /\ Continue(t, "received")
       \/ At(t, "received") /\ c = r.received /\ Continue(t, "prune")
    /\ coinBook' = With(coinBook, c,
            [pnl |-> CoinOf(c).pnl + share, fillCount |-> CoinOf(c).fillCount + 1])
    /\ UNCHANGED <<history, realized, totalFills, dayBook, nextId, unlisted, updates>>

-----------------------------------------------------------------------------
(* prune_if_needed: always from sequence number 0                          *)

Return(t) == call' = [call EXCEPT ![t] = Idle]

\* The next sequence number to look at, or the end of the call.
PruneFrom(t, seq, end) ==
    IF seq < end
    THEN call' = [call EXCEPT ![t] = [at |-> "unlink", seq |-> seq, end |-> end]]
    ELSE Return(t)

\* Faulty: only the oldest fill over the limit, as if the others were gone.
PruneBegins_Last(t) ==
    /\ At(t, "prune")
    /\ PruneFrom(t, nextSeq - MaxHistory - 1, nextSeq - MaxHistory)
    /\ UNCHANGED <<history, books, nextId, unlisted, updates>>

PruneBegins(t) ==
    /\ At(t, "prune")
    /\ PruneFrom(t, 0, nextSeq - MaxHistory)
    /\ UNCHANGED <<history, books, nextId, unlisted, updates>>

Unlink(t) ==
    LET seq == call[t].seq IN
    /\ At(t, "unlink")
    /\ fillOrder' = Without(fillOrder, seq)
    /\ IF seq \in DOMAIN fillOrder
       THEN call' = [call EXCEPT ![t] =
                [at |-> "drop", seq |-> seq, end |-> call[t].end, id |-> fillOrder[seq]]]
       ELSE PruneFrom(t, seq + 1, call[t].end)
    /\ UNCHANGED <<fills, nextSeq, books, nextId, unlisted, updates>>

DropFill(t) ==
    /\ At(t, "drop")
    /\ fills' = Without(fills, call[t].id)
    /\ PruneFrom(t, call[t].seq + 1, call[t].end)
    /\ UNCHANGED <<fillOrder, nextSeq, books, nextId, unlisted, updates>>

-----------------------------------------------------------------------------
(* update_fill_status                                                      *)

\* Under the guard of the record.  For a pruned or unchanged fill the call
\* only returns.
UpdateStatus(t, id, new) ==
    /\ At(t, "idle") /\ updates < MaxUpdates
    /\ id \in DOMAIN fills
    /\ fills[id].status # new
    /\ updates' = updates + 1
    /\ fills' = [fills EXCEPT ![id].status = new]
    /\ LET confirmed == fills[id].status = "Pending" /\ new = "Confirmed" IN
       call' = [call EXCEPT ![t] = [at |-> IF confirmed THEN "late credit" ELSE "amend day",
                                    rec |-> fills[id], new |-> new]]
    /\ UNCHANGED <<fillOrder, nextSeq, books, nextId, unlisted>>

\* Faulty: any confirmation enters the day, also one of a fill that had been
\* confirmed before.
Amended_Always(day, old, new, pnl) ==
    [pnl       |-> IF new = "Confirmed" THEN day.pnl + pnl ELSE day.pnl,
     fillCount |-> day.fillCount,
     reverted  |-> IF new = "Reverted" THEN day.reverted + 1 ELSE day.reverted]

\* The day after the fill went from old to new.
Amended(day, old, new, pnl) ==
    [pnl       |-> IF old = "Pending" /\ new = "Confirmed" THEN day.pnl + pnl ELSE day.pnl,
     fillCount |-> IF old = "Pending" /\ new = "Reverted" /\ day.fillCount > 0
                   THEN day.fillCount - 1 ELSE day.fillCount,
     reverted  |-> IF new = "Reverted" THEN day.reverted + 1 ELSE day.reverted]

\* The day of the fill, if it has an entry; the tokens are not amended.
AmendDay(t) ==
    LET r == call[t].rec IN
    /\ At(t, "amend day")
    /\ IF r.day \in DOMAIN dayBook
       THEN /\ dayBook' = [dayBook EXCEPT ![r.day] = Amended(@, r.status, call[t].new, r.pnl)]
            /\ UNCHANGED unlisted
       ELSE /\ unlisted' = unlisted + Amended(Opened, r.status, call[t].new, r.pnl).pnl
            /\ UNCHANGED dayBook
    /\ Return(t)
    /\ UNCHANGED <<history, realized, totalFills, coinBook, nextId, updates>>

-----------------------------------------------------------------------------
RecordStep(t) ==
    \/ \E r \in Records : StoreFill(t, r)
    \/ TakeSeq(t) \/ PutOrder(t) \/ CountFill(t) \/ Credit(t) \/ BookDay(t)
    \/ \E c \in Coins : BookCoin(t, c)

PruneStep(t) == PruneBegins(t) \/ Unlink(t) \/ DropFill(t)

UpdateStep(t) ==
    \/ \E id \in Recorded, new \in FillStatuses : UpdateStatus(t, id, new)
    \/ AmendDay(t)

PnlNext == \E t \in PnlTasks : RecordStep(t) \/ PruneStep(t) \/ UpdateStep(t)

PnlSpec == PnlInit /\ [][PnlNext]_pnlVars

-----------------------------------------------------------------------------
(* Properties                                                              *)

\* recent_fills: the newest records, newest first.
RecentFills(limit) ==
    LET first == IF nextSeq > limit THEN nextSeq - limit ELSE 0
        seen(seq) == seq \in DOMAIN fillOrder /\ fillOrder[seq] \in DOMAIN fills
    IN  {<<seq, fillOrder[seq]>> : seq \in {s \in first .. nextSeq - 1 : seen(s)}}

\* summary, with fill_count and total_realized_pnl; today's entry is one of the days.
Summary ==
    [total |-> realized, fills |-> totalFills,
     trackedTokens |-> Cardinality(DOMAIN coinBook), activeDays |-> Cardinality(DOMAIN dayBook)]

\* all_daily_pnl: the entry of each day.
AllDailyPnl == {<<d, dayBook[d]>> : d \in DOMAIN dayBook}

\* all_token_pnl
AllTokenPnl == {<<c, coinBook[c]>> : c \in DOMAIN coinBook}

Quiet == \A t \in PnlTasks : At(t, "idle")

\* When no call is under way the summary agrees with the daily list: it counts
\* every recorded fill and every listed day and token, and its total is the sum
\* of the days, modulo its width.  The total and the day of a fill are updated
\* in separate accesses (pnl.rs:207-242, 316-360): every profit has entered both
\* or neither, but for fills that are confirmed while they are being recorded,
\* before their day is listed (pnl.rs:198, 344): of those the day never hears,
\* although they are updated "atomically" (pnl.rs:184).
TotalFollowsDays ==
    Quiet =>
        /\ Summary.total = Wrapped(MapThenSumSet(LAMBDA d : d[2].pnl, AllDailyPnl) + unlisted)
        /\ Summary.fills = nextId - 1
        /\ Summary.activeDays = Cardinality(AllDailyPnl)
        /\ Summary.trackedTokens = Cardinality(AllTokenPnl)
        /\ TrackCoins => MapThenSumSet(LAMBDA c : c[2].fillCount, AllTokenPnl) = 2 * Summary.fills

\* When no call is under way exactly the newest max_fill_history fills are
\* kept, by order and by id, and recent_fills finds them all: overlapping
\* prunes leave nothing behind and take nothing away (pnl.rs:440-460).
NewestKept ==
    Quiet =>
        LET kept == {seq \in 0 .. nextSeq - 1 : seq >= nextSeq - MaxHistory} IN
        /\ DOMAIN fillOrder = kept
        /\ DOMAIN fills = {fillOrder[seq] : seq \in kept}
        /\ Cardinality(DOMAIN fills) = Cardinality(kept)
        /\ RecentFills(MaxHistory) = {<<seq, fillOrder[seq]>> : seq \in kept}
=============================================================================
