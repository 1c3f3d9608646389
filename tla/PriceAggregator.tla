--------------------------- MODULE PriceAggregator ---------------------------
(***************************************************************************)
(* crates/phantom-pricing/src/aggregator.rs: PriceAggregator asks all its  *)
(* sources for the price of a pair at once, drops the outliers and keeps   *)
(* the median in a cache that several tasks share.                         *)
(*                                                                         *)
(* join_all touches nothing shared, so all answers of one query arrive in  *)
(* one step, at most SourceTimeout after it began.  Sums stay far below    *)
(* 2^256 and are plain integers.                                           *)
(***************************************************************************)
EXTENDS PriceSources, FiniteSets, FiniteSetsExt

CONSTANTS
    PriceTasks,    \* tasks that call get_price
    CacheTtl,      \* config.cache_ttl_seconds
    SourceTimeout, \* config.timeout_ms, in the clock's unit
    MinSources,    \* config.min_sources; with 0 the median of nothing panics
    MaxDeviation,  \* config.max_deviation_pct
    MaxClock       \* bound of the clock, for TLC

ASSUME PriceAssumption ==
    /\ IsFiniteSet(Sources)
    /\ CacheTtl \in Nat /\ SourceTimeout \in Nat
    /\ MinSources \in Nat \ {0} /\ MaxDeviation \in Nat

VARIABLES
    cache,   \* the cached price of each pair, a set of at most one entry
    query,   \* per task: where it is, its pair, when it asked, what it got
    clock    \* Utc::now()

priceVars == <<cache, query, clock>>

NoQuery == [at |-> "idle", pair |-> {}, asked |-> 0, got |-> {}]

PriceInit ==
    /\ cache = [p \in Pairs |-> {}]
    /\ query = [t \in PriceTasks |-> NoQuery]
    /\ clock = 0

-----------------------------------------------------------------------------
(* The arithmetic.  `quotes` is a function from the sources that answered  *)
(* to their prices.                                                        *)

Answered(quotes) == DOMAIN quotes

\* sorted[k - 1]
Ranked(quotes, k) ==
    CHOOSE v \in {quotes[s] : s \in Answered(quotes)} :
        /\ Cardinality({s \in Answered(quotes) : quotes[s] < v}) < k
        /\ Cardinality({s \in Answered(quotes) : quotes[s] <= v}) >= k

Mean(quotes) ==
    MapThenSumSet(LAMBDA s : quotes[s], Answered(quotes))
        \div Cardinality(Answered(quotes))

\* Faulty: the average in place of the median.
Median_Mean(quotes) == Mean(quotes)

Median(quotes) ==
    LET n   == Cardinality(Answered(quotes))
        mid == n \div 2
    IN  IF n % 2 = 0 THEN (Ranked(quotes, mid) + Ranked(quotes, mid + 1)) \div 2
                     ELSE Ranked(quotes, mid + 1)

Distance(a, b) == IF a > b THEN a - b ELSE b - a

IsOutlier(price, median) ==
    median # 0 /\ Distance(price, median) > (median * MaxDeviation) \div 100

Filtered(quotes) ==
    LET median == Median(quotes) IN
    [s \in {s \in Answered(quotes) : ~IsOutlier(quotes[s], median)} |-> quotes[s]]

\* calculate_confidence, for at least one price.
Confidence(quotes) ==
    LET n         == Cardinality(Answered(quotes))
        median    == Median(quotes)
        spread    == ((Ranked(quotes, n) - Ranked(quotes, 1)) * 100) \div median
        lost      == (spread * 50) \div 20
        agreement == IF n < 2 THEN 25
                     ELSE IF median = 0 \/ lost > 50 THEN 0 ELSE 50 - lost
        score     == (IF n < 5 THEN n ELSE 5) * 10 + agreement
        penalty   == IF n <= MinSources THEN 10 ELSE 0
    IN  IF score > penalty THEN score - penalty ELSE 0

\* What a query returns: nothing, or the aggregate over the sources that agree.
\* `asked` and `all` remember the query it came from.
Aggregate(quotes, asked) ==
    IF Answered(quotes) = {} \/ Cardinality(Answered(Filtered(quotes))) < MinSources
    THEN {}
    ELSE LET kept == Filtered(quotes) IN
         {[median |-> Median(kept), mean |-> Mean(kept),
           confidence |-> Confidence(kept), cachedAt |-> clock,
           asked |-> asked, all |-> quotes]}

-----------------------------------------------------------------------------
(* get_price                                                               *)

\* Faulty: the cached price is valid for one unit longer.
Cached_Longer(pair) == {e \in cache[pair] : clock - e.cachedAt <= CacheTtl + 1}

Cached(pair) == {e \in cache[pair] : clock - e.cachedAt <= CacheTtl}

ServeCached(t, pair) ==
    /\ query[t].at = "idle" /\ Cached(pair) # {}
    /\ query' = [query EXCEPT ![t].at = "served", ![t].pair = {pair},
                              ![t].asked = clock, ![t].got = Cached(pair)]
    /\ UNCHANGED <<cache, clock>>

AskSources(t, pair) ==
    /\ query[t].at = "idle" /\ Cached(pair) = {}
    /\ query' = [query EXCEPT ![t].at = "asking", ![t].pair = {pair}, ![t].asked = clock]
    /\ UNCHANGED <<cache, clock>>

\* For each pair the prices of the sources that may answer together.
Quotes ==
  [pair \in Pairs |->
    UNION {{quotes \in [answering -> Prices] :
                \A s \in answering : {quotes[s]} \in SourceAnswers(s, pair)} :
           answering \in {A \in SUBSET Sources : \A s \in Sources \ A : {} \in SourceAnswers(s, pair)}}]

\* Some sources answered, the others failed or timed out; a price is cached, an
\* error is not.
SourcesAnswer(t, quotes) ==
    LET found == Aggregate(quotes, query[t].asked) IN
    /\ query[t].at = "asking"
    /\ cache' = IF found = {} THEN cache
                ELSE [p \in Pairs |-> IF {p} = query[t].pair THEN found ELSE cache[p]]
    /\ query' = [query EXCEPT ![t].at = IF found = {} THEN "failed" ELSE "served",
                              ![t].got = found]
    /\ UNCHANGED clock

\* The caller has used what it got.
PriceUsed(t) ==
    /\ query[t].at \in {"served", "failed"}
    /\ query' = [query EXCEPT ![t] = NoQuery]
    /\ UNCHANGED <<cache, clock>>

InvalidateCache ==
    /\ cache' = [p \in Pairs |-> {}]
    /\ UNCHANGED <<query, clock>>

\* Time passes; no query takes longer than its timeout.
ClockAdvances ==
    /\ clock < MaxClock
    /\ \A t \in PriceTasks :
         /\ query[t].at = "asking" => clock < query[t].asked + SourceTimeout
         /\ query[t].at # "served"
    /\ clock' = clock + 1
    /\ UNCHANGED <<cache, query>>

PriceTask(t) ==
    \/ \E pair \in Pairs : ServeCached(t, pair) \/ AskSources(t, pair)
    \/ \E pair \in query[t].pair : \E quotes \in Quotes[pair] : SourcesAnswer(t, quotes)
    \/ PriceUsed(t)

PriceNext ==
    \/ \E t \in PriceTasks : PriceTask(t)
    \/ InvalidateCache
    \/ ClockAdvances

PriceSpec == PriceInit /\ [][PriceNext]_priceVars

-----------------------------------------------------------------------------
(* Properties                                                              *)

\* No price is older when it is served than the cache allows plus the time its
\* sources may have taken, although a slow query stores its result over a newer
\* one and is stamped when it ends, not when it asked (aggregator.rs:128-140,
\* 221-228).
FreshPrice ==
    \A t \in PriceTasks : \A e \in query[t].got :
        query[t].at = "served" => clock - e.asked <= CacheTtl + SourceTimeout

\* Sources that agree within the allowed deviation.
Agree(quotes, S) ==
    \A a, b \in S : (quotes[a] - quotes[b]) * 100 <= quotes[b] * MaxDeviation

\* Whatever a minority of the answering sources says, the median stays among
\* the prices of a majority that agrees, and the mean within the deviation of
\* them (calculate_median, is_outlier: aggregator.rs:236-270); but a majority
\* that agrees on zero lets everything into the mean, because nothing is an
\* outlier then (aggregator.rs:260).
HonestMajority ==
    \A p \in Pairs : \A e \in cache[p] : \A S \in SUBSET DOMAIN e.all :
        2 * Cardinality(S) > Cardinality(DOMAIN e.all) /\ Agree(e.all, S) =>
            LET low   == Min({e.all[s] : s \in S})
                high  == Max({e.all[s] : s \in S})
                slack == (high * MaxDeviation) \div 100
            IN  /\ low <= e.median /\ e.median <= high
                /\ low - slack <= e.mean
                /\ low > 0 => e.mean <= high + slack
=============================================================================
