--------------------------- MODULE Decisions_proofs ---------------------------
(***************************************************************************)
(* Theorems about OrderBook, PriceAggregator, GasOracle, ArbStrategy,      *)
(* FillSimulator and StrategyPipeline, for any number of orders, tasks,    *)
(* prices, fees, sources and strategies.                                   *)
(***************************************************************************)
EXTENDS OrderBook, PriceAggregator, GasOracle, ArbStrategy, FillSimulator, StrategyPipeline,
        FiniteSums, FiniteSetTheorems, SequenceTheorems, TLAPS

-----------------------------------------------------------------------------
(* OrderBook: the lifecycle and the cleanup                                *)

\* Every variable has its type in every reachable state.
THEOREM OrderBookTyped == Spec => []TypeOK
<1>1. Init => TypeOK
  BY DEF Init, TypeOK
<1>2. TypeOK /\ [Next]_vars => TypeOK'
  <2> SUFFICES ASSUME TypeOK, [Next]_vars PROVE TypeOK'
    OBVIOUS
  <2> USE DEF TypeOK, Goto, cleaner, Statuses, Tasks
  <2>1. ASSUME NEW d \in Discoverers, NEW x \in Orders, CheckAbsent(d, x) PROVE TypeOK'
    BY <2>1 DEF CheckAbsent
  <2>2. ASSUME NEW d \in Discoverers, InsertEntry(d) PROVE TypeOK'
    BY <2>2 DEF InsertEntry
  <2>3. ASSUME NEW x \in Orders, Move(x) PROVE TypeOK'
    <3>1. CASE Remove(x)
      BY <3>1 DEF Remove
    <3>2. CASE ~Remove(x)
      BY <2>3, <3>2 DEF Move, Activate, MarkFilled, MarkExpired, MarkCancelled, Transition
    <3> QED BY <3>1, <3>2
  <2>4. ASSUME NEW c \in Cleaners, NEW time \in 0 .. now, ScanBegins(c, time) PROVE TypeOK'
    BY <2>4 DEF ScanBegins, Overdue
  <2>5. ASSUME NEW c \in Cleaners, NEW x \in Orders, ScanVisits(c, x) PROVE TypeOK'
    BY <2>5 DEF ScanVisits
  <2>6. ASSUME NEW c \in Cleaners, ScanEnds(c) PROVE TypeOK'
    BY <2>6 DEF ScanEnds
  <2>7. CASE Tick
    BY <2>7 DEF Tick
  <2>8. CASE UNCHANGED vars
    BY <2>8 DEF vars
  <2> QED
    BY <2>1, <2>2, <2>3, <2>4, <2>5, <2>6, <2>7, <2>8 DEF Next, DiscoverStep, CleanStep
<1> QED
  BY <1>1, <1>2, PTL DEF Spec

\* Nobody else inserts: an insertion under way finds no entry.
Alone == \A d, e \in Discoverers : d = e

Absent == \A d \in Discoverers : pc[d] = "insert" => status[found[d]] = None

\* With one discoverer at most, no step lets an entry appear for an order whose
\* insertion is under way.
LEMMA AbsentStep ==
    ASSUME OrderBookAssumption, Alone, TypeOK, Absent, [Next]_vars
    PROVE  Absent'
<1> USE DEF TypeOK, Goto, cleaner, Absent, Tasks, OrderBookAssumption
<1>1. ASSUME NEW d \in Discoverers, NEW x \in Orders, CheckAbsent(d, x) PROVE Absent'
  BY <1>1 DEF CheckAbsent, Alone
<1>2. ASSUME NEW d \in Discoverers, InsertEntry(d) PROVE Absent'
  BY <1>2 DEF InsertEntry, Alone
<1>3. ASSUME NEW x \in Orders, Move(x) PROVE Absent'
  <2>1. CASE Remove(x)
    BY <2>1 DEF Remove
  <2>2. CASE ~Remove(x)
    BY <1>3, <2>2 DEF Move, Activate, MarkFilled, MarkExpired, MarkCancelled, Transition
  <2> QED BY <2>1, <2>2
<1>4. ASSUME NEW c \in Cleaners, NEW time \in 0 .. now, ScanBegins(c, time) PROVE Absent'
  BY <1>4 DEF ScanBegins
<1>5. ASSUME NEW c \in Cleaners, NEW x \in Orders, ScanVisits(c, x) PROVE Absent'
  BY <1>5 DEF ScanVisits, Overdue
<1>6. ASSUME NEW c \in Cleaners, ScanEnds(c) PROVE Absent'
  BY <1>6 DEF ScanEnds
<1>7. CASE Tick
  BY <1>7 DEF Tick
<1>8. CASE UNCHANGED vars
  BY <1>8 DEF vars
<1> QED
  BY <1>1, <1>2, <1>3, <1>4, <1>5, <1>6, <1>7, <1>8 DEF Next, DiscoverStep, CleanStep

\* A step taken where no insertion can overwrite follows the lifecycle.
LEMMA LifecycleStep ==
    ASSUME TypeOK, Absent, [Next]_vars
    PROVE  \A x \in Orders :
               status'[x] # status[x] => <<status[x], status'[x]>> \in Lifecycle
<1> USE DEF TypeOK, Lifecycle, Statuses, Ended
<1> SUFFICES ASSUME NEW y \in Orders, status'[y] # status[y]
             PROVE  <<status[y], status'[y]>> \in Lifecycle
  OBVIOUS
<1>1. ASSUME NEW d \in Discoverers, InsertEntry(d)
      PROVE  <<status[y], status'[y]>> \in Lifecycle
  BY <1>1 DEF InsertEntry, Absent
<1>2. ASSUME NEW x \in Orders, Move(x)
      PROVE  <<status[y], status'[y]>> \in Lifecycle
  BY <1>2 DEF Move, Activate, MarkFilled, MarkExpired, MarkCancelled, Transition, Remove
<1>3. ASSUME NEW c \in Cleaners, NEW x \in Orders, ScanVisits(c, x)
      PROVE  <<status[y], status'[y]>> \in Lifecycle
  BY <1>3 DEF ScanVisits, Overdue
<1>4. ASSUME \/ \E d \in Discoverers, x \in Orders : CheckAbsent(d, x)
             \/ \E c \in Cleaners : ScanEnds(c) \/ \E time \in 0 .. now : ScanBegins(c, time)
             \/ Tick
             \/ UNCHANGED vars
      PROVE  FALSE
  BY <1>4 DEF CheckAbsent, ScanEnds, ScanBegins, Tick, vars
<1> QED
  BY <1>1, <1>2, <1>3, <1>4 DEF Next, DiscoverStep, CleanStep

\* With at most one task that inserts, the book follows the lifecycle.
THEOREM LifecycleFollowed == ASSUME Alone PROVE Spec => FollowsLifecycle
<1>1. Init => Absent
  BY DEF Init, Absent, Tasks
<1>2. TypeOK /\ Absent /\ [Next]_vars => Absent'
  BY AbsentStep, OrderBookAssumption
<1>3. TypeOK /\ Absent /\ [Next]_vars =>
        [\A x \in Orders : status'[x] # status[x] => <<status[x], status'[x]>> \in Lifecycle]_vars
  BY LifecycleStep
<1> QED
  BY <1>1, <1>2, <1>3, OrderBookTyped, PTL DEF Spec, FollowsLifecycle

\* What a scan owes is overdue, and active until it has ended; what the scan has
\* visited of it has ended.
ScanInv ==
    \A c \in Cleaners : \A x \in owed[c] :
        /\ pc[c] = "scan"
        /\ IsExpired(x, cutoff[c])
        /\ status[x] \in {"active"} \union Ended
        /\ x \in visit[c] \/ status[x] \in Ended

\* Every step keeps it: where no insertion overwrites an entry, an owed order
\* leaves Active only for an end, and an end only by a removal.
LEMMA ScanStep ==
    ASSUME OrderBookAssumption, TypeOK, Absent, ScanInv, [Next]_vars
    PROVE  ScanInv'
<1> USE DEF TypeOK, Goto, cleaner, Tasks, OrderBookAssumption, IsExpired
<1>1. ASSUME NEW d \in Discoverers, NEW x \in Orders, CheckAbsent(d, x) PROVE ScanInv'
  BY <1>1 DEF CheckAbsent, ScanInv
<1>2. ASSUME NEW d \in Discoverers, InsertEntry(d) PROVE ScanInv'
  <2>1. \A c \in Cleaners : found[d] \notin owed[c]
    BY <1>2 DEF InsertEntry, Absent, ScanInv, Ended
  <2> QED
    BY <1>2, <2>1 DEF InsertEntry, ScanInv
<1>3. ASSUME NEW x \in Orders, Move(x) PROVE ScanInv'
  <2>1. CASE Remove(x)
    BY <2>1 DEF Remove, ScanInv
  <2>2. CASE ~Remove(x)
    BY <1>3, <2>2 DEF Move, Activate, MarkFilled, MarkExpired, MarkCancelled, Transition,
                      ScanInv, Ended
  <2> QED BY <2>1, <2>2
<1>4. ASSUME NEW c \in Cleaners, NEW time \in 0 .. now, ScanBegins(c, time) PROVE ScanInv'
  BY <1>4 DEF ScanBegins, Overdue, ScanInv
<1>5. ASSUME NEW c \in Cleaners, NEW x \in Orders, ScanVisits(c, x) PROVE ScanInv'
  BY <1>5 DEF ScanVisits, Overdue, ScanInv, Ended
<1>6. ASSUME NEW c \in Cleaners, ScanEnds(c) PROVE ScanInv'
  BY <1>6 DEF ScanEnds, ScanInv
<1>7. CASE Tick
  BY <1>7 DEF Tick, ScanInv
<1>8. CASE UNCHANGED vars
  BY <1>8 DEF vars, ScanInv
<1> QED
  BY <1>1, <1>2, <1>3, <1>4, <1>5, <1>6, <1>7, <1>8 DEF Next, DiscoverStep, CleanStep

\* With at most one task that inserts, a scan misses nothing.
THEOREM NothingMissed == ASSUME Alone PROVE Spec => []ScanMissesNothing
<1>1. Init => Absent /\ ScanInv
  BY DEF Init, Absent, ScanInv, Tasks
<1>2. TypeOK /\ Absent /\ [Next]_vars => Absent'
  BY AbsentStep, OrderBookAssumption
<1>3. TypeOK /\ Absent /\ ScanInv /\ [Next]_vars => ScanInv'
  BY ScanStep, OrderBookAssumption
<1>4. ScanInv => ScanMissesNothing
  BY DEF ScanInv, ScanMissesNothing
<1> QED
  BY <1>1, <1>2, <1>3, <1>4, OrderBookTyped, PTL DEF Spec

-----------------------------------------------------------------------------
(* PriceAggregator: how old a served price may be                          *)

\* A price was stamped at most SourceTimeout after its sources were asked.
Stamped(e) ==
    e.cachedAt \in Nat /\ e.asked \in Nat /\ e.cachedAt <= e.asked + SourceTimeout

\* The fields of a query.
QueryFields == {"at", "pair", "asked", "got"}

\* A query waits no longer than the timeout, and serves what was asked for in time.
QueryTimely(q) ==
    /\ DOMAIN q = QueryFields
    /\ q.at = "asking" => q.asked \in Nat /\ clock <= q.asked + SourceTimeout
    /\ q.at = "served" => \A e \in q.got : e.asked \in Nat /\ clock <= e.asked + CacheTtl + SourceTimeout

\* What every step of PriceAggregator keeps.
PriceInv ==
    /\ clock \in Nat
    /\ cache = [p \in Pairs |-> cache[p]]
    /\ query = [t \in PriceTasks |-> query[t]]
    /\ \A p \in Pairs : \A e \in cache[p] : Stamped(e)
    /\ \A t \in PriceTasks : QueryTimely(query[t])

\* At the start no price is cached.
LEMMA PriceInvInit ==
    ASSUME PriceInit
    PROVE  PriceInv
  BY DEF PriceInit, PriceInv, QueryTimely, QueryFields, NoQuery

\* A step of one task.
LEMMA PriceTaskStep ==
    ASSUME PriceInv, NEW t \in PriceTasks, NEW q,
           query' = [query EXCEPT ![t] = q], QueryTimely(q), clock' = clock,
           cache' = [p \in Pairs |-> cache'[p]],
           \A p \in Pairs : \A e \in cache'[p] : Stamped(e)
    PROVE  PriceInv'
<1>1. query' = [s \in PriceTasks |-> IF s = t THEN q ELSE query[s]]
  BY DEF PriceInv
<1> QED
  BY <1>1 DEF PriceInv, QueryTimely

\* Every step keeps served prices fresh.
LEMMA PriceInvStep ==
    ASSUME PriceInv, [PriceNext]_priceVars
    PROVE  PriceInv'
<1> USE PriceAssumption
<1>1. ASSUME NEW t \in PriceTasks, NEW pair \in Pairs, ServeCached(t, pair)
      PROVE  PriceInv'
  <2> DEFINE q == [query[t] EXCEPT !.at = "served", !.pair = {pair}, !.asked = clock, !.got = Cached(pair)]
  <2>1. query' = [query EXCEPT ![t] = q] /\ UNCHANGED <<cache, clock>>
    BY <1>1 DEF ServeCached, PriceInv
  <2>2. DOMAIN query[t] = QueryFields
    BY DEF PriceInv, QueryTimely
  <2>3. DOMAIN q = QueryFields /\ q.at = "served" /\ q.got = Cached(pair)
    BY <2>2 DEF QueryFields
  <2>4. \A e \in Cached(pair) : e.asked \in Nat /\ clock <= e.asked + CacheTtl + SourceTimeout
    BY DEF Cached, PriceInv, Stamped
  <2>5. QueryTimely(q)
    <3> HIDE DEF q
    <3> QED
      BY <2>3, <2>4 DEF QueryTimely, QueryFields
  <2> HIDE DEF q
  <2> QED
    BY <2>1, <2>5, PriceTaskStep DEF PriceInv
<1>2. ASSUME NEW t \in PriceTasks, NEW pair \in Pairs, AskSources(t, pair)
      PROVE  PriceInv'
  <2> DEFINE q == [query[t] EXCEPT !.at = "asking", !.pair = {pair}, !.asked = clock]
  <2>1. query' = [query EXCEPT ![t] = q] /\ UNCHANGED <<cache, clock>>
    BY <1>2 DEF AskSources, PriceInv
  <2>2. DOMAIN query[t] = QueryFields
    BY DEF PriceInv, QueryTimely
  <2>3. DOMAIN q = QueryFields /\ q.at = "asking" /\ q.asked = clock
    BY <2>2 DEF QueryFields
  <2>5. QueryTimely(q)
    <3> HIDE DEF q
    <3> QED
      BY <2>3 DEF QueryTimely, QueryFields, PriceInv
  <2> HIDE DEF q
  <2> QED
    BY <2>1, <2>5, PriceTaskStep DEF PriceInv
<1>3. ASSUME NEW t \in PriceTasks, NEW quotes, SourcesAnswer(t, quotes)
      PROVE  PriceInv'
  <2> DEFINE taken == Aggregate(quotes, query[t].asked)
             at == IF taken = {} THEN "failed" ELSE "served"
             q == [query[t] EXCEPT !.at = at, !.got = taken]
  <2>1. query' = [query EXCEPT ![t] = q] /\ clock' = clock
    BY <1>3 DEF SourcesAnswer, PriceInv
  <2>2. DOMAIN query[t] = QueryFields /\ query[t].asked \in Nat /\ clock <= query[t].asked + SourceTimeout
    BY <1>3 DEF SourcesAnswer, PriceInv, QueryTimely
  <2>3. DOMAIN q = QueryFields /\ q.at = at /\ q.got = taken
    <3> HIDE DEF taken, at
    <3> QED
      BY <2>2 DEF QueryFields
  <2>4. \A e \in taken : e.cachedAt = clock /\ e.asked = query[t].asked
    BY DEF Aggregate
  <2>5. /\ cache' = [p \in Pairs |-> cache'[p]]
        /\ \A p \in Pairs : cache'[p] = cache[p] \/ cache'[p] = taken
    <3> HIDE DEF taken
    <3> QED
      BY <1>3 DEF SourcesAnswer, PriceInv, taken
  <2> HIDE DEF taken
  <2>6. QueryTimely(q)
    <3> HIDE DEF q
    <3> QED
      BY <2>2, <2>3, <2>4 DEF QueryTimely, QueryFields, PriceInv
  <2>7. \A p \in Pairs : \A e \in cache'[p] : Stamped(e)
    BY <2>2, <2>4, <2>5 DEF Stamped, PriceInv
  <2> HIDE DEF q
  <2> QED
    BY <2>1, <2>5, <2>6, <2>7, PriceTaskStep
<1>4. ASSUME NEW t \in PriceTasks, PriceUsed(t)
      PROVE  PriceInv'
  <2>1. QueryTimely(NoQuery)
    BY DEF QueryTimely, QueryFields, NoQuery
  <2> QED
    BY <1>4, <2>1, PriceTaskStep DEF PriceUsed, PriceInv
<1>5. CASE InvalidateCache
  BY <1>5 DEF InvalidateCache, PriceInv, QueryTimely
<1>6. CASE ClockAdvances
  BY <1>6 DEF ClockAdvances, PriceInv, QueryTimely
<1>7. CASE UNCHANGED priceVars
  BY <1>7 DEF priceVars, PriceInv, QueryTimely
<1> QED
  BY <1>1, <1>2, <1>3, <1>4, <1>5, <1>6, <1>7 DEF PriceNext, PriceTask

\* For any sources, prices, tasks and settings, no price is served that is older than
\* the cache and its sources' timeout allow together.
THEOREM ServedPriceIsFresh == PriceSpec => []FreshPrice
<1>1. PriceInv => FreshPrice
  BY PriceAssumption DEF PriceInv, QueryTimely, FreshPrice
<1> QED
  BY PriceInvInit, PriceInvStep, <1>1, PTL DEF PriceSpec

-----------------------------------------------------------------------------
(* PriceAggregator: what a majority of the sources decides                 *)

\* What a query may work on: finitely many answers, each a price.
Quoting(q) ==
    /\ IsFiniteSet(DOMAIN q) /\ q = [s \in DOMAIN q |-> q[s]]
    /\ \A s \in DOMAIN q : q[s] \in Nat

UpTo(q, v) == {s \in DOMAIN q : q[s] <= v}
Below(q, v) == {s \in DOMAIN q : q[s] < v}

\* The quotes up to a value, and below it, are finitely many.
LEMMA UpToFinite ==
    ASSUME NEW q, Quoting(q), NEW v \in Int
    PROVE  /\ IsFiniteSet(UpTo(q, v)) /\ Cardinality(UpTo(q, v)) \in Nat
           /\ IsFiniteSet(Below(q, v)) /\ Cardinality(Below(q, v)) \in Nat
           /\ Cardinality(DOMAIN q) \in Nat
<1>1. IsFiniteSet(DOMAIN q) /\ UpTo(q, v) \subseteq DOMAIN q /\ Below(q, v) \subseteq DOMAIN q
  BY DEF Quoting, UpTo, Below
<1> QED BY <1>1, FS_Subset, FS_CardinalityType

\* Finitely many prices have a bound.
LEMMA QuotesBounded ==
    ASSUME NEW q, Quoting(q), NEW S, S \subseteq DOMAIN q
    PROVE  \E m \in Nat : \A s \in S : q[s] <= m
<1> DEFINE D == DOMAIN q
           Good == {U \in SUBSET D : \E m \in Nat : \A s \in U : q[s] <= m}
<1>1. IsFiniteSet(D) /\ \A s \in D : q[s] \in Nat
  BY DEF Quoting
<1>2. {} \in Good
  OBVIOUS
<1>3. ASSUME NEW U \in Good, NEW x \in D \ U PROVE U \union {x} \in Good
  <2>1. PICK m \in Nat : \A s \in U : q[s] <= m
    OBVIOUS
  <2> DEFINE n == IF q[x] <= m THEN m ELSE q[x]
  <2>2. q[x] \in Nat /\ U \subseteq D
    BY <1>1
  <2>3. n \in Nat /\ q[x] <= n /\ m <= n
    BY <2>2
  <2>4. \A s \in U \union {x} : q[s] \in Nat
    BY <1>1, <2>2
  <2> HIDE DEF n
  <2>5. \A s \in U \union {x} : q[s] <= n
    BY <2>1, <2>3, <2>4
  <2> QED BY <2>2, <2>3, <2>5
<1>4. Good = SUBSET D
  <2>1. Good \in SUBSET SUBSET D
    OBVIOUS
  <2> HIDE DEF Good, D
  <2> QED BY <1>1, <1>2, <1>3, <2>1, EverySubset
<1> QED BY <1>4

\* The k-th price exists: fewer than k are below it, and k at least not above it.
LEMMA RankExists ==
    ASSUME NEW q, Quoting(q), NEW k \in Nat, 1 <= k, k <= Cardinality(DOMAIN q)
    PROVE  /\ Ranked(q, k) \in {q[s] : s \in DOMAIN q} /\ Ranked(q, k) \in Nat
           /\ Cardinality(Below(q, Ranked(q, k))) < k
           /\ Cardinality(UpTo(q, Ranked(q, k))) >= k
<1> DEFINE D == DOMAIN q
           T == {v \in Nat : Cardinality(UpTo(q, v)) >= k}
           P(v) == Cardinality(Below(q, v)) < k /\ Cardinality(UpTo(q, v)) >= k
<1>0. \A s \in D : q[s] \in Nat
  BY DEF Quoting
<1>1. T # {}
  <2>1. PICK m \in Nat : \A s \in D : q[s] <= m
    BY QuotesBounded
  <2>2. UpTo(q, m) = D
    BY <2>1 DEF UpTo
  <2>3. m \in T
    BY <2>2
  <2> QED BY <2>3
<1>2. PICK v \in T : \A m \in T : v <= m
  <2> HIDE DEF T
  <2>1. T \in SUBSET Nat
    BY DEF T
  <2> QED BY <1>1, <2>1, LeastNumber
<1>3. v \in Nat /\ Cardinality(UpTo(q, v)) >= k
  OBVIOUS
<1>4. Cardinality(Below(q, v)) < k
  <2>1. CASE v = 0
    <3>1. Below(q, v) = {}
      BY <1>0, <2>1 DEF Below
    <3> QED BY <3>1, FS_EmptySet
  <2>2. CASE v # 0
    <3>1. v - 1 \in Nat /\ ~(v <= v - 1)
      BY <1>3, <2>2
    <3>2. ~(Cardinality(UpTo(q, v - 1)) >= k)
      BY <1>2, <3>1
    <3>3. Below(q, v) = UpTo(q, v - 1)
      BY <1>0, <1>3 DEF Below, UpTo
    <3>4. Cardinality(Below(q, v)) \in Nat
      BY <1>3, UpToFinite
    <3> QED BY <3>2, <3>3, <3>4
  <2> QED BY <2>1, <2>2
<1>5. v \in {q[s] : s \in D}
  <2> SUFFICES ASSUME v \notin {q[s] : s \in D} PROVE FALSE
    OBVIOUS
  <2>1. UpTo(q, v) = Below(q, v)
    <3>1. \A s \in D : q[s] # v
      OBVIOUS
    <3> QED BY <3>1, <1>0, <1>3 DEF UpTo, Below
  <2>2. Cardinality(Below(q, v)) \in Nat
    BY <1>3, UpToFinite
  <2> QED BY <1>3, <1>4, <2>1, <2>2
<1>6. Ranked(q, k) = CHOOSE w \in {q[s] : s \in D} : P(w)
  BY DEF Ranked, Answered, Below, UpTo
<1>7. P(v)
  BY <1>3, <1>4
<1> HIDE DEF P
<1>8. Ranked(q, k) \in {q[s] : s \in D} /\ P(Ranked(q, k))
  BY <1>5, <1>6, <1>7
<1> QED BY <1>0, <1>8 DEF P

\* A price whose rank has too few on both sides to miss a large set is inside it.
LEMMA RankInside ==
    ASSUME NEW q, Quoting(q), NEW S, S \subseteq DOMAIN q,
           NEW low \in Nat, NEW high \in Nat, \A s \in S : low <= q[s] /\ q[s] <= high,
           NEW k \in Nat, 1 <= k, k <= Cardinality(S),
           Cardinality(DOMAIN q) < k + Cardinality(S)
    PROVE  Ranked(q, k) \in Nat /\ low <= Ranked(q, k) /\ Ranked(q, k) <= high
<1> DEFINE D == DOMAIN q
           v == Ranked(q, k)
<1>0. IsFiniteSet(D) /\ IsFiniteSet(S) /\ Cardinality(S) \in Nat /\ Cardinality(D) \in Nat
      /\ Cardinality(S) <= Cardinality(D) /\ \A s \in D : q[s] \in Nat
  BY FS_Subset, FS_CardinalityType DEF Quoting
<1>1. v \in Nat /\ Cardinality(Below(q, v)) < k /\ Cardinality(UpTo(q, v)) >= k
  <2>1. k <= Cardinality(D)
    BY <1>0
  <2> QED BY <2>1, RankExists
<1> HIDE DEF v
<1>2. low <= v
  <2> SUFFICES ASSUME v < low PROVE FALSE
    BY <1>1
  <2>1. UpTo(q, v) \subseteq D \ S
    BY <1>0, <1>1 DEF UpTo
  <2>2. IsFiniteSet(D \ S) /\ Cardinality(D \ S) = Cardinality(D) - Cardinality(S)
    <3>1. D \cap S = S
      OBVIOUS
    <3> QED BY <1>0, <3>1, FS_Difference
  <2>3. Cardinality(UpTo(q, v)) <= Cardinality(D \ S)
    BY <2>1, <2>2, FS_Subset
  <2>4. Cardinality(UpTo(q, v)) \in Nat
    BY <1>1, UpToFinite
  <2> QED BY <1>0, <1>1, <2>2, <2>3, <2>4
<1>3. v <= high
  <2> SUFFICES ASSUME high < v PROVE FALSE
    BY <1>1
  <2>1. S \subseteq Below(q, v)
    BY <1>0, <1>1 DEF Below
  <2>2. IsFiniteSet(Below(q, v)) /\ Cardinality(Below(q, v)) \in Nat
    BY <1>1, UpToFinite
  <2>3. Cardinality(S) <= Cardinality(Below(q, v))
    BY <2>1, <2>2, FS_Subset
  <2> QED BY <1>0, <1>1, <2>2, <2>3
<1> QED BY <1>1, <1>2, <1>3 DEF v

\* The median is among the prices of any majority.
LEMMA MedianInside ==
    ASSUME NEW q, Quoting(q), NEW S, S \subseteq DOMAIN q,
           NEW low \in Nat, NEW high \in Nat, \A s \in S : low <= q[s] /\ q[s] <= high,
           2 * Cardinality(S) > Cardinality(DOMAIN q)
    PROVE  Median(q) \in Nat /\ low <= Median(q) /\ Median(q) <= high
<1> DEFINE n == Cardinality(DOMAIN q)
           m == Cardinality(S)
           mid == n \div 2
<1>0. n \in Nat /\ m \in Nat /\ m <= n /\ n < 2 * m
  BY FS_Subset, FS_CardinalityType DEF Quoting
<1> HIDE DEF n, m
<1>1. mid \in Nat /\ (n % 2 = 0 => n = 2 * mid) /\ (n % 2 # 0 => n = 2 * mid + 1)
  BY <1>0
<1>2. Median(q) = IF n % 2 = 0 THEN (Ranked(q, mid) + Ranked(q, mid + 1)) \div 2
                               ELSE Ranked(q, mid + 1)
  BY DEF Median, Answered, n
<1>3. \A k \in Nat : 1 <= k /\ k <= m /\ n < k + m =>
          Ranked(q, k) \in Nat /\ low <= Ranked(q, k) /\ Ranked(q, k) <= high
  BY RankInside DEF n, m
<1> HIDE DEF mid
<1>4. mid + 1 \in Nat /\ 1 <= mid + 1 /\ mid + 1 <= m /\ n < mid + 1 + m
  BY <1>0, <1>1
<1>5. Ranked(q, mid + 1) \in Nat /\ low <= Ranked(q, mid + 1) /\ Ranked(q, mid + 1) <= high
  BY <1>3, <1>4
<1>6. CASE n % 2 = 0
  <2>1. 1 <= mid /\ mid <= m /\ n < mid + m
    BY <1>0, <1>1, <1>6
  <2>2. Ranked(q, mid) \in Nat /\ low <= Ranked(q, mid) /\ Ranked(q, mid) <= high
    BY <1>1, <1>3, <2>1
  <2> DEFINE a == Ranked(q, mid)
             b == Ranked(q, mid + 1)
  <2>3. Median(q) = (a + b) \div 2
    BY <1>2, <1>6
  <2>4. a \in Nat /\ b \in Nat /\ low <= a /\ a <= high /\ low <= b /\ b <= high
    BY <1>5, <2>2
  <2> HIDE DEF a, b
  <2>5. (a + b) \div 2 \in Nat /\ low <= (a + b) \div 2 /\ (a + b) \div 2 <= high
    BY <2>4
  <2> QED BY <2>3, <2>5
<1>7. CASE n % 2 # 0
  BY <1>2, <1>5, <1>7
<1> QED BY <1>6, <1>7

\* The fold of the mean is a sum.
LEMMA QuotesFolded ==
    ASSUME NEW q, Quoting(q)
    PROVE  MapThenSumSet(LAMBDA s : q[s], DOMAIN q) = SumOver(q, DOMAIN q)
<1> DEFINE A == DOMAIN q
           Pick(s) == CHOOSE x \in s : TRUE
           Next1(g, s) == IF s = {} THEN 0 ELSE q[Pick(s)] + g[s \ {Pick(s)}]
           P(g) == g = [s \in SUBSET A |-> Next1(g, s)]
           it == CHOOSE g : P(g)
<1>1. MapThenSumSet(LAMBDA s : q[s], A) = it[A]
  BY DEF MapThenSumSet, MapThenFoldSet
<1>2. ASSUME NEW g PROVE SumsUp(g, q, A) <=> P(g)
  BY DEF SumsUp
<1>3. IsFiniteSet(A) /\ \A x \in A : q[x] \in Int
  BY DEF Quoting
<1>4. PICK g : SumsUp(g, q, A)
  BY <1>3, SumsExist
<1> HIDE DEF P
<1>5. P(g)
  BY <1>2, <1>4
<1>6. P(it)
  BY <1>5
<1>7. SumsUp(it, q, A)
  BY <1>2, <1>6
<1> HIDE DEF it
<1>8. it[A] = SumOver(q, A)
  BY <1>3, <1>7, SumsAtTop
<1> QED BY <1>1, <1>8

\* The mean lies where all prices lie.
LEMMA MeanInside ==
    ASSUME NEW q, Quoting(q), DOMAIN q # {}, NEW low \in Int, NEW high \in Int,
           \A s \in DOMAIN q : low <= q[s] /\ q[s] <= high
    PROVE  Mean(q) \in Int /\ low <= Mean(q) /\ Mean(q) <= high
<1> DEFINE n == Cardinality(DOMAIN q)
           sum == SumOver(q, DOMAIN q)
<1>1. IsFiniteSet(DOMAIN q) /\ \A s \in DOMAIN q : q[s] \in Int
  BY DEF Quoting
<1>2. n \in Nat /\ n > 0
  BY <1>1, FS_CardinalityType, FS_EmptySet
<1>3. sum \in Int
  BY <1>1, SumType
<1>4. n * low <= sum /\ sum <= n * high
  BY <1>1, SumBounds
<1>5. Mean(q) = sum \div n
  BY QuotesFolded DEF Mean, Answered
<1> HIDE DEF n, sum
<1>6. /\ sum \div n \in Int /\ n * (sum \div n) <= sum /\ sum < n * (sum \div n) + n
  BY <1>2, <1>3
<1> DEFINE d == sum \div n
<1>7. d \in Int /\ n * d <= n * high /\ n * low < n * d + n
  <2>1. n * d \in Int /\ n * high \in Int /\ n * low \in Int
    BY <1>2, <1>6
  <2> QED BY <1>2, <1>3, <1>4, <1>6, <2>1
<1> HIDE DEF d
<1>8. d <= high
  <2> SUFFICES ASSUME d >= high + 1 PROVE FALSE
    BY <1>7
  <2>1. n * d >= n * (high + 1) /\ n * (high + 1) = n * high + n /\ n * high \in Int
    BY <1>2, <1>7
  <2>2. n * d \in Int
    BY <1>2, <1>7
  <2> QED BY <1>2, <1>7, <2>1, <2>2
<1>9. low <= d
  <2> SUFFICES ASSUME d + 1 <= low PROVE FALSE
    BY <1>7
  <2>1. n * (d + 1) <= n * low /\ n * (d + 1) = n * d + n /\ n * d \in Int /\ n * low \in Int
    BY <1>2, <1>7
  <2> QED BY <1>2, <1>7, <2>1
<1> QED BY <1>5, <1>7, <1>8, <1>9 DEF d

\* The least and the greatest price of some sources.
LEMMA Extremes ==
    ASSUME NEW q, Quoting(q), NEW S, S \subseteq DOMAIN q, S # {}
    PROVE  LET T == {q[s] : s \in S} IN
           /\ Min(T) \in T /\ \A v \in T : Min(T) <= v
           /\ Max(T) \in T /\ \A v \in T : v <= Max(T)
<1> DEFINE T == {q[s] : s \in S}
           Least(v) == \A w \in T : v <= w
           Greatest(v) == \A w \in T : v >= w
<1>1. T \in SUBSET Nat /\ T # {}
  BY DEF Quoting
<1>2. Min(T) = CHOOSE v \in T : Least(v)
  BY DEF Min
<1>3. Max(T) = CHOOSE v \in T : Greatest(v)
  BY DEF Max
<1>4. \E v \in T : Least(v)
  <2> HIDE DEF T
  <2> QED BY <1>1, LeastNumber
<1>5. PICK top \in Nat : \A v \in T : v <= top
  BY QuotesBounded
<1> HIDE DEF T
<1>6. PICK m \in T : \A v \in T : v <= m
  BY <1>1, <1>5, GreatestNumber
<1>7. \A v \in T : m >= v
  BY <1>1, <1>6
<1>8. Greatest(m)
  BY <1>7
<1> HIDE DEF Least, Greatest
<1>9. Min(T) \in T /\ Least(Min(T)) /\ Max(T) \in T /\ Greatest(Max(T))
  BY <1>2, <1>3, <1>4, <1>6, <1>8
<1>10. \A v \in T : v <= Max(T)
  BY <1>1, <1>9 DEF Greatest
<1> QED BY <1>9, <1>10 DEF Least, T

\* Percentages grow with what they are taken of.
LEMMA Shares ==
    ASSUME NEW a \in Nat, NEW b \in Nat, a <= b
    PROVE  /\ a * MaxDeviation \in Nat /\ b * MaxDeviation \in Nat
           /\ a * MaxDeviation <= b * MaxDeviation
           /\ (a * MaxDeviation) \div 100 \in Nat
           /\ (a * MaxDeviation) \div 100 <= (b * MaxDeviation) \div 100
<1>1. MaxDeviation \in Nat
  BY PriceAssumption
<1>2. a * MaxDeviation \in Nat /\ b * MaxDeviation \in Nat /\ a * MaxDeviation <= b * MaxDeviation
  BY <1>1
<1> DEFINE x == a * MaxDeviation
           y == b * MaxDeviation
<1>3. x \in Nat /\ y \in Nat /\ x <= y
  BY <1>2
<1> HIDE DEF x, y
<1>4. x \div 100 \in Nat /\ x \div 100 <= y \div 100
  BY <1>3
<1> QED BY <1>2, <1>4 DEF x, y

\* Prices that agree with each other agree with any median among them.
LEMMA AgreeingStay ==
    ASSUME NEW q, Quoting(q), NEW S, S \subseteq DOMAIN q, Agree(q, S),
           NEW lo \in S, NEW hi \in S, \A s \in S : q[lo] <= q[s] /\ q[s] <= q[hi],
           NEW median \in Nat, q[lo] <= median, median <= q[hi], NEW s \in S
    PROVE  ~IsOutlier(q[s], median)
<1> DEFINE p == q[s]
           low == q[lo]
           high == q[hi]
           slack == median * MaxDeviation
<1>1. /\ p \in Nat /\ low \in Nat /\ high \in Nat /\ low <= p /\ p <= high
      /\ low <= median /\ median <= high
  BY DEF Quoting
<1>2. (p - low) * 100 <= low * MaxDeviation /\ (high - p) * 100 <= p * MaxDeviation
  BY DEF Agree
<1> HIDE DEF p, low, high
<1>3. slack \in Nat /\ low * MaxDeviation \in Nat /\ low * MaxDeviation <= slack
  BY <1>1, Shares
<1> HIDE DEF slack
<1>4. Distance(p, median) \in Nat /\ Distance(p, median) * 100 <= slack
  <2>1. CASE p > median
    BY <1>1, <1>2, <1>3, <2>1 DEF Distance
  <2>2. CASE ~(p > median)
    <3>1. p * MaxDeviation \in Nat /\ p * MaxDeviation <= slack
      BY <1>1, <2>2, Shares DEF slack
    <3> QED BY <1>1, <1>2, <1>3, <2>2, <3>1 DEF Distance
  <2> QED BY <2>1, <2>2
<1>5. Distance(p, median) <= slack \div 100
  <2> DEFINE d == Distance(p, median)
  <2>1. d \in Nat /\ d * 100 <= slack /\ slack \in Nat
    BY <1>3, <1>4
  <2> HIDE DEF d
  <2> QED BY <2>1 DEF d
<1>6. slack \div 100 \in Nat
  BY <1>3
<1> QED BY <1>4, <1>5, <1>6 DEF IsOutlier, p, slack

\* What remains after the filter lies around the majority.
LEMMA KeptAround ==
    ASSUME NEW median \in Nat, NEW low \in Nat, NEW high \in Nat, low <= median, median <= high,
           NEW price \in Nat, ~IsOutlier(price, median)
    PROVE  LET slack == (high * MaxDeviation) \div 100 IN
           low - slack <= price /\ (low > 0 => price <= high + slack)
<1> DEFINE slack == (high * MaxDeviation) \div 100
           near == (median * MaxDeviation) \div 100
<1> SUFFICES low - slack <= price /\ (low > 0 => price <= high + slack)
  OBVIOUS
<1>1. slack \in Nat /\ near \in Nat /\ near <= slack
  BY Shares
<1>2. median # 0 => ~(Distance(price, median) > near)
  BY DEF IsOutlier
<1> HIDE DEF slack, near
<1>3. CASE median = 0
  BY <1>1, <1>3
<1>4. CASE median # 0
  BY <1>1, <1>2, <1>4 DEF Distance
<1> QED BY <1>3, <1>4

-----------------------------------------------------------------------------
\* What the aggregate of a query owes its majority.
HonestEntry(e) ==
    \A S \in SUBSET DOMAIN e.all :
        2 * Cardinality(S) > Cardinality(DOMAIN e.all) /\ Agree(e.all, S) =>
            LET low   == Min({e.all[s] : s \in S})
                high  == Max({e.all[s] : s \in S})
                slack == (high * MaxDeviation) \div 100
            IN  /\ low <= e.median /\ e.median <= high
                /\ low - slack <= e.mean
                /\ low > 0 => e.mean <= high + slack

\* What is made from the quotes of a query follows any majority that agrees.
LEMMA AggregateIsHonest ==
    ASSUME NEW q, Quoting(q), NEW asked, NEW e \in Aggregate(q, asked)
    PROVE  HonestEntry(e)
<1> DEFINE kept == Filtered(q)
           med == Median(q)
<1>1. e.all = q /\ e.median = Median(kept) /\ e.mean = Mean(kept)
      /\ ~(Cardinality(DOMAIN kept) < MinSources)
  BY DEF Aggregate, Answered
<1>2. kept = [s \in {s \in DOMAIN q : ~IsOutlier(q[s], med)} |-> q[s]]
  BY DEF Filtered, Answered
<1> HIDE DEF kept, med
<1>3. /\ DOMAIN kept \subseteq DOMAIN q
      /\ \A s \in DOMAIN q : s \in DOMAIN kept <=> ~IsOutlier(q[s], med)
      /\ \A s \in DOMAIN kept : kept[s] = q[s]
  BY <1>2
<1>4. IsFiniteSet(DOMAIN q) /\ IsFiniteSet(DOMAIN kept)
      /\ Cardinality(DOMAIN kept) \in Nat /\ Cardinality(DOMAIN q) \in Nat
      /\ Cardinality(DOMAIN kept) <= Cardinality(DOMAIN q)
  BY <1>3, FS_Subset, FS_CardinalityType DEF Quoting
<1>5. Quoting(kept)
  <2>1. kept = [s \in DOMAIN kept |-> kept[s]]
    BY <1>2
  <2>2. \A s \in DOMAIN kept : kept[s] \in Nat
    BY <1>3 DEF Quoting
  <2> QED BY <1>4, <2>1, <2>2 DEF Quoting
<1>6. DOMAIN kept # {}
  BY <1>1, <1>4, FS_EmptySet, PriceAssumption
<1> SUFFICES ASSUME NEW S \in SUBSET DOMAIN q,
                    2 * Cardinality(S) > Cardinality(DOMAIN q), Agree(q, S)
             PROVE  LET low   == Min({q[s] : s \in S})
                        high  == Max({q[s] : s \in S})
                        slack == (high * MaxDeviation) \div 100
                    IN  /\ low <= e.median /\ e.median <= high
                        /\ low - slack <= e.mean
                        /\ low > 0 => e.mean <= high + slack
  BY <1>1 DEF HonestEntry
<1> DEFINE low == Min({q[s] : s \in S})
           high == Max({q[s] : s \in S})
           slack == (high * MaxDeviation) \div 100
<1>7. S # {}
  BY <1>4, FS_EmptySet
<1>8. /\ low \in {q[s] : s \in S} /\ high \in {q[s] : s \in S}
      /\ \A v \in {q[s] : s \in S} : low <= v /\ v <= high
  BY <1>7, Extremes
<1> HIDE DEF low, high
<1>9. PICK lo \in S, hi \in S : low = q[lo] /\ high = q[hi]
  BY <1>8
<1>10. /\ low \in Nat /\ high \in Nat /\ \A s \in S : low <= q[s] /\ q[s] <= high
  BY <1>8, <1>9 DEF Quoting
<1>11. med \in Nat /\ low <= med /\ med <= high
  BY <1>10, MedianInside DEF med
<1>12. S \subseteq DOMAIN kept
  <2>1. ASSUME NEW s \in S PROVE ~IsOutlier(q[s], med)
    BY <1>9, <1>10, <1>11, AgreeingStay
  <2> QED BY <1>3, <2>1
<1>13. 2 * Cardinality(S) > Cardinality(DOMAIN kept)
  <2>1. Cardinality(S) \in Nat
    BY <1>4, FS_Subset, FS_CardinalityType
  <2> QED BY <1>4, <2>1
<1>14. low <= e.median /\ e.median <= high
  <2>1. \A s \in S : low <= kept[s] /\ kept[s] <= high
    BY <1>3, <1>10, <1>12
  <2>2. low <= Median(kept) /\ Median(kept) <= high
    BY <2>1, <1>5, <1>10, <1>12, <1>13, MedianInside
  <2> QED BY <1>1, <2>2
<1>15. \A s \in DOMAIN kept : /\ kept[s] \in Nat /\ low - slack <= kept[s]
                              /\ low > 0 => kept[s] <= high + slack
  <2> SUFFICES ASSUME NEW s \in DOMAIN kept
               PROVE  /\ kept[s] \in Nat /\ low - slack <= kept[s]
                      /\ low > 0 => kept[s] <= high + slack
    OBVIOUS
  <2>1. kept[s] \in Nat /\ kept[s] = q[s] /\ ~IsOutlier(kept[s], med)
    BY <1>3, <1>5 DEF Quoting
  <2> QED BY <2>1, <1>10, <1>11, KeptAround
<1>16. slack \in Nat
  BY <1>10, Shares
<1> HIDE DEF slack
<1>17. low - slack <= e.mean
  <2>1. PICK top \in Nat : \A s \in DOMAIN kept : kept[s] <= top
    BY <1>5, QuotesBounded
  <2>2. low - slack \in Int
    BY <1>10, <1>16
  <2>3. low - slack <= Mean(kept)
    BY <1>5, <1>6, <1>15, <2>1, <2>2, MeanInside
  <2> QED BY <1>1, <2>3
<1>18. low > 0 => e.mean <= high + slack
  <2> SUFFICES ASSUME low > 0 PROVE e.mean <= high + slack
    OBVIOUS
  <2>1. low - slack \in Int /\ high + slack \in Int
    BY <1>10, <1>16
  <2>2. Mean(kept) <= high + slack
    BY <1>5, <1>6, <1>15, <2>1, MeanInside
  <2> QED BY <1>1, <2>2
<1> QED BY <1>14, <1>17, <1>18 DEF low, high, slack

\* Every cached price is the aggregate of what some sources answered.
HonestInv ==
    /\ PriceInv
    /\ \A p \in Pairs : \A e \in cache[p] : HonestEntry(e)
    /\ \A t \in PriceTasks : query[t].pair \subseteq Pairs

\* At the start no price is cached.
LEMMA HonestInvInit == ASSUME PriceInit PROVE HonestInv
BY PriceInvInit DEF PriceInit, HonestInv, NoQuery

\* Every step keeps the cached prices honest.
LEMMA HonestInvStep ==
    ASSUME HonestInv, [PriceNext]_priceVars
    PROVE  HonestInv'
<1>1. PriceInv'
  BY PriceInvStep DEF HonestInv
<1>2. /\ query = [t \in PriceTasks |-> query[t]]
      /\ \A t \in PriceTasks : DOMAIN query[t] = QueryFields /\ query[t].pair \subseteq Pairs
      /\ \A p \in Pairs : \A e \in cache[p] : HonestEntry(e)
  BY DEF HonestInv, PriceInv, QueryTimely
<1>3. ASSUME NEW t \in PriceTasks, NEW pair \in query[t].pair, NEW quotes \in Quotes[pair],
             SourcesAnswer(t, quotes)
      PROVE  \A p \in Pairs : \A e \in cache'[p] : HonestEntry(e)
  <2>1. pair \in Pairs
    BY <1>2
  <2>2. PICK answering \in SUBSET Sources : quotes \in [answering -> Prices]
    BY <2>1 DEF Quotes
  <2>3. Quoting(quotes)
    <3>1. IsFiniteSet(answering)
      BY PriceAssumption, FS_Subset
    <3> QED BY <2>2, <3>1, SourcesAssumption DEF Quoting
  <2> DEFINE taken == Aggregate(quotes, query[t].asked)
  <2>4. \A e \in taken : HonestEntry(e)
    BY <2>3, AggregateIsHonest
  <2>5. \A p \in Pairs : cache'[p] = cache[p] \/ cache'[p] = taken
    <3> HIDE DEF taken
    <3> QED BY <1>3 DEF SourcesAnswer, taken
  <2> HIDE DEF taken
  <2> QED BY <1>2, <2>4, <2>5
<1>4. \A p \in Pairs : \A e \in cache'[p] : HonestEntry(e)
  <2>1. CASE UNCHANGED cache
    BY <1>2, <2>1
  <2>2. CASE InvalidateCache
    BY <2>2 DEF InvalidateCache
  <2>3. ASSUME NEW t \in PriceTasks, PriceTask(t)
        PROVE  \A p \in Pairs : \A e \in cache'[p] : HonestEntry(e)
    BY <1>3, <2>1, <2>3 DEF PriceTask, ServeCached, AskSources, PriceUsed
  <2> QED BY <2>1, <2>2, <2>3 DEF PriceNext, ClockAdvances, priceVars
<1>5. \A t \in PriceTasks : query'[t].pair \subseteq Pairs
  <2>1. CASE UNCHANGED query
    BY <1>2, <2>1
  <2>2. ASSUME NEW u \in PriceTasks, PriceTask(u)
        PROVE  \A t \in PriceTasks : query'[t].pair \subseteq Pairs
    <3>1. PICK q : query' = [query EXCEPT ![u] = q] /\ q.pair \subseteq Pairs
      <4>1. ASSUME NEW pair \in Pairs, ServeCached(u, pair) \/ AskSources(u, pair)
            PROVE  \E q : query' = [query EXCEPT ![u] = q] /\ q.pair \subseteq Pairs
        <5>1. CASE ServeCached(u, pair)
          <6> DEFINE q == [query[u] EXCEPT !.at = "served", !.pair = {pair}, !.asked = clock,
                                           !.got = Cached(pair)]
          <6>1. query' = [query EXCEPT ![u] = q]
            BY <1>2, <5>1 DEF ServeCached
          <6>2. q.pair = {pair}
            BY <1>2 DEF QueryFields
          <6> QED BY <6>1, <6>2
        <5>2. CASE AskSources(u, pair)
          <6> DEFINE q == [query[u] EXCEPT !.at = "asking", !.pair = {pair}, !.asked = clock]
          <6>1. query' = [query EXCEPT ![u] = q]
            BY <1>2, <5>2 DEF AskSources
          <6>2. q.pair = {pair}
            BY <1>2 DEF QueryFields
          <6> QED BY <6>1, <6>2
        <5> QED BY <4>1, <5>1, <5>2
      <4>2. ASSUME NEW quotes, SourcesAnswer(u, quotes)
            PROVE  \E q : query' = [query EXCEPT ![u] = q] /\ q.pair \subseteq Pairs
        <5> DEFINE merged == Aggregate(quotes, query[u].asked)
                   at == IF merged = {} THEN "failed" ELSE "served"
                   q == [query[u] EXCEPT !.at = at, !.got = merged]
        <5>1. query' = [query EXCEPT ![u] = q]
          BY <1>2, <4>2 DEF SourcesAnswer
        <5> HIDE DEF merged, at
        <5>2. q.pair = query[u].pair
          BY <1>2 DEF QueryFields
        <5> QED BY <1>2, <5>1, <5>2
      <4>3. CASE PriceUsed(u)
        <5>1. query' = [query EXCEPT ![u] = NoQuery]
          BY <4>3 DEF PriceUsed
        <5>2. NoQuery.pair \subseteq Pairs
          BY DEF NoQuery
        <5> QED BY <5>1, <5>2
      <4> QED BY <2>2, <4>1, <4>2, <4>3 DEF PriceTask
    <3>2. \A t \in PriceTasks : query'[t] = IF t = u THEN q ELSE query[t]
      BY <1>2, <3>1
    <3> QED BY <1>2, <3>1, <3>2
  <2> QED BY <2>1, <2>2 DEF PriceNext, InvalidateCache, ClockAdvances, priceVars
<1> QED BY <1>1, <1>4, <1>5 DEF HonestInv

\* For any sources, prices and allowed deviation: a minority of the answering
\* sources moves neither the median out of what an agreeing majority says nor
\* the mean further from it than the deviation; but upwards it may when the
\* majority says zero, which nothing deviates from (aggregator.rs:180-270).
THEOREM MajorityDecides == PriceSpec => []HonestMajority
<1>1. HonestInv => HonestMajority
  BY DEF HonestInv, HonestEntry, HonestMajority
<1> QED
  BY HonestInvInit, HonestInvStep, <1>1, PTL DEF PriceSpec

-----------------------------------------------------------------------------
(* GasOracle: a price covers the fees of the moment                        *)

Fees   == [base : Nat, tip : 0 .. FeeMax, at : Nat, genuine : BOOLEAN]
\* A base fee that the node gave, or the fallback.
Quoted == [fee : Nat, genuine : BOOLEAN]
\* A price of the oracle.
GasPrices == [base : Nat, priority : Nat, maxFee : Nat, genuine : BOOLEAN]
\* What a call of the oracle has at hand.
GasCalls ==
    [at : {"idle", "base", "tip", "priced"}, since : Nat, base : SUBSET Quoted,
     price : SUBSET GasPrices]

\* What k blocks, each an eighth more at most, make of a base fee.
Grown(old, fee, k) ==
    /\ k = 0 => fee <= old
    /\ k = 1 => 8 * fee <= 9 * old
    /\ k = 2 => 64 * fee <= 81 * old
    /\ k = 3 => 512 * fee <= 729 * old
    /\ k = 4 => 4096 * fee <= 6561 * old
    /\ k = 5 => 32768 * fee <= 59049 * old

\* `fee` was the base fee of the chain or more, at some block from..to.
KnownFee(fee, from, to) ==
    \E s \in Nat : from <= s /\ s <= to /\ to <= blocks /\ Grown(fee, baseFee, blocks - s)

\* The fees, the cache and the calls have their types.
GasTyped ==
    /\ fees \subseteq Fees
    /\ gasTask \in [GasTasks -> GasCalls]
    /\ baseFee \in Nat
    /\ blocks \in Nat

\* A request is answered in time, with a fee the chain had meanwhile.
AnsweredInTime(call) ==
    /\ call.at \in {"base", "tip"} =>
         call.since <= blocks /\ blocks <= call.since + FeeLatency
    /\ call.at = "tip" =>
         \A b \in call.base : b.genuine => KnownFee(b.fee, call.since, blocks)

\* A cached fee was one of the chain not much before it was cached.
CachedInTime(e) ==
    /\ e.at <= blocks
    /\ e.genuine => \E from \in Nat : e.at <= from + FeeLatency /\ KnownFee(e.base, from, e.at)

\* A price in use covers the base fee and its own tip.
PriceCovers(p) ==
    /\ p.priority <= p.maxFee
    /\ p.genuine /\ p.maxFee < FeeMax => p.maxFee >= baseFee + p.priority

\* What every step of GasOracle keeps.
GasInv ==
    /\ GasTyped
    /\ \A e \in fees : CachedInTime(e)
    /\ \A t \in GasTasks :
         /\ AnsweredInTime(gasTask[t])
         /\ gasTask[t].at # "priced" => gasTask[t].price = {}
         /\ \A p \in gasTask[t].price : PriceCovers(p)

\* One block more makes at most nine eighths of a base fee.
LEMMA GrownStep ==
    ASSUME NEW old \in Nat, NEW fee \in Nat, NEW k \in Nat, Grown(old, fee, k),
           NEW change \in {-1, 1}
    PROVE  /\ fee + change * (fee \div 8) \in Nat
           /\ Grown(old, fee + change * (fee \div 8), k + 1)
<1> DEFINE eighth == fee \div 8
           next == fee + change * eighth
<1>1. eighth \in Nat /\ 8 * eighth <= fee
  OBVIOUS
<1>2. next \in Nat /\ 8 * next <= 9 * fee
  <2> HIDE DEF eighth
  <2>1. CASE change = 1
    BY <1>1, <2>1
  <2>2. CASE change = -1
    BY <1>1, <2>2
  <2> QED BY <2>1, <2>2
<1> HIDE DEF next
<1>3. Grown(old, next, k + 1)
  BY <1>2 DEF Grown
<1> QED
  BY <1>2, <1>3 DEF next

\* Twice a fee covers what five blocks can make of it.
LEMMA GrownCovers ==
    ASSUME NEW old \in Nat, NEW fee \in Nat, NEW k \in 0 .. 5, Grown(old, fee, k)
    PROVE  fee <= 2 * old
BY DEF Grown

\* The price made from a pair of fees.
LEMMA PriceMade ==
    ASSUME GasAssumption, NEW e, e.base \in Nat, e.tip \in 0 .. FeeMax, e.genuine \in BOOLEAN,
           NEW level \in Levels, baseFee \in Nat, e.genuine => baseFee <= 2 * e.base
    PROVE  GasPrice(e, level) \in GasPrices /\ PriceCovers(GasPrice(e, level))
<1> DEFINE tip == ApplyUrgency(e.tip, level)
           most == ComputeMaxFee(e.base, tip)
<1>1. tip \in 0 .. FeeMax
  <2> DEFINE product == e.tip * Bps[level]
  <2>1. product \in Nat
    BY DEF GasAssumption
  <2> HIDE DEF product
  <2>2. product \div 10000 \in 0 .. product
    BY <2>1
  <2> QED
    BY <2>1, <2>2 DEF ApplyUrgency, GasAssumption, product
<1>2. most \in Nat /\ tip <= most /\ (most < FeeMax => most = 2 * e.base + tip)
  <2> HIDE DEF tip
  <2> QED
    BY <1>1 DEF ComputeMaxFee, GasAssumption
<1>3. GasPrice(e, level) = [base |-> e.base, priority |-> tip, maxFee |-> most, genuine |-> e.genuine]
  BY DEF GasPrice
<1> HIDE DEF tip, most
<1> QED
  BY <1>1, <1>2, <1>3 DEF GasPrices, PriceCovers, GasAssumption

\* A fee that is known stays known, a block later too.
LEMMA KnownLater ==
    ASSUME GasTyped, NEW change \in {-1, 1}, Block(baseFee + change * (baseFee \div 8)),
           NEW fee \in Nat, NEW from \in Nat, NEW to \in Nat, KnownFee(fee, from, to)
    PROVE  KnownFee(fee, from, to)'
<1>1. PICK s \in Nat : from <= s /\ s <= to /\ to <= blocks /\ Grown(fee, baseFee, blocks - s)
  BY DEF KnownFee
<1>2. blocks' = blocks + 1 /\ baseFee' = baseFee + change * (baseFee \div 8)
  BY DEF Block
<1>3. blocks - s \in Nat /\ blocks' - s = (blocks - s) + 1
  BY <1>1, <1>2 DEF GasTyped
<1>4. Grown(fee, baseFee', blocks' - s)
  BY <1>1, <1>2, <1>3, GrownStep DEF GasTyped
<1> QED
  BY <1>1, <1>2, <1>4 DEF KnownFee, GasTyped

\* At the start no fee is cached.
LEMMA GasInvInit == ASSUME GasAssumption, GasInit PROVE GasInv
<1>1. NoGasTask \in GasCalls /\ NoGasTask.at = "idle" /\ NoGasTask.price = {}
  BY DEF NoGasTask, GasCalls
<1>2. \A t \in GasTasks : gasTask[t] = NoGasTask
  BY DEF GasInit
<1>3. GasTyped
  BY <1>1 DEF GasInit, GasTyped, GasAssumption
<1> HIDE DEF NoGasTask
<1> QED
  BY <1>1, <1>2, <1>3 DEF GasInit, GasInv, CachedInTime, AnsweredInTime

\* A task moves and the chain does not.
LEMMA GasTaskMoves ==
    ASSUME GasInv, UNCHANGED <<baseFee, blocks>>, NEW t \in GasTasks, NEW q \in GasCalls,
           gasTask' = [gasTask EXCEPT ![t] = q],
           fees' \subseteq Fees,
           \A e \in fees' : CachedInTime(e), AnsweredInTime(q),
           q.at # "priced" => q.price = {},
           \A p \in q.price : PriceCovers(p)
    PROVE  GasInv'
<1>1. \A u \in GasTasks : gasTask'[u] = IF u = t THEN q ELSE gasTask[u]
  BY DEF GasInv, GasTyped
<1>2. GasTyped'
  BY DEF GasInv, GasTyped
<1>3. \A fee, from, to : KnownFee(fee, from, to)' <=> KnownFee(fee, from, to)
  BY DEF KnownFee
<1>4. \A p : PriceCovers(p)' <=> PriceCovers(p)
  BY DEF PriceCovers
<1>5. \A e \in fees' : CachedInTime(e)'
  BY <1>3 DEF CachedInTime
<1>6. ASSUME NEW u \in GasTasks
      PROVE  /\ AnsweredInTime(gasTask[u])'
             /\ gasTask'[u].at # "priced" => gasTask'[u].price = {}
             /\ \A p \in gasTask'[u].price : PriceCovers(p)'
  <2>1. CASE u = t
    BY <1>1, <1>3, <1>4, <2>1 DEF AnsweredInTime
  <2>2. CASE u # t
    BY <1>1, <1>3, <1>4, <2>2 DEF AnsweredInTime, GasInv
  <2> QED BY <2>1, <2>2
<1> QED
  BY <1>2, <1>5, <1>6 DEF GasInv

\* The cache as it is still holds fees of the chain.
LEMMA CacheStays ==
    ASSUME GasInv
    PROVE  fees \subseteq Fees /\ \A e \in fees : CachedInTime(e)
BY DEF GasInv, GasTyped

\* Every step keeps the fees recent.
LEMMA GasInvStep ==
    ASSUME GasAssumption, FeeTtl + FeeLatency <= 5, GasInv, [GasNext]_gasVars
    PROVE  GasInv'
<1>1. ASSUME NEW t \in GasTasks
      PROVE  /\ gasTask[t] \in GasCalls /\ AnsweredInTime(gasTask[t])
             /\ gasTask[t].at # "priced" => gasTask[t].price = {}
             /\ blocks \in Nat /\ baseFee \in Nat
  BY <1>1 DEF GasInv, GasTyped
<1>2. ASSUME NEW t \in GasTasks, NEW level \in Levels, UseFees(t, level) PROVE GasInv'
  <2>1. PICK e \in FreshFees :
           gasTask' = [gasTask EXCEPT ![t].at = "priced", ![t].price = {GasPrice(e, level)}]
    BY <1>2 DEF UseFees
  <2>2. e \in fees /\ e \in Fees /\ blocks - e.at <= FeeTtl
    BY CacheStays DEF FreshFees
  <2>3. e.genuine => baseFee <= 2 * e.base
    <3> SUFFICES ASSUME e.genuine PROVE baseFee <= 2 * e.base
      OBVIOUS
    <3>1. PICK from \in Nat : e.at <= from + FeeLatency /\ KnownFee(e.base, from, e.at)
      BY <2>2, CacheStays DEF CachedInTime
    <3>2. PICK s \in Nat : from <= s /\ s <= e.at /\ e.at <= blocks /\ Grown(e.base, baseFee, blocks - s)
      BY <3>1 DEF KnownFee
    <3>3. blocks - s \in 0 .. 5
      BY <1>1, <2>2, <3>1, <3>2 DEF Fees, GasAssumption
    <3> QED
      BY <1>1, <2>2, <3>2, <3>3, GrownCovers DEF Fees
  <2> DEFINE q == [gasTask[t] EXCEPT !.at = "priced", !.price = {GasPrice(e, level)}]
  <2>4. GasPrice(e, level) \in GasPrices /\ PriceCovers(GasPrice(e, level))
    BY <1>1, <2>2, <2>3, PriceMade DEF Fees
  <2>5. q \in GasCalls /\ q.at = "priced" /\ q.price = {GasPrice(e, level)}
    BY <1>1, <2>4 DEF GasCalls
  <2>6. gasTask' = [gasTask EXCEPT ![t] = q]
    BY <2>1 DEF GasInv, GasTyped
  <2> HIDE DEF q
  <2>7. UNCHANGED <<fees, baseFee, blocks>>
    BY <1>2 DEF UseFees
  <2>8. AnsweredInTime(q)
    BY <2>5 DEF AnsweredInTime
  <2> QED
    BY <2>4, <2>5, <2>6, <2>7, <2>8, CacheStays, GasTaskMoves
<1>3. ASSUME NEW t \in GasTasks, FetchFees(t) PROVE GasInv'
  <2> DEFINE q == [gasTask[t] EXCEPT !.at = "base", !.since = blocks]
  <2>1. /\ gasTask[t].at = "idle" /\ UNCHANGED <<fees, baseFee, blocks>>
        /\ gasTask' = [gasTask EXCEPT ![t].at = "base", ![t].since = blocks]
    BY <1>3 DEF FetchFees
  <2>2. q \in GasCalls /\ q.at = "base" /\ q.since = blocks /\ q.price = {}
    BY <1>1, <2>1 DEF GasCalls
  <2>3. gasTask' = [gasTask EXCEPT ![t] = q]
    BY <2>1 DEF GasInv, GasTyped
  <2> HIDE DEF q
  <2>4. AnsweredInTime(q)
    BY <1>1, <2>2 DEF GasAssumption, AnsweredInTime
  <2> QED
    BY <2>1, <2>2, <2>3, <2>4, CacheStays, GasTaskMoves
<1>4. ASSUME NEW t \in GasTasks, NEW answered \in BOOLEAN, BaseArrives(t, answered) PROVE GasInv'
  <2> DEFINE fee == IF ~answered THEN Fallback ELSE IF baseFee > Floor THEN baseFee ELSE Floor
             b == [fee |-> fee, genuine |-> answered]
             q == [gasTask[t] EXCEPT !.at = "tip", !.base = {b}]
  <2>1. /\ gasTask[t].at = "base" /\ UNCHANGED <<fees, baseFee, blocks>>
        /\ gasTask' = [gasTask EXCEPT ![t].at = "tip", ![t].base = {b}]
    BY <1>4 DEF BaseArrives
  <2>2. fee \in Nat /\ (answered => baseFee <= fee)
    BY <1>1 DEF GasAssumption
  <2> HIDE DEF fee
  <2>3. b \in Quoted /\ b.fee = fee /\ b.genuine = answered
    BY <2>2 DEF Quoted
  <2> HIDE DEF b
  <2>4. q \in GasCalls /\ q.at = "tip" /\ q.since = gasTask[t].since /\ q.base = {b} /\ q.price = {}
    BY <1>1, <2>1, <2>3 DEF GasCalls
  <2>5. gasTask' = [gasTask EXCEPT ![t] = q]
    BY <2>1 DEF GasInv, GasTyped
  <2> HIDE DEF q
  <2>6. q.since <= blocks /\ blocks <= q.since + FeeLatency /\ q.since \in Nat
    BY <1>1, <2>1, <2>4 DEF AnsweredInTime, GasCalls
  <2>7. b.genuine => KnownFee(b.fee, q.since, blocks)
    <3>1. blocks - blocks = 0 /\ blocks \in Nat
      BY <1>1
    <3> QED
      BY <2>2, <2>3, <2>6, <3>1 DEF KnownFee, Grown
  <2>8. AnsweredInTime(q)
    BY <2>4, <2>6, <2>7 DEF AnsweredInTime
  <2> QED
    BY <2>1, <2>4, <2>5, <2>8, CacheStays, GasTaskMoves
<1>5. ASSUME NEW t \in GasTasks, NEW suggested \in {{}} \union {{tip} : tip \in Tips},
             NEW level \in Levels, TipArrives(t, suggested, level)
      PROVE  GasInv'
  <2>1. gasTask[t].at = "tip" /\ UNCHANGED <<baseFee, blocks>>
    BY <1>5 DEF TipArrives
  <2>2. PICK b \in gasTask[t].base, tip \in IF suggested = {} THEN {FallbackTip} ELSE suggested :
          LET entry == [base |-> b.fee, tip |-> tip, at |-> blocks, genuine |-> b.genuine] IN
          /\ fees' = {entry}
          /\ gasTask' = [gasTask EXCEPT ![t].at = "priced", ![t].price = {GasPrice(entry, level)}]
    BY <1>5 DEF TipArrives
  <2> DEFINE entry == [base |-> b.fee, tip |-> tip, at |-> blocks, genuine |-> b.genuine]
             q == [gasTask[t] EXCEPT !.at = "priced", !.price = {GasPrice(entry, level)}]
  <2>3. b \in Quoted /\ tip \in 0 .. FeeMax
    BY <1>1 DEF GasCalls, GasAssumption
  <2>4. /\ entry \in Fees /\ entry.base = b.fee /\ entry.tip = tip /\ entry.at = blocks
        /\ entry.genuine = b.genuine
    BY <1>1, <2>3 DEF Fees, Quoted
  <2>5. fees' = {entry} /\ gasTask' = [gasTask EXCEPT ![t].at = "priced", ![t].price = {GasPrice(entry, level)}]
    BY <2>2
  <2> HIDE DEF entry
  <2>6. gasTask' = [gasTask EXCEPT ![t] = q]
    BY <2>5 DEF GasInv, GasTyped
  <2>7. /\ gasTask[t].since \in Nat /\ blocks <= gasTask[t].since + FeeLatency
        /\ b.genuine => KnownFee(b.fee, gasTask[t].since, blocks)
    BY <1>1, <2>1 DEF AnsweredInTime, GasCalls
  <2>8. entry.genuine => baseFee <= 2 * entry.base
    <3> SUFFICES ASSUME b.genuine PROVE baseFee <= 2 * b.fee
      BY <2>4
    <3>1. PICK s \in Nat : /\ gasTask[t].since <= s /\ s <= blocks
                           /\ Grown(b.fee, baseFee, blocks - s)
      BY <2>7 DEF KnownFee
    <3>2. blocks - s \in 0 .. 5
      BY <1>1, <2>7, <3>1 DEF GasAssumption
    <3> QED
      BY <1>1, <2>3, <3>1, <3>2, GrownCovers DEF Quoted
  <2>9. GasPrice(entry, level) \in GasPrices /\ PriceCovers(GasPrice(entry, level))
    BY <1>1, <2>4, <2>8, PriceMade DEF Fees
  <2>10. q \in GasCalls /\ q.at = "priced" /\ q.price = {GasPrice(entry, level)}
    BY <1>1, <2>9 DEF GasCalls
  <2> HIDE DEF q
  <2>11. CachedInTime(entry)
    BY <1>1, <2>4, <2>7 DEF CachedInTime
  <2>12. AnsweredInTime(q)
    BY <2>10 DEF AnsweredInTime
  <2>13. fees' \subseteq Fees /\ \A e \in fees' : CachedInTime(e)
    BY <2>4, <2>5, <2>11
  <2> QED
    BY <2>1, <2>6, <2>9, <2>10, <2>12, <2>13, GasTaskMoves
<1>6. ASSUME NEW t \in GasTasks, BuildFill(t) PROVE GasInv'
  <2>1. NoGasTask \in GasCalls /\ NoGasTask.at = "idle" /\ NoGasTask.price = {}
    BY DEF NoGasTask, GasCalls
  <2>2. gasTask' = [gasTask EXCEPT ![t] = NoGasTask] /\ UNCHANGED <<fees, baseFee, blocks>>
    BY <1>6 DEF BuildFill
  <2> HIDE DEF NoGasTask
  <2>3. AnsweredInTime(NoGasTask)
    BY <2>1 DEF AnsweredInTime
  <2> QED
    BY <2>1, <2>2, <2>3, CacheStays, GasTaskMoves
<1>7. CASE DropFees
  <2>1. fees' = {} /\ UNCHANGED <<gasTask, baseFee, blocks>>
    BY <1>7 DEF DropFees
  <2>2. GasTyped'
    BY <2>1 DEF GasInv, GasTyped
  <2>3. ASSUME NEW t \in GasTasks
        PROVE  /\ AnsweredInTime(gasTask[t])'
               /\ gasTask'[t].at # "priced" => gasTask'[t].price = {}
               /\ \A p \in gasTask'[t].price : PriceCovers(p)'
    BY <2>1 DEF GasInv, AnsweredInTime, KnownFee, PriceCovers
  <2> QED
    BY <2>1, <2>2, <2>3 DEF GasInv
<1>8. ASSUME NEW change \in {-1, 1}, Block(baseFee + change * (baseFee \div 8)) PROVE GasInv'
  <2>1. /\ blocks' = blocks + 1 /\ baseFee' = baseFee + change * (baseFee \div 8)
        /\ UNCHANGED <<fees, gasTask>>
        /\ \A t \in GasTasks :
             /\ gasTask[t].at \in {"base", "tip"} => blocks < gasTask[t].since + FeeLatency
             /\ gasTask[t].at # "priced"
    BY <1>8 DEF Block
  <2>2. baseFee' \in Nat
    BY <2>1, GrownStep DEF Grown, GasInv, GasTyped
  <2>3. GasTyped'
    BY <2>1, <2>2 DEF GasInv, GasTyped
  <2>4. ASSUME NEW e \in fees PROVE CachedInTime(e)'
    <3>1. e \in Fees /\ GasTyped
      BY DEF GasInv, GasTyped
    <3>2. e.at <= blocks'
      BY <2>1, <3>1, CacheStays DEF Fees, GasTyped, CachedInTime
    <3>3. ASSUME e.genuine
          PROVE  \E from \in Nat : e.at <= from + FeeLatency /\ KnownFee(e.base, from, e.at)'
      <4>1. PICK from \in Nat : e.at <= from + FeeLatency /\ KnownFee(e.base, from, e.at)
        BY <3>3, CacheStays DEF CachedInTime
      <4>2. KnownFee(e.base, from, e.at)'
        BY <1>8, <3>1, <4>1, KnownLater DEF Fees
      <4> QED
        BY <4>1, <4>2
    <3> QED
      BY <3>2, <3>3 DEF CachedInTime
  <2>5. ASSUME NEW t \in GasTasks
        PROVE  /\ AnsweredInTime(gasTask[t])'
               /\ gasTask'[t].at # "priced" => gasTask'[t].price = {}
               /\ \A p \in gasTask'[t].price : PriceCovers(p)'
    <3>1. gasTask'[t] = gasTask[t] /\ gasTask[t].price = {} /\ gasTask[t] \in GasCalls
      BY <1>1, <2>1
    <3>2. gasTask[t].at \in {"base", "tip"} =>
            gasTask[t].since <= blocks' /\ blocks' <= gasTask[t].since + FeeLatency
      BY <1>1, <2>1, <3>1 DEF AnsweredInTime, GasCalls, GasAssumption
    <3>3. ASSUME gasTask[t].at = "tip", NEW b \in gasTask[t].base, b.genuine
          PROVE  \E s \in Nat : /\ gasTask[t].since <= s /\ s <= blocks'
                               /\ Grown(b.fee, baseFee', blocks' - s)
      <4>1. b.fee \in Nat /\ gasTask[t].since \in Nat
        BY <3>1 DEF GasCalls, Quoted
      <4>2. KnownFee(b.fee, gasTask[t].since, blocks)
        BY <1>1, <3>3 DEF AnsweredInTime
      <4>3. PICK s \in Nat : /\ gasTask[t].since <= s /\ s <= blocks
                             /\ Grown(b.fee, baseFee, blocks - s)
        BY <4>2 DEF KnownFee
      <4>4. blocks - s \in Nat /\ blocks' - s = (blocks - s) + 1
        BY <1>1, <2>1, <4>3
      <4>5. Grown(b.fee, baseFee', blocks' - s)
        BY <1>1, <2>1, <4>1, <4>3, <4>4, GrownStep
      <4> QED
        BY <1>1, <2>1, <4>3, <4>5
    <3>4. gasTask[t].at = "tip" =>
            \A b \in gasTask[t].base : b.genuine => KnownFee(b.fee, gasTask[t].since, blocks)'
      BY <2>3, <3>1, <3>3 DEF KnownFee, GasTyped
    <3> QED
      BY <3>1, <3>2, <3>4 DEF AnsweredInTime
  <2> QED
    BY <2>1, <2>3, <2>4, <2>5 DEF GasInv
<1>9. CASE UNCHANGED gasVars
  BY <1>9 DEF gasVars, GasInv, GasTyped, CachedInTime, AnsweredInTime, KnownFee, PriceCovers
<1> QED
  BY <1>2, <1>3, <1>4, <1>5, <1>6, <1>7, <1>8, <1>9 DEF GasNext, GasTask

\* As long as a cached fee and the provider's answers are together no more than
\* five blocks old, every price covers the base fee of the moment it is used,
\* and the builder refuses it for nothing but its cap (gas.rs:42-44,
\* builder.rs:109-138).
THEOREM PricesCover == ASSUME FeeTtl + FeeLatency <= 5 PROVE GasSpec => []FeeCovers
<1>1. GasInit => GasInv
  BY GasInvInit, GasAssumption
<1>2. GasInv /\ [GasNext]_gasVars => GasInv'
  BY GasInvStep, GasAssumption
<1>3. GasInv => FeeCovers
  <2> SUFFICES ASSUME GasInv, NEW t \in GasTasks, NEW p \in gasTask[t].price, NEW gas \in FillGas
               PROVE  LET params == [gas |-> gas, maxFee |-> p.maxFee, priority |-> p.priority,
                                     toZero |-> FALSE]
                      IN  /\ p.genuine /\ p.maxFee < FeeMax => p.maxFee >= baseFee + p.priority
                          /\ gas <= MaxGasLimit /\ Build(params) = {} => p.maxFee > MaxFeeCap
    BY DEF FeeCovers
  <2>1. PriceCovers(p) /\ p \in GasPrices /\ gas \in Nat
    BY GasAssumption DEF GasInv, GasTyped, GasCalls
  <2> DEFINE params == [gas |-> gas, maxFee |-> p.maxFee, priority |-> p.priority, toZero |-> FALSE]
  <2>2. ASSUME gas <= MaxGasLimit, ~(p.maxFee > MaxFeeCap) PROVE Build(params) # {}
    <3>1. Validate(params) = "fine"
      BY <2>1, <2>2, BuilderAssumption DEF Validate, PriceCovers, GasPrices
    <3> QED
      BY <3>1 DEF Build
  <2> QED
    BY <2>1, <2>2 DEF PriceCovers
<1> QED
  BY <1>1, <1>2, <1>3, PTL DEF GasSpec

-----------------------------------------------------------------------------
(* ArbStrategy: a decision makes no loss                                   *)

\* An output of an order, which decays from start to end.
Outputs == [start : Nat, end : Nat]
\* What an order says.
Encodings == [decayStart : Nat, decayEnd : Nat, deadline : Nat, input : Nat, outputs : Seq(Outputs)]

\* An output that does not grow, of an order whose decay does not go backwards.
Decays(order, i) ==
    /\ order.decayStart <= order.decayEnd
    /\ i \in DOMAIN order.outputs
    /\ order.outputs[i].start >= order.outputs[i].end

\* A part of a decay is no more than all of it.
LEMMA PartOfDecay ==
    ASSUME NEW d \in Nat, d > 0, NEW m \in Nat, NEW a \in 0 .. d
    PROVE  (m * a) \div d \in 0 .. m
<1>1. m * a \in Nat /\ m * a <= m * d
  OBVIOUS
<1> QED
  BY <1>1

\* The decay goes on with time.
LEMMA DecayGrows ==
    ASSUME NEW d \in Nat, d > 0, NEW m \in Nat, NEW a \in Nat, NEW b \in Nat, a <= b
    PROVE  (m * a) \div d <= (m * b) \div d
<1>1. m * a \in Nat /\ m * b \in Nat /\ m * a <= m * b
  OBVIOUS
<1> QED
  BY <1>1

\* What an order requires of an output lies between its two amounts ...
LEMMA OutputBetween ==
    ASSUME NEW order \in Encodings, NEW i, Decays(order, i), NEW moment \in Nat
    PROVE  /\ CurrentOutput(order, i, moment) \in Nat
           /\ order.outputs[i].end <= CurrentOutput(order, i, moment)
           /\ CurrentOutput(order, i, moment) <= order.outputs[i].start
<1>1. order.outputs[i] \in Outputs
  BY DEF Decays, Encodings
<1>2. order.decayStart \in Nat /\ order.decayEnd \in Nat
  BY DEF Encodings
<1> DEFINE output == order.outputs[i]
           duration == order.decayEnd - order.decayStart
           elapsed == moment - order.decayStart
           all == Monus(output.start, output.end)
           decayed == (all * elapsed) \div duration
<1>3. all \in Nat /\ all = output.start - output.end /\ output.start \in Nat /\ output.end \in Nat
  BY <1>1 DEF Monus, Decays, Outputs
<1>4. CASE moment > order.decayStart /\ moment < order.decayEnd
  <2>1. duration \in Nat /\ duration > 0 /\ elapsed \in 0 .. duration
    BY <1>2, <1>4
  <2> HIDE DEF duration, elapsed, all
  <2>2. decayed \in 0 .. all
    BY <1>3, <2>1, PartOfDecay
  <2> HIDE DEF decayed
  <2>3. Monus(output.start, decayed) = output.start - decayed
    BY <1>3, <2>2 DEF Monus
  <2>4. CurrentOutput(order, i, moment) = Monus(output.start, decayed)
    BY <1>2, <1>4 DEF CurrentOutput, decayed, duration, elapsed, all
  <2> QED
    BY <1>3, <2>2, <2>3, <2>4
<1>5. CASE ~(moment > order.decayStart /\ moment < order.decayEnd)
  BY <1>2, <1>3, <1>5 DEF CurrentOutput, Decays
<1> QED
  BY <1>4, <1>5

\* ... and never grows.
LEMMA OutputFalls ==
    ASSUME NEW order \in Encodings, NEW i, Decays(order, i), NEW moment \in Nat, NEW later \in Nat,
           moment <= later
    PROVE  CurrentOutput(order, i, later) <= CurrentOutput(order, i, moment)
<1>1. order.outputs[i] \in Outputs
  BY DEF Decays, Encodings
<1>2. order.decayStart \in Nat /\ order.decayEnd \in Nat
  BY DEF Encodings
<1>3. order.outputs[i].start \in Nat /\ order.outputs[i].end \in Nat
  BY <1>1 DEF Outputs
<1>4. CASE moment <= order.decayStart
  <2>1. CurrentOutput(order, i, moment) = order.outputs[i].start
    BY <1>4 DEF CurrentOutput
  <2> QED
    BY <2>1, OutputBetween
<1>5. CASE moment > order.decayStart /\ later >= order.decayEnd
  <2>1. CurrentOutput(order, i, later) = order.outputs[i].end
    BY <1>2, <1>5 DEF CurrentOutput
  <2> QED
    BY <2>1, OutputBetween
<1>6. CASE moment > order.decayStart /\ later < order.decayEnd
  <2> DEFINE output == order.outputs[i]
             duration == order.decayEnd - order.decayStart
             all == Monus(output.start, output.end)
             first == moment - order.decayStart
             second == later - order.decayStart
             before == (all * first) \div duration
             after == (all * second) \div duration
  <2>1. all \in Nat /\ all = output.start - output.end
    BY <1>3 DEF Monus, Decays
  <2>2. /\ duration \in Nat /\ duration > 0
        /\ first \in 0 .. duration /\ second \in 0 .. duration /\ first <= second
    BY <1>2, <1>6
  <2>3. CurrentOutput(order, i, moment) = Monus(output.start, before)
    BY <1>2, <1>6 DEF CurrentOutput
  <2>4. CurrentOutput(order, i, later) = Monus(output.start, after)
    BY <1>2, <1>6 DEF CurrentOutput
  <2> HIDE DEF duration, all, first, second
  <2>5. before \in 0 .. all /\ after \in 0 .. all
    BY <2>1, <2>2, PartOfDecay
  <2>6. first \in Nat /\ second \in Nat /\ first <= second
    BY <2>2
  <2>7. before <= after
    BY <2>1, <2>2, <2>6, DecayGrows
  <2> HIDE DEF before, after
  <2> QED
    BY <1>3, <2>1, <2>3, <2>4, <2>5, <2>7 DEF Monus
<1> QED
  BY <1>2, <1>4, <1>5, <1>6

-----------------------------------------------------------------------------
\* What decoding does to the times of an order.
LEMMA Decoded ==
    ASSUME NEW raw \in Encodings
    PROVE  /\ Decode(raw) \in Encodings
           /\ Decode(raw).decayStart = TimestampToDatetime(raw.decayStart)
           /\ Decode(raw).decayEnd = TimestampToDatetime(raw.decayEnd)
           /\ Decode(raw).deadline = TimestampToDatetime(raw.deadline)
           /\ Decode(raw).input = raw.input /\ Decode(raw).outputs = raw.outputs
<1>1. /\ TimestampToDatetime(raw.decayStart) \in Nat /\ TimestampToDatetime(raw.decayEnd) \in Nat
      /\ TimestampToDatetime(raw.deadline) \in Nat
  BY DutchAssumption DEF TimestampToDatetime, Encodings
<1> QED
  BY <1>1 DEF Decode, Encodings

\* An order that is valid when its output is calculated requires no more of it
\* later, decoded or not.
LEMMA QuotedIsEnough ==
    ASSUME NEW raw \in Encodings, raw.decayStart <= raw.decayEnd, raw.decayEnd <= raw.deadline,
           NEW moment \in Nat, Valid(Decode(raw), moment), NEW later \in Nat, moment <= later
    PROVE  CurrentOutput(raw, 1, later) <= CurrentOutput(Decode(raw), 1, moment)
<1> DEFINE order == Decode(raw)
<1>1. raw.decayStart \in Nat /\ raw.decayEnd \in Nat /\ raw.deadline \in Nat
  BY DEF Encodings
<1>2. Decays(raw, 1) /\ raw.outputs[1].start \in Nat
  <2>1. raw.outputs # << >> /\ raw.outputs \in Seq(Outputs)
    BY Decoded DEF Valid, Encodings
  <2>2. 1 \in DOMAIN raw.outputs /\ raw.outputs[1] \in Outputs
    BY <2>1
  <2> QED
    BY <2>2, Decoded DEF Valid, Decays, Outputs
<1>3. CASE raw.decayEnd <= LastTimestamp
  <2>1. order.decayStart = raw.decayStart /\ order.decayEnd = raw.decayEnd /\ order.outputs = raw.outputs
    BY <1>1, <1>3, Decoded, DutchAssumption DEF TimestampToDatetime
  <2>2. CurrentOutput(order, 1, moment) = CurrentOutput(raw, 1, moment)
    BY <2>1 DEF CurrentOutput
  <2> QED
    BY <1>2, <2>2, OutputFalls
<1>4. CASE raw.decayEnd > LastTimestamp
  <2>1. order.deadline = 0 /\ order.decayEnd = 0 /\ order.outputs = raw.outputs
    BY <1>1, <1>4, Decoded, DutchAssumption DEF TimestampToDatetime
  <2>2. moment = 0 /\ order.decayStart \in Nat
    BY <2>1, Decoded DEF Valid, Expired, Encodings
  <2>3. CurrentOutput(order, 1, moment) = raw.outputs[1].start
    BY <2>1, <2>2 DEF CurrentOutput
  <2> QED
    BY <1>2, <2>3, OutputBetween
<1> QED
  BY <1>1, <1>3, <1>4, DutchAssumption

-----------------------------------------------------------------------------
\* The output that was quoted is enough from now on.
QuoteLasts(call) ==
    call.at \in {"quoting", "decided"} =>
        \A raw \in call.raw : \A later \in Nat :
            arbClock <= later => CurrentOutput(raw, 1, later) <= call.quoted

\* A decision divides the order's input into cost, gas and profit.
DecisionAddsUp(call) ==
    call.at = "decided" /\ MinProfitWei > 0 =>
        \A d \in call.decision : \A raw \in call.raw :
            d.cost + d.gas + d.profit = raw.input /\ d.profit >= MinProfitWei

\* The fields of an evaluation.
ArbFields == {"at", "raw", "quoted", "gas", "decision"}

\* An evaluation has its fields, a quote that lasts and a decision that adds up.
ArbCall(call) ==
    /\ DOMAIN call = ArbFields
    /\ call.raw \subseteq RawOrders
    /\ \A a, b \in call.raw : a = b
    /\ call.gas \in Nat
    /\ QuoteLasts(call) /\ DecisionAddsUp(call)

\* What every step of ArbStrategy keeps.
ArbInv ==
    /\ arbClock \in Nat
    /\ arb = [t \in ArbTasks |-> arb[t]]
    /\ \A t \in ArbTasks : ArbCall(arb[t])

\* Cost, gas and profit of a decision are the input.
LEMMA DecideAddsUp ==
    ASSUME ArbAssumption, NEW order \in Encodings, NEW cost \in Nat, NEW gas \in Nat,
           MinProfitWei > 0, NEW d \in Decide(order, cost, gas)
    PROVE  d.cost + d.gas + d.profit = order.input /\ d.profit >= MinProfitWei
<1> DEFINE profit == NetProfit(order.input, cost, gas)
<1>1. d = [profit |-> profit, gas |-> gas, cost |-> cost, confidence |-> ArbConfidence(profit, gas)]
  BY DEF Decide
<1>2. d.cost = cost /\ d.gas = gas /\ d.profit = profit
  BY <1>1
<1>3. cost < order.input /\ profit >= MinProfitWei
  BY DEF Decide
<1>4. order.input \in Nat
  BY DEF Encodings
<1> QED
  BY <1>2, <1>3, <1>4 DEF NetProfit, Monus, ArbAssumption

\* At the start nothing is decided.
LEMMA ArbInvInit == ASSUME ArbInit PROVE ArbInv
<1>1. ArbCall(NoArb)
  BY DEF NoArb, ArbCall, ArbFields, QuoteLasts, DecisionAddsUp
<1> QED
  BY <1>1 DEF ArbInit, ArbInv

\* A task moves and the clock does not.
LEMMA ArbTaskMoves ==
    ASSUME ArbInv, arbClock' = arbClock, NEW t \in ArbTasks, NEW call, ArbCall(call),
           arb' = [arb EXCEPT ![t] = call]
    PROVE  ArbInv'
<1>1. \A u \in ArbTasks : arb'[u] = IF u = t THEN call ELSE arb[u]
  BY DEF ArbInv
<1>2. \A u \in ArbTasks : ArbCall(arb'[u])
  BY <1>1 DEF ArbInv
<1>3. \A u \in ArbTasks : ArbCall(arb[u])'
  BY <1>2 DEF ArbCall, QuoteLasts, DecisionAddsUp
<1> QED
  BY <1>3 DEF ArbInv

\* Every step keeps decisions covered.
LEMMA ArbInvStep == ASSUME ArbAssumption, ArbInv, [ArbNext]_arbVars PROVE ArbInv'
<1>1. RawOrders \subseteq Encodings
  BY DEF ArbAssumption, Encodings, Outputs
<1>2. ASSUME NEW t \in ArbTasks
      PROVE  ArbCall(arb[t]) /\ DOMAIN arb[t] = ArbFields /\ arb[t].raw \subseteq RawOrders
  BY <1>2 DEF ArbInv, ArbCall
<1>3. ASSUME NEW t \in ArbTasks, NEW raw \in RawOrders, NEW gas \in GasCosts, Evaluate(t, raw, gas)
      PROVE  ArbInv'
  <2> DEFINE quoted == CurrentOutput(Decode(raw), 1, arbClock)
             call == [NoArb EXCEPT !.at = "quoting", !.raw = {raw}, !.gas = gas, !.quoted = quoted]
  <2>1. Valid(Decode(raw), arbClock) /\ arb' = [arb EXCEPT ![t] = call] /\ arbClock' = arbClock
    BY <1>3 DEF Evaluate
  <2>2. ASSUME NEW later \in Nat, arbClock <= later PROVE CurrentOutput(raw, 1, later) <= quoted
    BY <1>1, <2>1, <2>2, QuotedIsEnough DEF ArbAssumption, ArbInv
  <2> HIDE DEF quoted
  <2>3. /\ DOMAIN call = ArbFields /\ call.at = "quoting" /\ call.raw = {raw} /\ call.gas = gas
        /\ call.quoted = quoted
    BY DEF NoArb, ArbFields
  <2> HIDE DEF call
  <2>4. ArbCall(call)
    BY <2>2, <2>3 DEF ArbCall, QuoteLasts, DecisionAddsUp, ArbAssumption
  <2> QED
    BY <2>1, <2>4, ArbTaskMoves
<1>4. ASSUME NEW t \in ArbTasks, NEW raw \in RawOrders, Skip(t, raw) PROVE ArbInv'
  <2> DEFINE call == [NoArb EXCEPT !.at = "skipped"]
  <2>1. arb' = [arb EXCEPT ![t] = call] /\ arbClock' = arbClock
    BY <1>4 DEF Skip
  <2>2. DOMAIN call = ArbFields /\ call.at = "skipped" /\ call.raw = {} /\ call.gas = 0
    BY DEF NoArb, ArbFields
  <2> HIDE DEF call
  <2>3. ArbCall(call)
    BY <2>2 DEF ArbCall, QuoteLasts, DecisionAddsUp
  <2> QED
    BY <2>1, <2>3, ArbTaskMoves
<1>5. ASSUME NEW t \in ArbTasks, NEW cost \in Costs, QuoteArrives(t, cost) PROVE ArbInv'
  <2>1. PICK raw \in arb[t].raw :
          LET decisions == Decide(Decode(raw), cost, arb[t].gas) IN
          arb' = [arb EXCEPT ![t].at = IF decisions = {} THEN "skipped" ELSE "decided",
                             ![t].decision = decisions]
    BY <1>5 DEF QuoteArrives
  <2> DEFINE decisions == Decide(Decode(raw), cost, arb[t].gas)
             at == IF decisions = {} THEN "skipped" ELSE "decided"
             call == [arb[t] EXCEPT !.at = at, !.decision = decisions]
  <2>2. arb[t].at = "quoting" /\ arbClock' = arbClock
    BY <1>5 DEF QuoteArrives
  <2> HIDE DEF decisions
  <2>3. arb' = [arb EXCEPT ![t] = call]
    BY <2>1 DEF ArbInv, decisions
  <2>4. /\ DOMAIN call = ArbFields /\ call.at = at /\ call.raw = arb[t].raw
        /\ call.gas = arb[t].gas /\ call.quoted = arb[t].quoted /\ call.decision = decisions
    <3> HIDE DEF at
    <3> QED
      BY <1>2 DEF ArbFields
  <2> HIDE DEF call
  <2>5. ASSUME MinProfitWei > 0, NEW d \in decisions, NEW other \in arb[t].raw
        PROVE  d.cost + d.gas + d.profit = other.input /\ d.profit >= MinProfitWei
    <3>1. other = raw /\ raw \in RawOrders /\ arb[t].gas \in Nat /\ cost \in Nat
      BY <1>2 DEF ArbCall, ArbAssumption
    <3>2. Decode(raw) \in Encodings /\ Decode(raw).input = raw.input
      BY <1>1, <3>1, Decoded
    <3> QED
      BY SMTT(30), <2>5, <3>1, <3>2, DecideAddsUp DEF decisions
  <2>6. ArbCall(call)
    BY <1>2, <2>2, <2>4, <2>5 DEF ArbCall, QuoteLasts, DecisionAddsUp
  <2> QED
    BY <2>2, <2>3, <2>6, ArbTaskMoves
<1>6. ASSUME NEW t \in ArbTasks, QuoteFails(t) PROVE ArbInv'
  <2> DEFINE call == [arb[t] EXCEPT !.at = "skipped"]
  <2>1. arb' = [arb EXCEPT ![t] = call] /\ arbClock' = arbClock
    BY <1>6 DEF QuoteFails, ArbInv
  <2>2. DOMAIN call = ArbFields /\ call.at = "skipped" /\ call.raw = arb[t].raw /\ call.gas = arb[t].gas
    BY <1>2 DEF ArbFields
  <2> HIDE DEF call
  <2>3. ArbCall(call)
    BY <1>2, <2>2 DEF ArbCall, QuoteLasts, DecisionAddsUp
  <2> QED
    BY <2>1, <2>3, ArbTaskMoves
<1>7. ASSUME NEW t \in ArbTasks, Decided(t) PROVE ArbInv'
  <2>1. ArbCall(NoArb)
    BY DEF NoArb, ArbCall, ArbFields, QuoteLasts, DecisionAddsUp
  <2> QED
    BY <1>7, <2>1, ArbTaskMoves DEF Decided
<1>8. CASE SecondPasses
  <2>1. arbClock' = arbClock + 1 /\ arb' = arb
    BY <1>8 DEF SecondPasses
  <2>2. ASSUME NEW t \in ArbTasks PROVE ArbCall(arb[t])'
    <3>1. QuoteLasts(arb[t])'
      <4> SUFFICES ASSUME arb[t].at \in {"quoting", "decided"}, NEW raw \in arb[t].raw,
                          NEW later \in Nat, arbClock' <= later
                   PROVE  CurrentOutput(raw, 1, later) <= arb[t].quoted
        BY <2>1 DEF QuoteLasts
      <4>1. arbClock <= later
        BY <2>1 DEF ArbInv
      <4> QED
        BY <1>2, <4>1 DEF ArbCall, QuoteLasts
    <3> QED
      BY <1>2, <2>1, <3>1 DEF ArbCall, DecisionAddsUp
  <2> QED
    BY <2>1, <2>2 DEF ArbInv
<1>9. CASE UNCHANGED arbVars
  BY <1>9 DEF arbVars, ArbInv, ArbCall, QuoteLasts, DecisionAddsUp
<1> QED
  BY <1>3, <1>4, <1>5, <1>6, <1>7, <1>8, <1>9 DEF ArbNext, ArbTask

\* However long the quote took, the output that was quoted is enough for the
\* reactor at any later moment, and cost, gas and profit of a decision are the
\* order's input (arb.rs:98-208).
THEOREM DecisionsCover == ArbSpec => []DecisionCovers
<1>1. ArbInit => ArbInv
  BY ArbInvInit
<1>2. ArbInv /\ [ArbNext]_arbVars => ArbInv'
  BY ArbInvStep, ArbAssumption
<1>3. ArbInv => DecisionCovers
  BY DEF ArbInv, ArbCall, QuoteLasts, DecisionAddsUp, DecisionCovers
<1> QED
  BY <1>1, <1>2, <1>3, PTL DEF ArbSpec

-----------------------------------------------------------------------------
(* FillSimulator: what a success is about                                  *)

\* What a simulation has at hand.
Simulations ==
    [at : {"idle", "block", "call", "estimate", "success", "revert"}, limit : 0 .. GasMax,
     block : Nat, raw : 0 .. GasMax, used : 0 .. GasMax, since : Nat, until : Nat]

\* The transaction passed within the limit at one of the blocks of chain.
Passed(chain, s, last) == \E b \in s.block .. last : Passes(chain[b], s.limit)

\* A simulation is as recent as its timeout demands, and a call that passed did
\* so since the block that the simulation names.
SimulatesWell(chain, s) ==
    /\ s.at \notin {"idle", "block"} => s.since <= s.block /\ 1 <= s.block
    /\ s.since <= Len(chain) /\ s.block <= Len(chain)
    /\ Waiting(s) => Len(chain) <= s.since + SimTimeout
    /\ s.at = "estimate" => Passed(chain, s, Len(chain))

\* What a success claims.
ClaimsWell(chain, s) ==
    /\ s.until <= s.block + SimTimeout /\ s.until <= Len(chain)
    /\ Passed(chain, s, s.until)
    /\ \/ s.raw = s.limit /\ s.used = s.limit
       \/ /\ \E b \in s.block .. s.until : Passes(chain[b], s.limit) /\ chain[b].needs = s.raw
          /\ s.used = ApplyGasBuffer(s.raw)
    /\ BufferBps >= 10000 => s.used >= s.raw

\* What every step of FillSimulator keeps.
SimInv ==
    /\ simChain \in Seq(Effects) /\ Height >= 1
    /\ sim \in [SimTasks -> Simulations]
    /\ \A t \in SimTasks : SimulatesWell(simChain, sim[t])
    /\ \A t \in SimTasks : sim[t].at = "success" => ClaimsWell(simChain, sim[t])

\* A buffer of a whole or more takes nothing away.
LEMMA BufferAdds ==
    ASSUME SimAssumption, NEW gas \in 0 .. GasMax
    PROVE  /\ ApplyGasBuffer(gas) \in 0 .. GasMax
           /\ BufferBps >= 10000 => ApplyGasBuffer(gas) >= gas
<1> DEFINE product == gas * BufferBps
           buffered == product \div 10000
<1>1. gas \in Nat /\ GasMax \in Nat /\ gas <= GasMax /\ BufferBps \in Nat
  BY DEF SimAssumption
<1>2. product \in Nat
  BY <1>1
<1>3. BufferBps >= 10000 => product >= gas * 10000
  BY <1>1
<1>4. ApplyGasBuffer(gas) = IF buffered > GasMax THEN GasMax ELSE buffered
  BY DEF ApplyGasBuffer
<1> HIDE DEF product
<1>5. buffered \in Nat /\ (product >= gas * 10000 => buffered >= gas)
  BY <1>1, <1>2
<1> HIDE DEF buffered
<1> QED
  BY <1>1, <1>3, <1>4, <1>5

\* One simulation goes on while the chain stays.
LEMMA SimMoves ==
    ASSUME SimInv, NEW t \in SimTasks, NEW s \in Simulations,
           sim' = [sim EXCEPT ![t] = s], UNCHANGED simChain,
           SimulatesWell(simChain, s), s.at = "success" => ClaimsWell(simChain, s)
    PROVE  SimInv'
<1>1. \A u \in SimTasks : sim'[u] = IF u = t THEN s ELSE sim[u]
  BY DEF SimInv
<1>2. sim' \in [SimTasks -> Simulations]
  BY DEF SimInv
<1>3. \A u \in SimTasks : SimulatesWell(simChain, sim'[u])
  BY <1>1 DEF SimInv
<1>4. \A u \in SimTasks : sim'[u].at = "success" => ClaimsWell(simChain, sim'[u])
  BY <1>1 DEF SimInv
<1> QED
  BY <1>2, <1>3, <1>4 DEF SimInv, Height

\* What has been seen of the chain stays as it was.
LEMMA SimChainGrows ==
    ASSUME SimAssumption, SimInv, NEW e \in Effects, NextBlock(e)
    PROVE  SimInv'
<1>1. /\ simChain \in Seq(Effects) /\ simChain' = Append(simChain, e) /\ sim' = sim
      /\ sim \in [SimTasks -> Simulations]
  BY DEF SimInv, NextBlock
<1>2. /\ Len(simChain') = Len(simChain) + 1 /\ Len(simChain) \in Nat /\ simChain' \in Seq(Effects)
      /\ \A b \in 1 .. Len(simChain) : simChain'[b] = simChain[b]
  BY <1>1
<1>3. \A t \in SimTasks : Waiting(sim[t]) => Len(simChain) < sim[t].since + SimTimeout
  BY DEF NextBlock, Height
<1>4. ASSUME NEW t \in SimTasks
      PROVE  /\ SimulatesWell(simChain', sim[t])
             /\ sim[t].at = "success" => ClaimsWell(simChain', sim[t])
  <2> DEFINE s == sim[t]
  <2>1. s \in Simulations
    BY <1>1
  <2>2. SimulatesWell(simChain, s) /\ (s.at = "success" => ClaimsWell(simChain, s))
    BY DEF SimInv
  <2>3. Waiting(s) => Len(simChain) < s.since + SimTimeout
    BY <1>3
  <2> HIDE DEF s
  <2>4. s.block \in Nat /\ s.since \in Nat /\ s.until \in Nat
    BY <2>1 DEF Simulations
  <2>5. \A last \in Nat : last <= Len(simChain) /\ 1 <= s.block /\ Passed(simChain, s, last)
            => Passed(simChain', s, last)
    <3> SUFFICES ASSUME NEW last \in Nat, last <= Len(simChain), 1 <= s.block, Passed(simChain, s, last)
                 PROVE  Passed(simChain', s, last)
      OBVIOUS
    <3>1. PICK b \in s.block .. last : Passes(simChain[b], s.limit)
      BY DEF Passed
    <3>2. b \in 1 .. Len(simChain)
      BY <1>2, <2>4, <3>1
    <3> QED
      BY <1>2, <3>1, <3>2 DEF Passed
  <2>6. SimulatesWell(simChain', s)
    <3>1. /\ s.at \notin {"idle", "block"} => s.since <= s.block /\ 1 <= s.block
          /\ s.since <= Len(simChain') /\ s.block <= Len(simChain')
      BY <1>2, <2>2, <2>4 DEF SimulatesWell
    <3>2. Waiting(s) => Len(simChain') <= s.since + SimTimeout
      BY <1>2, <2>3, <2>4 DEF SimAssumption
    <3>3. ASSUME s.at = "estimate" PROVE Passed(simChain', s, Len(simChain'))
      <4>1. 1 <= s.block /\ Passed(simChain, s, Len(simChain))
        BY <2>2, <3>3 DEF SimulatesWell
      <4>2. PICK b \in s.block .. Len(simChain) : Passes(simChain'[b], s.limit)
        BY <1>2, <2>5, <4>1 DEF Passed
      <4>3. b \in s.block .. Len(simChain')
        BY <1>2, <2>4
      <4> QED
        BY <4>2, <4>3 DEF Passed
    <3> QED
      BY <3>1, <3>2, <3>3 DEF SimulatesWell
  <2>7. ASSUME s.at = "success" PROVE ClaimsWell(simChain', s)
    <3>1. ClaimsWell(simChain, s) /\ 1 <= s.block
      BY <2>2, <2>7 DEF SimulatesWell
    <3>2. s.until <= Len(simChain') /\ Passed(simChain', s, s.until)
      BY <1>2, <2>4, <2>5, <3>1 DEF ClaimsWell
    <3>3. \A b \in s.block .. s.until : simChain'[b] = simChain[b]
      BY <1>2, <2>4, <3>1 DEF ClaimsWell
    <3> QED
      BY <3>1, <3>2, <3>3 DEF ClaimsWell
  <2> QED
    BY <2>6, <2>7 DEF s
<1> QED
  BY <1>1, <1>2, <1>4 DEF SimInv, Height

\* A step of one simulation.
LEMMA SimRuns ==
    ASSUME SimAssumption, SimInv, NEW t \in SimTasks, RunSimulation(t)
    PROVE  SimInv'
<1> DEFINE s == sim[t]
<1>1. /\ s \in Simulations /\ SimulatesWell(simChain, s)
      /\ simChain \in Seq(Effects) /\ Len(simChain) \in Nat /\ Len(simChain) >= 1
  BY DEF SimInv, Height
<1>2. NoSim \in Simulations /\ SimulatesWell(simChain, NoSim) /\ NoSim.at = "idle"
  BY <1>1 DEF NoSim, Simulations, SimulatesWell, Waiting, SimAssumption
<1>3. Latest \in Effects /\ Latest.needs \in 0 .. GasMax
  <2>1. Len(simChain) \in 1 .. Len(simChain)
    BY <1>1
  <2>2. Latest \in Effects
    BY <1>1, <2>1 DEF Latest, Height
  <2>3. Latest.needs \in GasNeeds
    BY <2>2 DEF Effects
  <2> QED
    BY <2>2, <2>3 DEF SimAssumption
<1>4. CASE sim' = [sim EXCEPT ![t] = NoSim] /\ UNCHANGED simChain
  BY <1>2, <1>4, SimMoves
<1>5. ASSUME NEW limit \in GasLimits \union {DefaultGasLimit}, Simulate(t, limit) PROVE SimInv'
  <2> DEFINE c == [NoSim EXCEPT !.at = "block", !.limit = limit, !.since = Height]
  <2>1. sim' = [sim EXCEPT ![t] = c] /\ UNCHANGED simChain
    BY <1>5 DEF Simulate
  <2>2. c \in Simulations
    <3>0. limit \in 0 .. GasMax
      BY DEF SimAssumption
    <3>1. Height \in Nat /\ 0 \in 0 .. GasMax
      BY <1>1 DEF SimAssumption, Height
    <3>2. ASSUME NEW n \in Simulations PROVE [n EXCEPT !.at = "block", !.limit = limit, !.since = Height] \in Simulations
      BY <3>0, <3>1 DEF Simulations
    <3> HIDE DEF NoSim
    <3> QED
      BY <1>2, <3>2
  <2>3. c.at = "block" /\ c.since = Len(simChain) /\ c.block = 0
    BY DEF NoSim, Height
  <2> HIDE DEF c
  <2>4. SimulatesWell(simChain, c)
    BY <1>1, <2>3 DEF SimulatesWell, SimAssumption
  <2> QED
    BY <2>1, <2>2, <2>3, <2>4, SimMoves
<1>6. CASE BlockNumber(t)
  <2> DEFINE c == [s EXCEPT !.at = "call", !.block = Height]
  <2>1. s.at = "block" /\ sim' = [sim EXCEPT ![t] = c] /\ UNCHANGED simChain
    BY <1>6 DEF BlockNumber
  <2>2. c \in Simulations
    BY <1>1 DEF Simulations, Height
  <2>3. c.at = "call" /\ c.since = s.since /\ c.block = Len(simChain)
    BY <1>1 DEF Simulations, Height
  <2> HIDE DEF c
  <2>4. SimulatesWell(simChain, c)
    BY <1>1, <2>1, <2>3 DEF SimulatesWell, Waiting
  <2> QED
    BY <2>1, <2>2, <2>3, <2>4, SimMoves
<1>7. CASE CallPasses(t)
  <2> DEFINE c == [s EXCEPT !.at = "estimate"]
  <2>1. /\ s.at = "call" /\ sim' = [sim EXCEPT ![t] = c] /\ UNCHANGED simChain
        /\ Passes(simChain[Len(simChain)], s.limit)
    BY <1>7 DEF CallPasses, Latest, Height, SimInv
  <2>2. c \in Simulations
    BY <1>1 DEF Simulations
  <2>3. c.at = "estimate" /\ c.since = s.since /\ c.block = s.block /\ c.limit = s.limit
    BY <1>1 DEF Simulations
  <2> HIDE DEF c
  <2>4. s.block <= Len(simChain) /\ s.block \in Nat
    BY <1>1 DEF SimulatesWell, Simulations
  <2>5. Passed(simChain, c, Len(simChain))
    BY <1>1, <2>1, <2>3, <2>4 DEF Passed
  <2>6. SimulatesWell(simChain, c)
    BY <1>1, <2>1, <2>3, <2>5 DEF SimulatesWell, Waiting
  <2> QED
    BY <2>1, <2>2, <2>3, <2>6, SimMoves
<1>8. ASSUME NEW outcome \in {"success", "revert"}, NEW raw \in 0 .. GasMax, NEW used \in 0 .. GasMax,
             Report(t, outcome, raw, used), UNCHANGED simChain,
             s.at \in {"call", "estimate"}, outcome = "success" => s.at = "estimate",
             outcome = "success" =>
                \/ raw = s.limit /\ used = s.limit
                \/ /\ Passes(Latest, s.limit) /\ Latest.needs = raw
                   /\ used = ApplyGasBuffer(raw)
      PROVE SimInv'
  <2> DEFINE c == [s EXCEPT !.at = outcome, !.raw = raw, !.used = used, !.until = Height]
  <2>1. sim' = [sim EXCEPT ![t] = c]
    BY <1>8 DEF Report
  <2>2. c \in Simulations
    BY <1>1 DEF Simulations, Height
  <2>3. /\ c.at = outcome /\ c.since = s.since /\ c.block = s.block /\ c.limit = s.limit
        /\ c.raw = raw /\ c.used = used /\ c.until = Len(simChain)
    BY <1>1 DEF Simulations, Height
  <2> HIDE DEF c
  <2>4. /\ s.since <= s.block /\ 1 <= s.block /\ s.block <= Len(simChain)
        /\ Len(simChain) <= s.since + SimTimeout /\ s.block \in Nat /\ s.since \in Nat
        /\ s.since <= Len(simChain)
    BY <1>1, <1>8 DEF SimulatesWell, Waiting, Simulations
  <2>5. SimulatesWell(simChain, c)
    BY <1>8, <2>3, <2>4 DEF SimulatesWell, Waiting
  <2>6. ASSUME outcome = "success" PROVE ClaimsWell(simChain, c)
    <3>1. Passed(simChain, s, Len(simChain))
      BY <1>1, <1>8, <2>6 DEF SimulatesWell
    <3>2. Passed(simChain, c, c.until)
      BY <2>3, <3>1 DEF Passed
    <3>3. c.until <= c.block + SimTimeout /\ c.until <= Len(simChain)
      BY <1>1, <2>3, <2>4 DEF SimAssumption
    <3>4. Len(simChain) \in c.block .. c.until /\ Latest = simChain[Len(simChain)]
      BY <1>1, <2>3, <2>4 DEF Latest, Height
    <3>5. \/ c.raw = c.limit /\ c.used = c.limit
          \/ /\ \E b \in c.block .. c.until : Passes(simChain[b], c.limit) /\ simChain[b].needs = c.raw
             /\ c.used = ApplyGasBuffer(c.raw)
      BY <1>8, <2>3, <2>6, <3>4
    <3>6. BufferBps >= 10000 => c.used >= c.raw
      BY <2>3, <3>5, BufferAdds
    <3> QED
      BY <3>2, <3>3, <3>5, <3>6 DEF ClaimsWell
  <2> QED
    BY <1>8, <2>1, <2>2, <2>3, <2>5, <2>6, SimMoves
<1>9. s.limit \in 0 .. GasMax
  BY <1>1 DEF Simulations
<1>10. CASE CallFails(t)
  BY <1>8, <1>9, <1>10 DEF CallFails
<1>11. CASE EstimateGas(t)
  BY <1>3, <1>8, <1>11, BufferAdds DEF EstimateGas
<1>12. CASE EstimateFails(t)
  BY <1>8, <1>9, <1>12 DEF EstimateFails
<1>13. CASE SimulationEnds(t) \/ ResultRead(t)
  BY <1>4, <1>13 DEF SimulationEnds, ResultRead
<1> QED
  BY <1>5, <1>6, <1>7, <1>10, <1>11, <1>12, <1>13 DEF RunSimulation

\* FillSimulator.SuccessIsRecent, for any transaction, limits and number of
\* tasks: a success is about the blocks between the one it names and its end,
\* which the timeout keeps together, and its buffered gas is not below the
\* estimate (simulation.rs:120-212).
THEOREM SimulationHolds == SimSpec => []SuccessIsRecent
<1>1. SimInit => SimInv
  <2> SUFFICES ASSUME SimInit PROVE SimInv
    OBVIOUS
  <2>1. PICK e \in Effects : simChain = <<e>>
    BY DEF SimInit
  <2>2. simChain \in Seq(Effects) /\ Len(simChain) = 1
    BY <2>1
  <2>3. NoSim \in Simulations /\ SimulatesWell(simChain, NoSim) /\ NoSim.at # "success"
    BY <2>2, SimAssumption DEF NoSim, Simulations, SimulatesWell, Waiting, SimAssumption
  <2>4. \A t \in SimTasks : sim[t] = NoSim
    BY DEF SimInit
  <2>5. sim \in [SimTasks -> Simulations]
    BY <2>3 DEF SimInit
  <2> QED
    BY <2>2, <2>3, <2>4, <2>5 DEF SimInv, Height
<1>2. SimInv /\ [SimNext]_simVars => SimInv'
  <2>1. CASE UNCHANGED simVars
    BY <2>1 DEF simVars, SimInv, Height
  <2> QED
    BY <2>1, SimAssumption, SimRuns, SimChainGrows DEF SimNext
<1>3. SimInv => SuccessIsRecent
  BY DEF SimInv, ClaimsWell, Passed, SuccessIsRecent
<1> QED
  BY <1>1, <1>2, <1>3, PTL DEF SimSpec

-----------------------------------------------------------------------------
(* StrategyPipeline: the strategies that are asked, and the best answer    *)

\* A strategy found on the walk, with the priority it had.
Entries == [name : Strategies, priority : Nat]

\* A walk has finitely many entries.
LEMMA SeqFacts ==
    ASSUME NEW row \in Seq(Entries)
    PROVE  /\ Len(row) \in Nat /\ DOMAIN row = 1 .. Len(row)
           /\ IsFiniteSet(1 .. Len(row)) /\ Cardinality(1 .. Len(row)) = Len(row)
           /\ \A k \in 1 .. Len(row) : row[k] \in Entries /\ row[k].priority \in Nat
<1> DEFINE n == Len(row)
<1>1. n \in Nat /\ DOMAIN row = 1 .. n
  BY LenProperties
<1>2. \A k \in 1 .. n : row[k] \in Entries
  BY ElementOfSeq
<1>3. \A k \in 1 .. n : row[k].priority \in Nat
  BY <1>2 DEF Entries
<1>4. n = IF 1 > n THEN 0 ELSE n - 1 + 1
  <2> HIDE DEF n
  <2> QED BY <1>1
<1>5. IsFiniteSet(1 .. n) /\ Cardinality(1 .. n) = n
  <2> HIDE DEF n
  <2> QED BY <1>1, <1>4, FS_Interval
<1> QED BY <1>1, <1>2, <1>3, <1>5

\* Of two places one is before the other, and has the lower rank.
LEMMA RankStep ==
    ASSUME NEW row \in Seq(Entries), NEW i \in DOMAIN row, NEW j \in DOMAIN row, i # j
    PROVE  /\ IsFiniteSet(DOMAIN row) /\ Cardinality(DOMAIN row) = Len(row)
           /\ Cardinality(Before(row, i)) \in 0 .. Len(row) - 1
           /\ \/ Cardinality(Before(row, i)) < Cardinality(Before(row, j))
                   /\ row[i].priority <= row[j].priority
              \/ Cardinality(Before(row, j)) < Cardinality(Before(row, i))
                   /\ row[j].priority <= row[i].priority
<1> DEFINE n == Len(row)
           P(k) == row[k].priority
<1>1. n \in Nat /\ DOMAIN row = 1 .. n /\ \A k \in 1 .. n : P(k) \in Nat
  BY SeqFacts
<1>2. IsFiniteSet(1 .. n) /\ Cardinality(1 .. n) = n
  BY SeqFacts
<1>3. \A k \in 1 .. n : /\ Before(row, k) \subseteq (1 .. n) \ {k}
                        /\ IsFiniteSet(Before(row, k)) /\ Cardinality(Before(row, k)) \in 0 .. n - 1
  <2> SUFFICES ASSUME NEW k \in 1 .. n
               PROVE  /\ Before(row, k) \subseteq (1 .. n) \ {k}
                      /\ IsFiniteSet(Before(row, k)) /\ Cardinality(Before(row, k)) \in 0 .. n - 1
    OBVIOUS
  <2>1. Before(row, k) \subseteq (1 .. n) \ {k}
    BY <1>1 DEF Before
  <2>2. IsFiniteSet((1 .. n) \ {k}) /\ Cardinality((1 .. n) \ {k}) = n - 1
    BY ZenonT(40), <1>1, <1>2, FS_RemoveElement
  <2>3. IsFiniteSet(Before(row, k)) /\ Cardinality(Before(row, k)) <= n - 1
    BY <2>1, <2>2, FS_Subset
  <2>4. Cardinality(Before(row, k)) \in Nat
    BY <2>3, FS_CardinalityType
  <2> QED BY <1>1, <2>1, <2>3, <2>4
\* Whoever comes before the earlier one comes before the later one, and so does it.
<1>4. ASSUME NEW a \in 1 .. n, NEW b \in 1 .. n, a # b,
             P(a) < P(b) \/ (P(a) = P(b) /\ a < b)
      PROVE  Cardinality(Before(row, a)) < Cardinality(Before(row, b)) /\ P(a) <= P(b)
  <2>1. a \in Before(row, b) /\ a \notin Before(row, a)
    BY <1>1, <1>4 DEF Before
  <2>2. Before(row, a) \subseteq Before(row, b)
    <3> SUFFICES ASSUME NEW k \in Before(row, a) PROVE k \in Before(row, b)
      OBVIOUS
    <3>1. k \in 1 .. n /\ (P(k) < P(a) \/ (P(k) = P(a) /\ k < a))
      BY <1>1 DEF Before
    <3>2. P(k) \in Nat /\ P(a) \in Nat /\ P(b) \in Nat
      BY <1>1, <3>1
    <3>3. P(k) < P(b) \/ (P(k) = P(b) /\ k < b)
      <4> HIDE DEF P, n
      <4> QED BY <1>1, <1>4, <3>1, <3>2
    <3> QED BY <1>1, <3>1, <3>3 DEF Before
  <2>3. Before(row, a) \union {a} \subseteq Before(row, b)
    BY <2>1, <2>2
  <2>4. /\ IsFiniteSet(Before(row, a) \union {a})
        /\ Cardinality(Before(row, a) \union {a}) = Cardinality(Before(row, a)) + 1
    BY <1>3, <2>1, FS_AddElement
  <2>5. Cardinality(Before(row, a) \union {a}) <= Cardinality(Before(row, b))
    BY <1>3, <2>3, FS_Subset
  <2>6. Cardinality(Before(row, a)) \in Int /\ Cardinality(Before(row, b)) \in Int
    BY <1>3
  <2>7. P(a) <= P(b)
    <3>1. P(a) \in Nat /\ P(b) \in Nat
      BY <1>1
    <3> HIDE DEF P
    <3> QED BY <1>4, <3>1
  <2> QED BY <2>4, <2>5, <2>6, <2>7
<1>5. i \in 1 .. n /\ j \in 1 .. n
  BY <1>1
<1>6. \/ P(i) < P(j) \/ (P(i) = P(j) /\ i < j)
      \/ P(j) < P(i) \/ (P(j) = P(i) /\ j < i)
  <2>1. P(i) \in Nat /\ P(j) \in Nat
    BY <1>1, <1>5
  <2> HIDE DEF P, n
  <2> QED BY <1>1, <1>5, <2>1
<1> QED BY <1>1, <1>2, <1>3, <1>4, <1>5, <1>6

\* Every rank is taken by exactly one, so that sorting loses nobody.
LEMMA RankBijective ==
    ASSUME NEW row \in Seq(Entries)
    PROVE  /\ Len(row) \in Nat /\ DOMAIN row = 1 .. Len(row)
           /\ \A k \in 1 .. Len(row) : \E i \in DOMAIN row : Cardinality(Before(row, i)) = k - 1
           /\ \A i \in DOMAIN row : Cardinality(Before(row, i)) \in 0 .. Len(row) - 1
           /\ \A i, j \in DOMAIN row :
                  Cardinality(Before(row, i)) = Cardinality(Before(row, j)) => i = j
           /\ \A i, j \in DOMAIN row :
                  Cardinality(Before(row, i)) <= Cardinality(Before(row, j))
                      => row[i].priority <= row[j].priority
<1> DEFINE n == Len(row)
           D == DOMAIN row
           rank == [i \in D |-> Cardinality(Before(row, i))]
<1>1. n \in Nat /\ D = 1 .. n /\ \A k \in D : row[k].priority \in Nat
  BY SeqFacts
<1>2. \A i \in D : rank[i] \in 0 .. n - 1
  <2> SUFFICES ASSUME NEW i \in D PROVE rank[i] \in 0 .. n - 1
    OBVIOUS
  <2>1. CASE \E j \in D : i # j
    BY <2>1, RankStep
  <2>2. CASE \A j \in D : i = j
    <3>1. Before(row, i) = {}
      BY <1>1, <2>2 DEF Before
    <3>2. rank[i] = 0
      BY <3>1, FS_EmptySet
    <3> QED BY <1>1, <3>2
  <2> QED BY <2>1, <2>2
<1>3. \A i, j \in D : rank[i] = rank[j] => i = j
  <2> SUFFICES ASSUME NEW i \in D, NEW j \in D, i # j, rank[i] = rank[j] PROVE FALSE
    OBVIOUS
  <2>1. rank[i] < rank[j] \/ rank[j] < rank[i]
    BY RankStep
  <2>2. rank[i] \in Int /\ rank[j] \in Int
    BY <1>2
  <2> HIDE DEF rank
  <2> QED BY <2>1, <2>2
<1>4. \A i, j \in D : rank[i] <= rank[j] => row[i].priority <= row[j].priority
  <2> SUFFICES ASSUME NEW i \in D, NEW j \in D, rank[i] <= rank[j]
               PROVE  row[i].priority <= row[j].priority
    OBVIOUS
  <2>1. CASE i = j
    BY <1>1, <2>1
  <2>2. CASE i # j
    <3>1. \/ rank[i] < rank[j] /\ row[i].priority <= row[j].priority
          \/ rank[j] < rank[i] /\ row[j].priority <= row[i].priority
      BY <2>2, RankStep
    <3>2. rank[i] \in Int /\ rank[j] \in Int
      BY <1>2
    <3> HIDE DEF rank
    <3> QED BY <3>1, <3>2
  <2> QED BY <2>1, <2>2
<1>5. \A k \in 1 .. n : \E i \in D : rank[i] = k - 1
  <2>1. rank \in [D -> 0 .. n - 1]
    BY <1>2
  <2>2. rank \in Injection(D, 0 .. n - 1)
    <3> HIDE DEF rank
    <3> QED BY <1>3, <2>1 DEF Injection, IsInjective
  <2>3. IsFiniteSet(0 .. n - 1) /\ Cardinality(0 .. n - 1) = n
    <3>1. 0 \in Int /\ n - 1 \in Int /\ n = (IF 0 > n - 1 THEN 0 ELSE (n - 1) - 0 + 1)
      <4> HIDE DEF n
      <4> QED BY <1>1
    <3> HIDE DEF n
    <3> QED BY <3>1, FS_Interval
  <2>4. Cardinality(D) = n
    BY SeqFacts
  <2>5. rank \in Surjection(D, 0 .. n - 1)
    <3> HIDE DEF rank, D, n
    <3> QED BY <2>2, <2>3, <2>4, FS_Injection
  <2>6. \A r \in 0 .. n - 1 : \E i \in D : rank[i] = r
    <3> HIDE DEF rank
    <3> QED BY <2>5 DEF Surjection
  <2>7. \A k \in 1 .. n : k - 1 \in 0 .. n - 1
    BY <1>1
  <2> HIDE DEF rank
  <2> QED BY <2>6, <2>7
<1> QED BY <1>1, <1>2, <1>3, <1>4, <1>5

\* The k-th of the sorted is the one with k - 1 before it.
LEMMA SortedPlaces ==
    ASSUME NEW row \in Seq(Entries)
    PROVE  /\ Sorted(row) \in Seq(Entries) /\ Len(Sorted(row)) = Len(row)
           /\ \A k \in 1 .. Len(row) : \E i \in DOMAIN row :
                  Sorted(row)[k] = row[i] /\ Cardinality(Before(row, i)) = k - 1
           /\ \A i \in DOMAIN row : \E k \in 1 .. Len(row) :
                  Sorted(row)[k] = row[i] /\ Cardinality(Before(row, i)) = k - 1
<1> DEFINE n == Len(row)
           At(k) == CHOOSE i \in DOMAIN row : Cardinality(Before(row, i)) = k - 1
<1>1. n \in Nat /\ DOMAIN row = 1 .. n /\ \A i \in DOMAIN row : row[i] \in Entries
  BY RankBijective, ElementOfSeq
<1>2. \A k \in 1 .. n : At(k) \in DOMAIN row /\ Cardinality(Before(row, At(k))) = k - 1
  BY RankBijective
<1>3. Sorted(row) = [k \in 1 .. n |-> row[At(k)]]
  BY DEF Sorted
<1> HIDE DEF At
<1>4. \A k \in 1 .. n : Sorted(row)[k] = row[At(k)]
  BY <1>3
<1>5. \A k \in 1 .. n : Sorted(row)[k] \in Entries
  BY <1>1, <1>2, <1>4
<1>6. Sorted(row) \in [1 .. n -> Entries]
  BY <1>3, <1>5
<1>7. Sorted(row) \in Seq(Entries) /\ Len(Sorted(row)) = n
  <2> HIDE DEF n
  <2> QED BY <1>1, <1>6
<1>8. ASSUME NEW i \in DOMAIN row
      PROVE  \E k \in 1 .. n : Sorted(row)[k] = row[i] /\ Cardinality(Before(row, i)) = k - 1
  <2> DEFINE k == Cardinality(Before(row, i)) + 1
  <2>1. Cardinality(Before(row, i)) \in 0 .. n - 1
    BY RankBijective
  <2>2. k \in 1 .. n /\ Cardinality(Before(row, i)) = k - 1
    BY <1>1, <2>1
  <2> HIDE DEF k
  <2>3. At(k) = i
    BY <1>2, <2>2, RankBijective
  <2> QED BY <1>4, <2>2, <2>3
<1> QED BY <1>2, <1>4, <1>7, <1>8

\* The first strategies are a sequence, and as many as allowed.
LEMMA FirstTyped ==
    ASSUME PipelineAssumption, NEW row \in Seq(Entries)
    PROVE  /\ FirstStrategies(row) \in Seq(Entries)
           /\ Len(FirstStrategies(row)) = IF Len(row) < MaxConcurrent THEN Len(row) ELSE MaxConcurrent
<1> DEFINE n == Len(row)
           m == IF n < MaxConcurrent THEN n ELSE MaxConcurrent
           first == FirstStrategies(row)
           sorted == Sorted(row)
<1>1. n \in Nat /\ MaxConcurrent \in Nat
  BY SeqFacts DEF PipelineAssumption
<1>2. m \in Nat /\ m <= n
  BY <1>1
<1>3. Len(sorted) = n /\ sorted \in Seq(Entries)
  BY SortedPlaces
<1>4. first = [k \in 1 .. m |-> sorted[k]]
  BY <1>3 DEF FirstStrategies, Take
<1> HIDE DEF sorted, m, first, n
<1>5. \A k \in 1 .. m : k \in 1 .. Len(sorted)
  BY <1>1, <1>2, <1>3
<1>6. \A k \in 1 .. m : sorted[k] \in Entries
  BY <1>3, <1>5, ElementOfSeq
<1>7. first \in [1 .. m -> Entries]
  BY <1>4, <1>6
<1>8. first \in Seq(Entries) /\ Len(first) = m
  BY <1>2, <1>7
<1> QED BY <1>8 DEF first, m, n

\* A strategy that was found is asked, or as many as allowed that do not come after it.
LEMMA FirstAreAsked ==
    ASSUME PipelineAssumption, NEW row \in Seq(Entries), NEW i \in DOMAIN row,
           row[i].name \notin Names(FirstStrategies(row))
    PROVE  /\ Len(FirstStrategies(row)) = MaxConcurrent
           /\ \A k \in DOMAIN FirstStrategies(row) :
                  FirstStrategies(row)[k].priority <= row[i].priority
<1> DEFINE n == Len(row)
           m == IF n < MaxConcurrent THEN n ELSE MaxConcurrent
           first == FirstStrategies(row)
           sorted == Sorted(row)
<1>1. n \in Nat /\ MaxConcurrent \in Nat /\ DOMAIN row = 1 .. n
  BY RankBijective DEF PipelineAssumption
<1>2. m \in Nat /\ m <= n /\ m <= MaxConcurrent /\ (m = n \/ m = MaxConcurrent)
  BY <1>1
<1>3. Len(sorted) = n /\ sorted \in Seq(Entries)
  BY SortedPlaces
<1>4. first = [k \in 1 .. m |-> sorted[k]]
  BY <1>3 DEF FirstStrategies, Take
<1>5. PICK k \in 1 .. n : sorted[k] = row[i] /\ Cardinality(Before(row, i)) = k - 1
  BY SortedPlaces
<1> HIDE DEF sorted, m, first, n
<1>6. \A j \in 1 .. m : first[j] = sorted[j] /\ DOMAIN first = 1 .. m
  BY <1>4
<1>7. k \notin 1 .. m
  <2> SUFFICES ASSUME k \in 1 .. m PROVE FALSE
    OBVIOUS
  <2>1. first[k].name = row[i].name /\ k \in DOMAIN first
    BY <1>5, <1>6
  <2> QED BY <2>1 DEF Names, first
<1>8. m = MaxConcurrent /\ m < k
  BY <1>1, <1>2, <1>5, <1>7
<1>9. Len(first) = m
  BY FirstTyped DEF first, m, n
<1>10. ASSUME NEW j \in DOMAIN first PROVE first[j].priority <= row[i].priority
  <2>1. j \in 1 .. m
    BY <1>4
  <2>2. j \in 1 .. n /\ j - 1 <= k - 1
    BY <1>1, <1>2, <1>8, <2>1
  <2>3. PICK a \in DOMAIN row : sorted[j] = row[a] /\ Cardinality(Before(row, a)) = j - 1
    BY <2>2, SortedPlaces DEF sorted, n
  <2>4. Cardinality(Before(row, a)) <= Cardinality(Before(row, i))
    BY <1>5, <2>2, <2>3
  <2>5. row[a].priority <= row[i].priority
    BY <2>4, RankBijective
  <2> QED BY <1>6, <2>1, <2>3, <2>5
<1> QED BY <1>8, <1>9, <1>10 DEF first

-----------------------------------------------------------------------------
(* The decision that is chosen                                             *)

\* Recommendations by the place of who gave them, of finitely many places.
Hearing(heard) ==
    /\ \E n \in Nat : DOMAIN heard \subseteq 1 .. n
    /\ \A i \in DOMAIN heard : heard[i].profit \in Nat /\ heard[i].confidence \in Nat

\* Whole hundreds of one product do not exceed those of another.
LEMMA HundredsOrder ==
    ASSUME NEW a \in Nat, NEW b \in Nat, a \div 100 <= b \div 100
    PROVE  a < b + 100
  OBVIOUS

\* A score is a number up to its ceiling.
LEMMA ScoreTyped ==
    ASSUME PipelineAssumption, NEW d, d.profit \in Nat, d.confidence \in Nat
    PROVE  /\ Saturated(d) \in Nat /\ Saturated(d) <= ScoreMax
           /\ CompositeScore(d) \in Nat /\ CompositeScore(d) <= ScoreMax
<1> DEFINE x == d.profit * d.confidence
<1>1. x \in Nat /\ ScoreMax \in Nat
  BY DEF PipelineAssumption
<1>2. Saturated(d) = IF x > ScoreMax THEN ScoreMax ELSE x
  BY DEF Saturated
<1> HIDE DEF x
<1>3. Saturated(d) \in Nat /\ Saturated(d) <= ScoreMax
  BY <1>1, <1>2
<1>4. Saturated(d) \div 100 \in Nat /\ Saturated(d) \div 100 <= ScoreMax
  <2> DEFINE y == Saturated(d)
  <2>1. y \in Nat /\ y <= ScoreMax
    BY <1>3
  <2> HIDE DEF y
  <2>2. y \div 100 \in Nat /\ y \div 100 <= ScoreMax
    BY <1>1, <2>1
  <2> QED BY <2>2 DEF y
<1> QED BY <1>3, <1>4 DEF CompositeScore

\* Something is chosen when something passes, and it is the best but for rounding.
LEMMA BestExists ==
    ASSUME PipelineAssumption, NEW heard, Hearing(heard)
    PROVE  /\ SelectBest(heard) = {} <=> Passing(heard) = {}
           /\ \A c \in SelectBest(heard), i \in Passing(heard) :
                /\ c \in {heard[j] : j \in Passing(heard)}
                /\ Saturated(heard[i]) < Saturated(c) + 100
<1> DEFINE P == Passing(heard)
           score(i) == CompositeScore(heard[i])
           Wins(i) == \A j \in P : score(j) <= score(i) /\ (j > i => score(j) < score(i))
<1>1. P \subseteq DOMAIN heard
  BY DEF Passing
<1>2. \A i \in P : /\ score(i) \in Nat /\ score(i) <= ScoreMax
                   /\ Saturated(heard[i]) \in Nat
  BY <1>1, ScoreTyped DEF Hearing
<1>3. PICK n \in Nat : P \subseteq 1 .. n
  BY <1>1 DEF Hearing
<1>4. SelectBest(heard) = {heard[i] : i \in {i \in P : Wins(i)}}
  BY DEF SelectBest
<1>5. ASSUME P # {} PROVE \E i \in P : Wins(i)
  <2> DEFINE T == {score(i) : i \in P}
  <2>1. T \in SUBSET Nat /\ T # {} /\ \A v \in T : v <= ScoreMax
    BY <1>2, <1>5
  <2>2. ScoreMax \in Nat
    BY DEF PipelineAssumption
  <2>3. PICK top \in T : \A v \in T : v <= top
    <3> HIDE DEF T
    <3> QED BY <2>1, <2>2, GreatestNumber
  <2> DEFINE B == {i \in P : score(i) = top}
  <2>4. B \in SUBSET Nat /\ B # {} /\ \A i \in B : i <= n
    <3>1. B # {}
      BY <2>3
    <3>2. \A i \in B : i \in 1 .. n
      BY <1>3
    <3> QED BY <1>3, <3>1, <3>2
  <2>5. PICK last \in B : \A i \in B : i <= last
    <3> HIDE DEF B
    <3> QED BY <2>4, GreatestNumber
  <2>6. ASSUME NEW j \in P PROVE score(j) <= score(last) /\ (j > last => score(j) < score(last))
    <3>1. score(j) <= top /\ score(last) = top /\ score(j) \in Nat /\ top \in Nat
      BY <1>2, <2>1, <2>3
    <3>2. j \in Nat /\ last \in Nat
      BY <1>3
    <3>3. score(j) = top => j <= last
      BY <2>5
    <3> HIDE DEF score, B
    <3> QED BY <3>1, <3>2, <3>3
  <2>7. last \in P
    OBVIOUS
  <2> QED BY <2>6, <2>7
<1>6. SelectBest(heard) = {} <=> P = {}
  <2> HIDE DEF P, Wins
  <2> QED BY <1>4, <1>5
<1>7. ASSUME NEW c \in SelectBest(heard), NEW i \in P
      PROVE  c \in {heard[j] : j \in P} /\ Saturated(heard[i]) < Saturated(c) + 100
  <2>1. PICK k \in P : c = heard[k] /\ Wins(k)
    BY <1>4
  <2>2. score(i) <= score(k)
    BY <2>1
  <2>3. Saturated(heard[i]) \in Nat /\ Saturated(heard[k]) \in Nat
    BY <1>2
  <2>4. Saturated(heard[i]) \div 100 <= Saturated(heard[k]) \div 100
    BY <2>2 DEF CompositeScore
  <2>5. Saturated(heard[i]) < Saturated(heard[k]) + 100
    BY <2>3, <2>4, HundredsOrder
  <2> QED BY <2>1, <2>5
<1> QED BY <1>6, <1>7

-----------------------------------------------------------------------------
EvaluationFields == {"at", "left", "found", "heard", "chosen", "steady"}

\* A strategy that has stayed enabled and has been visited was found.
Walking(e) ==
    /\ e.found \in Seq(Entries) /\ e.heard = << >> /\ e.chosen = {}
    /\ \A s \in e.steady : Enabled(s) # {}
    /\ \A s \in e.steady \ e.left : \E i \in DOMAIN e.found :
          /\ e.found[i].name = s
          /\ \A r \in registry[s] : e.found[i].priority = r.priority

\* Of those that are asked the property speaks.
Asking(e) ==
    /\ e.found \in Seq(Entries)
    /\ \A s \in e.steady \ Names(e.found) :
          /\ Len(e.found) = MaxConcurrent
          /\ \A i \in DOMAIN e.found, r \in registry[s] : e.found[i].priority <= r.priority

Deciding(e) ==
    /\ e.chosen = {} <=> Passing(e.heard) = {}
    /\ \A c \in e.chosen, i \in Passing(e.heard) :
          /\ c \in {e.heard[j] : j \in Passing(e.heard)}
          /\ Saturated(e.heard[i]) < Saturated(c) + 100

EvaluationOk(e) ==
    /\ DOMAIN e = EvaluationFields
    /\ e.steady \subseteq Strategies
    /\ e.at = "walking" => Walking(e)
    /\ e.at = "asking" => Asking(e)
    /\ e.at = "evaluated" => Deciding(e)

RegistryOk ==
    /\ registry = [s \in Strategies |-> registry[s]]
    /\ \A s \in Strategies : \A e \in registry[s] :
          e \in [priority : Nat, enabled : BOOLEAN] /\ registry[s] = {e}

\* What every step of the pipeline keeps.
PipelineInv ==
    /\ RegistryOk
    /\ evaluation = [t \in Evaluators |-> evaluation[t]]
    /\ \A t \in Evaluators : EvaluationOk(evaluation[t])

\* At the start nothing is evaluated.
LEMMA PipelineInvInit == ASSUME PipelineInit PROVE PipelineInv
  BY DEF PipelineInit, PipelineInv, RegistryOk, EvaluationOk, EvaluationFields, NoEvaluation

\* An operator's call: its name is steady for nobody any longer.
LEMMA OperateStep ==
    ASSUME PipelineAssumption, PipelineInv, NEW s \in Strategies, Operate(s)
    PROVE  PipelineInv'
<1>1. PICK entry : /\ Sets(s, entry)
                   /\ \A e \in entry : e \in [priority : Nat, enabled : BOOLEAN] /\ entry = {e}
  <2>1. ASSUME NEW priority \in Priorities, RegisterStrategy(s, priority)
        PROVE  \E entry : /\ Sets(s, entry)
                   /\ \A e \in entry : e \in [priority : Nat, enabled : BOOLEAN] /\ entry = {e}
    <3> DEFINE e == [priority |-> priority, enabled |-> TRUE]
    <3>1. Sets(s, {e}) /\ priority \in Nat
      BY <2>1 DEF RegisterStrategy, PipelineAssumption
    <3>2. e \in [priority : Nat, enabled : BOOLEAN]
      BY <3>1
    <3> HIDE DEF e
    <3> QED BY <3>1, <3>2
  <2>2. ASSUME UnregisterStrategy(s)
        PROVE  \E entry : /\ Sets(s, entry)
                   /\ \A e \in entry : e \in [priority : Nat, enabled : BOOLEAN] /\ entry = {e}
    BY <2>2 DEF UnregisterStrategy
  <2>3. ASSUME NEW on \in BOOLEAN, EnableStrategy(s, on)
        PROVE  \E entry : /\ Sets(s, entry)
                   /\ \A e \in entry : e \in [priority : Nat, enabled : BOOLEAN] /\ entry = {e}
    <3>1. PICK e \in registry[s] : Sets(s, {[e EXCEPT !.enabled = on]})
      BY <2>3 DEF EnableStrategy
    <3>2. e \in [priority : Nat, enabled : BOOLEAN]
      BY DEF PipelineInv, RegistryOk
    <3>3. [e EXCEPT !.enabled = on] \in [priority : Nat, enabled : BOOLEAN]
      BY <3>2
    <3> QED BY <3>1, <3>3
  <2> QED BY <2>1, <2>2, <2>3 DEF Operate
<1>2. \A x \in Strategies : registry'[x] = IF x = s THEN entry ELSE registry[x]
  BY <1>1 DEF Sets, PipelineInv, RegistryOk
<1>3. RegistryOk'
  <2>1. registry' = [x \in Strategies |-> registry'[x]]
    BY <1>1 DEF Sets, PipelineInv, RegistryOk
  <2> QED BY <2>1, <1>1, <1>2 DEF PipelineInv, RegistryOk
<1>4. /\ evaluation' = [t \in Evaluators |-> evaluation'[t]]
      /\ \A t \in Evaluators : evaluation'[t] = [evaluation[t] EXCEPT !.steady = @ \ {s}]
  BY <1>1 DEF Sets
<1>5. ASSUME NEW t \in Evaluators PROVE EvaluationOk(evaluation[t])'
  <2> DEFINE e == evaluation[t]
             f == evaluation'[t]
  <2>1. EvaluationOk(e)
    BY DEF PipelineInv
  <2>2. /\ DOMAIN f = EvaluationFields /\ f.steady = e.steady \ {s}
        /\ f.at = e.at /\ f.left = e.left /\ f.found = e.found /\ f.heard = e.heard
        /\ f.chosen = e.chosen
    BY <1>4, <2>1 DEF EvaluationOk, EvaluationFields
  <2>3. \A x \in f.steady : x \in Strategies /\ registry'[x] = registry[x]
    BY <1>2, <2>1, <2>2 DEF EvaluationOk
  <2> HIDE DEF e, f
  <2>4. f.at = "walking" => /\ f.found \in Seq(Entries) /\ f.heard = << >> /\ f.chosen = {}
                            /\ \A x \in f.steady : {r \in registry'[x] : r.enabled} # {}
                            /\ \A x \in f.steady \ f.left : \E i \in DOMAIN f.found :
                                  /\ f.found[i].name = x
                                  /\ \A r \in registry'[x] : f.found[i].priority = r.priority
    BY <2>1, <2>2, <2>3 DEF EvaluationOk, Walking, Enabled
  <2>5. f.at = "asking" =>
            /\ f.found \in Seq(Entries)
            /\ \A x \in f.steady \ Names(f.found) :
                  /\ Len(f.found) = MaxConcurrent
                  /\ \A i \in DOMAIN f.found, r \in registry'[x] : f.found[i].priority <= r.priority
    BY <2>1, <2>2, <2>3 DEF EvaluationOk, Asking
  <2>6. f.at = "evaluated" => Deciding(f)
    BY <2>1, <2>2 DEF EvaluationOk, Deciding
  <2>7. f.steady \subseteq Strategies
    BY <2>3
  <2> QED BY <2>2, <2>4, <2>5, <2>6, <2>7 DEF EvaluationOk, Walking, Asking, Deciding, Enabled, f
<1> QED BY <1>3, <1>4, <1>5 DEF PipelineInv

\* The entries stay, and with them what is said of the evaluations.
LEMMA RegistryStays ==
    ASSUME PipelineInv, registry' = registry,
           evaluation' = [t \in Evaluators |-> evaluation'[t]],
           \A t \in Evaluators : EvaluationOk(evaluation'[t])
    PROVE  PipelineInv'
<1>1. RegistryOk'
  BY DEF PipelineInv, RegistryOk
<1>2. ASSUME NEW t \in Evaluators PROVE EvaluationOk(evaluation[t])'
  <2> DEFINE f == evaluation'[t]
  <2>1. EvaluationOk(f)
    OBVIOUS
  <2> HIDE DEF f
  <2>2. f.at = "walking" => /\ f.found \in Seq(Entries) /\ f.heard = << >> /\ f.chosen = {}
                            /\ \A x \in f.steady : {r \in registry'[x] : r.enabled} # {}
                            /\ \A x \in f.steady \ f.left : \E i \in DOMAIN f.found :
                                  /\ f.found[i].name = x
                                  /\ \A r \in registry'[x] : f.found[i].priority = r.priority
    BY <2>1 DEF EvaluationOk, Walking, Enabled
  <2>3. f.at = "asking" =>
            /\ f.found \in Seq(Entries)
            /\ \A x \in f.steady \ Names(f.found) :
                  /\ Len(f.found) = MaxConcurrent
                  /\ \A i \in DOMAIN f.found, r \in registry'[x] : f.found[i].priority <= r.priority
    BY <2>1 DEF EvaluationOk, Asking
  <2>4. /\ DOMAIN f = EvaluationFields /\ f.steady \subseteq Strategies
        /\ f.at = "evaluated" => Deciding(f)
    BY <2>1 DEF EvaluationOk
  <2> QED BY <2>2, <2>3, <2>4 DEF EvaluationOk, Walking, Asking, Deciding, Enabled, f
<1> QED BY <1>1, <1>2 DEF PipelineInv

\* A step of one evaluation.
LEMMA EvaluationMoves ==
    ASSUME PipelineInv, NEW t \in Evaluators, NEW e, EvaluationOk(e),
           evaluation' = [evaluation EXCEPT ![t] = e], registry' = registry
    PROVE  PipelineInv'
<1>1. \A u \in Evaluators : evaluation'[u] = IF u = t THEN e ELSE evaluation[u]
  BY DEF PipelineInv
<1>2. evaluation' = [u \in Evaluators |-> evaluation'[u]]
  BY DEF PipelineInv
<1>3. \A u \in Evaluators : EvaluationOk(evaluation'[u])
  BY <1>1 DEF PipelineInv
<1> QED BY <1>2, <1>3, RegistryStays

\* A visit of the walk keeps the invariant.
LEMMA VisitStep ==
    ASSUME PipelineAssumption, PipelineInv, NEW t \in Evaluators, NEW s \in Strategies,
           VisitStrategy(t, s)
    PROVE  PipelineInv'
<1> DEFINE e == evaluation[t]
<1>1. EvaluationOk(e) /\ e.at = "walking" /\ Walking(e)
  BY DEF PipelineInv, VisitStrategy, EvaluationOk
<1>2. CASE Enabled(s) = {} /\ evaluation' = [evaluation EXCEPT ![t].left = @ \ {s}]
  <2> DEFINE f == [e EXCEPT !.left = @ \ {s}]
  <2>1. evaluation' = [evaluation EXCEPT ![t] = f] /\ registry' = registry
    BY <1>2 DEF VisitStrategy, PipelineInv
  <2>2. /\ DOMAIN f = EvaluationFields /\ f.left = e.left \ {s} /\ f.at = e.at
        /\ f.steady = e.steady /\ f.found = e.found /\ f.heard = e.heard /\ f.chosen = e.chosen
    BY <1>1 DEF EvaluationOk, EvaluationFields
  <2> HIDE DEF e, f
  <2>3. s \notin e.steady
    BY <1>1, <1>2 DEF Walking
  <2>4. Walking(f)
    BY <1>1, <2>2, <2>3 DEF Walking
  <2>5. EvaluationOk(f)
    BY <1>1, <2>2, <2>4 DEF EvaluationOk
  <2> QED BY <2>1, <2>5, EvaluationMoves
<1>3. ASSUME NEW r \in Enabled(s),
             evaluation' = [evaluation EXCEPT ![t].left = @ \ {s},
                ![t].found = Append(@, [name |-> s, priority |-> r.priority])]
      PROVE  PipelineInv'
  <2> DEFINE entry == [name |-> s, priority |-> r.priority]
             f == [e EXCEPT !.left = @ \ {s}, !.found = Append(@, entry)]
  <2>1. evaluation' = [evaluation EXCEPT ![t] = f] /\ registry' = registry
    BY <1>3 DEF VisitStrategy, PipelineInv
  <2>2. /\ DOMAIN f = EvaluationFields /\ f.left = e.left \ {s} /\ f.at = e.at
        /\ f.steady = e.steady /\ f.found = Append(e.found, entry)
        /\ f.heard = e.heard /\ f.chosen = e.chosen
    BY <1>1 DEF EvaluationOk, EvaluationFields
  <2>3. r \in registry[s] /\ registry[s] = {r} /\ r.priority \in Nat
    BY DEF Enabled, PipelineInv, RegistryOk
  <2>4. entry \in Entries /\ entry.name = s /\ entry.priority = r.priority
    BY <2>3 DEF Entries
  <2> HIDE DEF e, f, entry
  <2>5. e.found \in Seq(Entries)
    BY <1>1 DEF Walking
  <2>6. /\ f.found \in Seq(Entries) /\ Len(f.found) = Len(e.found) + 1
        /\ \A i \in 1 .. Len(e.found) : f.found[i] = e.found[i]
        /\ f.found[Len(e.found) + 1] = entry
    BY <2>2, <2>4, <2>5, AppendProperties
  <2>7. Len(e.found) \in Nat /\ DOMAIN e.found = 1 .. Len(e.found)
        /\ DOMAIN f.found = 1 .. Len(e.found) + 1
    BY <2>5, <2>6, SeqFacts
  <2>8. ASSUME NEW x \in f.steady \ f.left
        PROVE  \E i \in DOMAIN f.found : /\ f.found[i].name = x
                                         /\ \A q \in registry[x] : f.found[i].priority = q.priority
    <3>1. CASE x = s
      <4>1. Len(e.found) + 1 \in DOMAIN f.found
        BY <2>7
      <4> QED BY <2>3, <2>4, <2>6, <3>1, <4>1
    <3>2. CASE x # s
      <4>1. x \in e.steady \ e.left
        BY <2>2, <2>8, <3>2
      <4>2. PICK i \in DOMAIN e.found : /\ e.found[i].name = x
                                        /\ \A q \in registry[x] : e.found[i].priority = q.priority
        BY <1>1, <4>1 DEF Walking
      <4>3. i \in DOMAIN f.found /\ f.found[i] = e.found[i]
        BY <2>6, <2>7
      <4> QED BY <4>2, <4>3
    <3> QED BY <3>1, <3>2
  <2>9. Walking(f)
    BY <1>1, <2>2, <2>6, <2>8 DEF Walking
  <2>10. EvaluationOk(f)
    BY <1>1, <2>2, <2>9 DEF EvaluationOk
  <2> QED BY <2>1, <2>10, EvaluationMoves
<1> QED BY <1>2, <1>3 DEF VisitStrategy

\* Asking the first strategies keeps the invariant.
LEMMA AskStep ==
    ASSUME PipelineAssumption, PipelineInv, NEW t \in Evaluators, AskStrategies(t)
    PROVE  PipelineInv'
<1> DEFINE e == evaluation[t]
           first == FirstStrategies(e.found)
           f == [e EXCEPT !.at = "asking", !.found = first]
<1>1. EvaluationOk(e) /\ e.at = "walking" /\ Walking(e) /\ e.left = {}
  BY DEF PipelineInv, AskStrategies, EvaluationOk
<1>2. evaluation' = [evaluation EXCEPT ![t] = f] /\ registry' = registry
  BY DEF AskStrategies, PipelineInv
<1>3. /\ DOMAIN f = EvaluationFields /\ f.at = "asking" /\ f.steady = e.steady /\ f.found = first
  <2> HIDE DEF first
  <2> QED BY <1>1 DEF EvaluationOk, EvaluationFields
<1> HIDE DEF e, f
<1>4. e.found \in Seq(Entries)
  BY <1>1 DEF Walking
<1>5. first \in Seq(Entries)
  BY <1>4, FirstTyped
<1>6. ASSUME NEW s \in e.steady \ Names(first)
      PROVE  /\ Len(first) = MaxConcurrent
             /\ \A i \in DOMAIN first, r \in registry[s] : first[i].priority <= r.priority
  <2>1. PICK i \in DOMAIN e.found : /\ e.found[i].name = s
                                    /\ \A r \in registry[s] : e.found[i].priority = r.priority
    BY <1>1 DEF Walking
  <2>2. e.found[i].name \notin Names(first)
    BY <1>6, <2>1
  <2>3. /\ Len(first) = MaxConcurrent
        /\ \A k \in DOMAIN first : first[k].priority <= e.found[i].priority
    BY <1>4, <2>2, FirstAreAsked
  <2> HIDE DEF first
  <2> QED BY <2>1, <2>3
<1> HIDE DEF first
<1>7. EvaluationOk(f)
  BY <1>1, <1>3, <1>5, <1>6 DEF EvaluationOk, Asking
<1> QED BY <1>2, <1>7, EvaluationMoves

\* The answers keep the invariant.
LEMMA AnswerStep ==
    ASSUME PipelineAssumption, PipelineInv, NEW t \in Evaluators,
           NEW answering \in SUBSET DOMAIN evaluation[t].found,
           NEW answers \in [answering -> Decisions], StrategiesAnswer(t, answers)
    PROVE  PipelineInv'
<1> DEFINE e == evaluation[t]
           heard == [i \in DOMAIN answers |->
                    [name |-> e.found[i].name, profit |-> answers[i].profit,
                     confidence |-> answers[i].confidence]]
           f == [e EXCEPT !.at = "evaluated", !.heard = heard, !.chosen = SelectBest(heard)]
<1>1. EvaluationOk(e) /\ e.at = "asking" /\ Asking(e)
  BY DEF PipelineInv, StrategiesAnswer, EvaluationOk
<1>2. evaluation' = [evaluation EXCEPT ![t] = f] /\ registry' = registry
  BY DEF StrategiesAnswer, PipelineInv
<1>3. Hearing(heard)
  <2>1. Len(e.found) \in Nat /\ DOMAIN e.found = 1 .. Len(e.found)
    BY <1>1, SeqFacts DEF Asking
  <2>2. \A i \in DOMAIN answers : answers[i].profit \in Nat /\ answers[i].confidence \in Nat
    BY DEF PipelineAssumption
  <2>3. DOMAIN heard \subseteq 1 .. Len(e.found)
    BY <2>1
  <2>4. \A i \in DOMAIN heard : heard[i].profit \in Nat /\ heard[i].confidence \in Nat
    BY <2>2
  <2> HIDE DEF heard, e
  <2> QED BY <2>1, <2>3, <2>4 DEF Hearing
<1> HIDE DEF heard
<1>4. /\ DOMAIN f = EvaluationFields /\ f.at = "evaluated" /\ f.steady = e.steady
      /\ f.heard = heard /\ f.chosen = SelectBest(heard)
  BY <1>1 DEF EvaluationOk, EvaluationFields
<1> HIDE DEF e, f
<1>5. Deciding(f)
  BY <1>3, <1>4, BestExists DEF Deciding
<1>6. EvaluationOk(f)
  BY <1>1, <1>4, <1>5 DEF EvaluationOk
<1> QED BY <1>2, <1>6, EvaluationMoves

\* The begin and the end of an evaluation keep the invariant.
LEMMA OtherSteps ==
    ASSUME PipelineInv, NEW t \in Evaluators,
           EvaluationBegins(t) \/ NothingToAsk(t) \/ EvaluationUsed(t)
    PROVE  PipelineInv'
<1>1. CASE EvaluationBegins(t)
  <2> DEFINE f == [NoEvaluation EXCEPT !.at = "walking", !.left = Strategies,
                              !.steady = {s \in Strategies : Enabled(s) # {}}]
  <2>1. evaluation' = [evaluation EXCEPT ![t] = f] /\ registry' = registry
    BY <1>1 DEF EvaluationBegins
  <2>2. /\ DOMAIN f = EvaluationFields /\ f.at = "walking" /\ f.left = Strategies
        /\ f.steady = {s \in Strategies : Enabled(s) # {}} /\ f.found = << >>
        /\ f.heard = << >> /\ f.chosen = {}
    BY DEF NoEvaluation, EvaluationFields
  <2> HIDE DEF f
  <2>3. Walking(f)
    BY <2>2 DEF Walking
  <2>4. EvaluationOk(f)
    BY <2>2, <2>3 DEF EvaluationOk
  <2> QED BY <2>1, <2>4, EvaluationMoves
<1>2. CASE NothingToAsk(t)
  <2> DEFINE e == evaluation[t]
             f == [e EXCEPT !.at = "evaluated"]
  <2>1. EvaluationOk(e) /\ Walking(e)
    BY <1>2 DEF PipelineInv, NothingToAsk, EvaluationOk
  <2>2. evaluation' = [evaluation EXCEPT ![t] = f] /\ registry' = registry
    BY <1>2 DEF NothingToAsk, PipelineInv
  <2>3. /\ DOMAIN f = EvaluationFields /\ f.at = "evaluated" /\ f.steady = e.steady
        /\ f.heard = e.heard /\ f.chosen = e.chosen
    BY <2>1 DEF EvaluationOk, EvaluationFields
  <2> HIDE DEF e, f
  <2>4. f.heard = << >> /\ f.chosen = {}
    BY <2>1, <2>3 DEF Walking
  <2>5. Passing(f.heard) = {}
    BY <2>4 DEF Passing
  <2>6. Deciding(f)
    BY <2>4, <2>5 DEF Deciding
  <2>7. EvaluationOk(f)
    BY <2>1, <2>3, <2>6 DEF EvaluationOk
  <2> QED BY <2>2, <2>7, EvaluationMoves
<1>3. CASE EvaluationUsed(t)
  <2>1. EvaluationOk(NoEvaluation)
    BY DEF EvaluationOk, NoEvaluation, EvaluationFields
  <2> QED BY <1>3, <2>1, EvaluationMoves DEF EvaluationUsed
<1> QED BY <1>1, <1>2, <1>3

\* Every step keeps the invariant of the evaluations.
LEMMA PipelineInvStep ==
    ASSUME PipelineAssumption, PipelineInv, [PipelineNext]_pipelineVars
    PROVE  PipelineInv'
<1>1. CASE UNCHANGED pipelineVars
  <2>1. registry' = registry /\ evaluation' = evaluation
    BY <1>1 DEF pipelineVars
  <2> QED BY <2>1, RegistryStays DEF PipelineInv
<1>2. ASSUME NEW s \in Strategies, Operate(s) PROVE PipelineInv'
  BY <1>2, OperateStep
<1>3. ASSUME NEW t \in Evaluators, EvaluationStep(t) PROVE PipelineInv'
  BY <1>3, VisitStep, AskStep, AnswerStep, OtherSteps DEF EvaluationStep
<1> QED BY <1>1, <1>2, <1>3 DEF PipelineNext

\* Whoever is registered, enabled or disabled while an order is evaluated: the
\* decision is the best of those that the strategies it had to ask recommend, for
\* any strategies, priorities, recommendations and limits (registry.rs:69-78,
\* pipeline.rs:69-188).
THEOREM BestIsAnswered == PipelineSpec => []BestOfTheAsked
<1>1. PipelineInv => BestOfTheAsked
  <2> SUFFICES ASSUME PipelineInv PROVE NobodyPassedOver /\ BestIsChosen
    BY DEF BestOfTheAsked
  <2>1. NobodyPassedOver
    BY DEF PipelineInv, EvaluationOk, Asking, NobodyPassedOver
  <2>2. BestIsChosen
    BY DEF PipelineInv, EvaluationOk, Deciding, BestIsChosen
  <2> QED BY <2>1, <2>2
<1>2. PipelineInit => PipelineInv
  BY PipelineInvInit
<1>3. PipelineInv /\ [PipelineNext]_pipelineVars => PipelineInv'
  BY PipelineAssumption, PipelineInvStep
<1> QED
  BY <1>1, <1>2, <1>3, PTL DEF PipelineSpec

=============================================================================
