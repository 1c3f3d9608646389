----------------------------- MODULE Feeds_proofs -----------------------------
(***************************************************************************)
(* Theorems about ChainFeed, MempoolMonitor, HealthRegistry and            *)
(* ProviderManager, for any chain, transactions, components and tasks.     *)
(***************************************************************************)
EXTENDS ChainFeed, MempoolMonitor, HealthRegistry, ProviderManager,
        FiniteSetTheorems, TLAPS

-----------------------------------------------------------------------------
(* ChainFeed: the order of announced blocks                                *)

\* The chain, the stream and its history have their types.
FeedTyped ==
    /\ head \in Heights /\ number \in Heights
    /\ lastBlock \in Heights \union {None}
    /\ sent \in Seq(Heights)

\* last_block is at or above everything announced, and the block whose header
\* is being fetched is above it.
AboveTheLast ==
    /\ \A i \in 1 .. Len(sent) : lastBlock # None /\ sent[i] <= lastBlock
    /\ streamer = "header" => IsNew(number)

\* What every step of ChainFeed keeps.
FeedInv == FeedTyped /\ AboveTheLast /\ AnnouncedForward

\* At the start nothing is announced.
LEMMA FeedInvInit ==
    ASSUME FeedInit
    PROVE  FeedInv
  BY FeedAssumption
  DEF FeedInit, FeedInv, FeedTyped, AboveTheLast, AnnouncedForward, Heights

\* Every step keeps the announced blocks in order.
LEMMA FeedInvStep ==
    ASSUME FeedInv, [FeedNext]_feedVars
    PROVE  FeedInv'
<1> USE FeedAssumption DEF FeedInv
<1>1. CASE PollNumber
  <2>1. FeedTyped'
    BY <1>1 DEF PollNumber, FeedTyped
  <2>2. AboveTheLast'
    BY <1>1 DEF PollNumber, AboveTheLast, IsNew
  <2>3. AnnouncedForward'
    BY <1>1 DEF PollNumber, AnnouncedForward
  <2> QED
    BY <2>1, <2>2, <2>3
<1>2. CASE PollHeader
  <2>1. FeedTyped'
    BY <1>2 DEF PollHeader, FeedTyped
  <2>2. \A i \in 1 .. Len(sent) : sent[i] \in Nat /\ sent[i] < number
    BY <1>2 DEF PollHeader, AboveTheLast, IsNew, FeedTyped, Heights
  <2>3. number \in Nat /\ number # None
    BY DEF FeedTyped, Heights
  <2>4. CASE sent' = Append(sent, number)
    <3>1. /\ Len(sent') = Len(sent) + 1 /\ Len(sent) \in Nat
          /\ sent'[Len(sent) + 1] = number
          /\ \A i \in 1 .. Len(sent) : sent'[i] = sent[i]
      BY <2>4 DEF FeedTyped
    <3>2. AboveTheLast'
      BY <1>2, <2>2, <2>3, <3>1 DEF PollHeader, AboveTheLast
    <3>3. AnnouncedForward'
      <4> SUFFICES ASSUME NEW i \in 1 .. Len(sent) PROVE sent'[i] < sent'[i + 1]
        BY <3>1 DEF AnnouncedForward
      <4>1. CASE i = Len(sent)
        BY <2>2, <3>1, <4>1
      <4>2. CASE i # Len(sent)
        BY <3>1, <4>2 DEF AnnouncedForward
      <4> QED
        BY <4>1, <4>2
    <3> QED
      BY <2>1, <3>2, <3>3
  <2>5. CASE sent' = sent
    BY <1>2, <2>1, <2>2, <2>3, <2>5 DEF PollHeader, AboveTheLast, AnnouncedForward, FeedTyped
  <2> QED
    BY <1>2, <2>4, <2>5 DEF PollHeader
<1>3. CASE StreamerStops \/ PollBegins \/ PollFails \/ Wake
  BY <1>3 DEF StreamerStops, PollBegins, PollFails, Wake, FeedTyped, AboveTheLast, AnnouncedForward
<1>4. CASE Grow \/ FallBack
  <2>1. head' \in Heights /\ UNCHANGED streamState
    BY <1>4 DEF Grow, FallBack, FeedTyped, Heights, streamState
  <2> QED
    BY <2>1 DEF streamState, FeedTyped, AboveTheLast, AnnouncedForward, IsNew
<1>5. CASE EventsStep \/ EventsStop \/ UNCHANGED feedVars \/ DropStreamer \/ \E who : Stop(who)
  <2>1. UNCHANGED <<head, streamState>>
    BY <1>5 DEF EventsStep, ReceiveBlock, ReceiveLag, StreamClosed, FetchLogs, FetchFails, EventsStop,
                Stop, DropStreamer, feedVars, streamState
  <2> QED
    BY <2>1 DEF streamState, FeedTyped, AboveTheLast, AnnouncedForward, IsNew
<1> QED
  BY <1>1, <1>2, <1>3, <1>4, <1>5 DEF FeedNext, StreamerStep

\* Whatever the node answers, and however long the chain and the channel, the
\* blocks are announced in rising order.
THEOREM BlocksOnlyForward == FeedSpec => []AnnouncedForward
<1>1. FeedInv => AnnouncedForward
  BY DEF FeedInv
<1> QED
  BY FeedInvInit, FeedInvStep, <1>1, PTL DEF FeedSpec

-----------------------------------------------------------------------------
(* MempoolMonitor: a transaction is announced once                         *)

\* The window, the tasks and the announcements have their types.
MempoolTyped ==
    /\ seen \subseteq Hashes /\ unvisited \subseteq Hashes /\ asked \subseteq seen
    /\ announced \in [Hashes -> Nat] /\ clears \in Nat
    /\ monitor # "visit" => asked = {}

\* A hash that is not remembered, or is still being looked up, has not been
\* announced since the set was emptied.
AnnouncedSoFar ==
    /\ \A h \in Hashes :
         /\ announced[h] <= 1 + clears
         /\ h \notin seen \/ h \in asked => announced[h] <= clears
    /\ filtering => \A h \in Hashes \ Watched : announced[h] = 0

\* The set was within its limit when the poll began and grows by the hashes
\* visited since.
SeenSoFar ==
    IF monitor = "visit" THEN Cardinality(seen) + Cardinality(unvisited) <= MaxSeen + MaxBlock
    ELSE Cardinality(seen) <= MaxSeen

\* What every step of MempoolMonitor keeps.
MempoolInv == MempoolTyped /\ AnnouncedSoFar /\ SeenSoFar

\* The window is finite.
LEMMA SeenFinite ==
    ASSUME NEW S, S \subseteq Hashes
    PROVE  IsFiniteSet(S) /\ Cardinality(S) \in Nat
  BY MempoolAssumption, FS_Subset, FS_CardinalityType

\* At the start nothing is seen.
LEMMA MempoolInvInit ==
    ASSUME MempoolInit
    PROVE  MempoolInv
  BY MempoolAssumption, FS_EmptySet
  DEF MempoolInit, MempoolInv, MempoolTyped, AnnouncedSoFar, SeenSoFar

\* Every step keeps the count of announcements.
LEMMA MempoolInvStep ==
    ASSUME MempoolInv, [MempoolNext]_mempoolVars
    PROVE  MempoolInv'
<1> USE MempoolAssumption DEF MempoolInv
<1>1. ASSUME NEW pool \in SUBSET Hashes, PollPending(pool), UNCHANGED filtering
      PROVE  MempoolInv'
  <2>1. MempoolTyped' /\ AnnouncedSoFar'
    BY <1>1 DEF PollPending, MempoolTyped, AnnouncedSoFar
  <2>2. Cardinality(pool) \in Nat /\ Cardinality(seen) \in Nat
    BY SeenFinite DEF MempoolTyped
  <2>3. SeenSoFar'
    BY <1>1, <2>2 DEF PollPending, SeenSoFar
  <2> QED
    BY <2>1, <2>3
<1>2. ASSUME NEW h \in Hashes, VisitHash(h), UNCHANGED filtering
      PROVE  MempoolInv'
  <2>1. MempoolTyped'
    BY <1>2 DEF VisitHash, Announce, MempoolTyped
  <2>2. AnnouncedSoFar'
    <3>1. CASE h \in seen
      BY <1>2, <3>1 DEF VisitHash, AnnouncedSoFar, MempoolTyped
    <3>2. CASE h \notin seen /\ filtering
      BY <1>2, <3>2 DEF VisitHash, AnnouncedSoFar, MempoolTyped
    <3>3. CASE h \notin seen /\ ~filtering
      BY <1>2, <3>3 DEF VisitHash, Announce, AnnouncedSoFar, MempoolTyped
    <3> QED
      BY <3>1, <3>2, <3>3
  <2>3. /\ IsFiniteSet(seen) /\ Cardinality(seen) \in Nat
        /\ IsFiniteSet(unvisited) /\ Cardinality(unvisited) \in Nat
    BY SeenFinite DEF MempoolTyped
  <2>4. Cardinality(unvisited \ {h}) = Cardinality(unvisited) - 1
    BY <1>2, <2>3, FS_RemoveElement DEF VisitHash
  <2>5. \/ Cardinality(seen \union {h}) = Cardinality(seen)
        \/ Cardinality(seen \union {h}) = Cardinality(seen) + 1
    BY <2>3, FS_AddElement
  <2>6. SeenSoFar'
    BY <1>2, <2>3, <2>4, <2>5 DEF VisitHash, SeenSoFar
  <2> QED
    BY <2>1, <2>2, <2>6
<1>3. ASSUME NEW h \in Hashes, NEW found \in BOOLEAN, TransactionArrives(h, found),
             UNCHANGED filtering
      PROVE  MempoolInv'
  <2>1. MempoolTyped'
    BY <1>3 DEF TransactionArrives, Announce, MempoolTyped
  <2>2. AnnouncedSoFar'
    <3>1. CASE found /\ h \in Watched
      BY <1>3, <3>1 DEF TransactionArrives, Announce, AnnouncedSoFar, MempoolTyped
    <3>2. CASE ~(found /\ h \in Watched)
      BY <1>3, <3>2 DEF TransactionArrives, AnnouncedSoFar, MempoolTyped
    <3> QED
      BY <3>1, <3>2
  <2>3. SeenSoFar'
    BY <1>3 DEF TransactionArrives, SeenSoFar
  <2> QED
    BY <2>1, <2>2, <2>3
<1>4. CASE PollEnds /\ UNCHANGED filtering
  <2>1. asked = {}
    BY <1>4 DEF PollEnds, MempoolTyped
  <2>2. MempoolTyped'
    BY <1>4, <2>1 DEF PollEnds, MempoolTyped
  <2>3. AnnouncedSoFar'
    BY <1>4, <2>1 DEF PollEnds, AnnouncedSoFar, MempoolTyped
  <2>4. SeenSoFar'
    BY <1>4, FS_EmptySet, SeenFinite DEF PollEnds, TooManySeen, SeenSoFar, MempoolTyped
  <2> QED
    BY <2>2, <2>3, <2>4
<1>5. CASE ((Wakes \/ StopMonitor \/ MonitorStops) /\ UNCHANGED filtering) \/ UNCHANGED mempoolVars
  <2>1. /\ UNCHANGED <<filtering, unvisited, asked, seen, announced, clears>>
        /\ monitor' = monitor \/ (monitor # "visit" /\ monitor' # "visit")
    BY <1>5 DEF Wakes, StopMonitor, MonitorStops, mempoolVars
  <2> QED
    BY <2>1 DEF MempoolTyped, AnnouncedSoFar, SeenSoFar
<1> QED
  BY <1>1, <1>2, <1>3, <1>4, <1>5 DEF MempoolNext

\* For any transactions, watch list, block size and limit: no transaction is
\* announced again unless the set was emptied, and the set stays bounded.
THEOREM TransactionsAnnouncedOnce == MempoolSpec => []AnnouncedOnce
<1>1. MempoolInv => AnnouncedOnce
  <2> SUFFICES ASSUME MempoolInv PROVE AnnouncedOnce
    OBVIOUS
  <2>1. Cardinality(seen) \in Nat /\ Cardinality(unvisited) \in Nat
    BY SeenFinite DEF MempoolInv, MempoolTyped
  <2>2. Cardinality(seen) <= MaxSeen + MaxBlock
    BY <2>1, MempoolAssumption DEF MempoolInv, SeenSoFar
  <2> QED
    BY <2>2 DEF MempoolInv, AnnouncedSoFar, AnnouncedOnce
<1> QED
  BY MempoolInvInit, MempoolInvStep, <1>1, PTL DEF MempoolSpec

-----------------------------------------------------------------------------
(* HealthRegistry: what an answer may say                                  *)

\* What the registry holds for a component.
Entries == [status : Health \union {"none"}, critical : BOOLEAN]

\* Where a request is.
Walks == {"idle", "ready", "list", "status", "done"}

\* The registry, the requests and their history have their types.
HealthTyped ==
    /\ components \in [Names -> Entries]
    /\ probe \in [Probes -> [walk : Walks, left : SUBSET Names, ready : BOOLEAN,
                             status : Health, listed : SUBSET (Names \X Entries)]]
    /\ during \in [Probes -> [Names -> SUBSET Entries]]

\* The entry a component has now is one of those it had during the request.
DuringIsCurrent(p) == \A n \in Names : components[n] \in during[p][n]

\* What is_ready has seen: each component it came by was not down, or it
\* stopped at one that was.
ReadySoFar(p) ==
    /\ probe[p].ready =>
         \A n \in Names : \/ probe[p].walk = "ready" /\ n \in probe[p].left
                          \/ \E e \in during[p][n] : ~Down(e)
    /\ ~probe[p].ready =>
         /\ \E n \in Names : \E e \in during[p][n] : Down(e)
         /\ probe[p].walk = "ready" => probe[p].left = {}

\* The components aggregate_status has come by.
Summed(p) ==
    {n \in Names : \/ probe[p].walk = "done"
                   \/ probe[p].walk = "status" /\ n \notin probe[p].left}

\* What aggregate_status has seen: its sum so far is justified by an entry of
\* each component it came by, or of the one it stopped at.
StatusSoFar(p) ==
    /\ probe[p].status # "Unhealthy" =>
         \A n \in Summed(p) : \E e \in during[p][n] : ~Down(e)
    /\ probe[p].status = "Healthy" =>
         \A n \in Summed(p) : \E e \in during[p][n] : ~Down(e) /\ ~Impaired(e)
    /\ probe[p].status = "Degraded" =>
         \E n \in Names : \E e \in during[p][n] : Impaired(e)
    /\ probe[p].status = "Unhealthy" =>
         /\ \E n \in Names : \E e \in during[p][n] : Down(e)
         /\ probe[p].walk = "status" => probe[p].left = {}
    /\ probe[p].walk \in {"ready", "list"} => probe[p].status = "Healthy"

\* What every step of HealthRegistry keeps: of a request under way, what it has
\* seen so far.
HealthInv ==
    /\ HealthTyped
    /\ \A p \in Probes : probe[p].walk # "idle" =>
         DuringIsCurrent(p) /\ ReadySoFar(p) /\ StatusSoFar(p)

\* It says what an answer may say.
LEMMA HealthInvSound ==
    ASSUME HealthInv
    PROVE  ProbeIsSound
<1> SUFFICES ASSUME NEW p \in Probes, probe[p].walk = "done"
             PROVE  ProbeIsSound!(p)!2
  BY DEF ProbeIsSound
<1>1. Summed(p) = Names
  BY DEF Summed
<1>2. ASSUME NEW e \in Entries
      PROVE /\ Impaired(e) => e.status # "Healthy" /\ e # Unknown
            /\ ~Down(e) /\ ~Impaired(e) => e.status # "Unhealthy" /\ e.status # "Degraded"
  BY DEF Impaired, Down, Unknown, Entries
<1>3. probe[p].status \in Health
  BY DEF HealthInv, HealthTyped
<1>4. \A n \in Names : \A e \in during[p][n] : e \in Entries
  BY DEF HealthInv, HealthTyped
<1> QED
  BY <1>1, <1>2, <1>3, <1>4 DEF HealthInv, ReadySoFar, StatusSoFar, Health

\* At the start nobody asks.
LEMMA HealthInvInit ==
    ASSUME HealthInit
    PROVE  HealthInv
<1>1. HealthTyped
  BY DEF HealthInit, HealthTyped, Entries, Unknown, Waiting, Walks, Health
<1> QED
  BY <1>1 DEF HealthInit, HealthInv, DuringIsCurrent, ReadySoFar, StatusSoFar, Waiting

\* A request keeps what it has seen when a component changes under it.
LEMMA HealthChange ==
    ASSUME HealthInv, NEW n \in Names, NEW e \in Entries, Becomes(n, e)
    PROVE  HealthInv'
<1>1. probe' = probe /\ components' = [components EXCEPT ![n] = e]
  BY DEF Becomes
<1>2. HealthTyped'
  BY DEF Becomes, HealthInv, HealthTyped
<1> SUFFICES ASSUME NEW p \in Probes, probe[p].walk # "idle"
             PROVE  DuringIsCurrent(p)' /\ ReadySoFar(p)' /\ StatusSoFar(p)'
  BY <1>1, <1>2 DEF HealthInv
<1>3. \A m \in Names :
        during[p][m] \subseteq during'[p][m] /\ (m = n => e \in during'[p][m])
  BY DEF Becomes, HealthInv, HealthTyped
<1>4. DuringIsCurrent(p)'
  BY <1>1, <1>3 DEF HealthInv, HealthTyped, DuringIsCurrent
<1>5. ReadySoFar(p)'
  BY <1>1, <1>3 DEF HealthInv, ReadySoFar
<1>6. Summed(p)' = Summed(p) /\ Summed(p) \subseteq Names
  BY <1>1 DEF Summed
<1>7. StatusSoFar(p)'
  BY <1>1, <1>3, <1>6 DEF HealthInv, StatusSoFar
<1> QED
  BY <1>4, <1>5, <1>7

\* What a request has at hand.
Requests == [walk : Walks, left : SUBSET Names, ready : BOOLEAN, status : Health,
             listed : SUBSET (Names \X Entries)]

\* A step of one request only changes what that request has seen.
LEMMA HealthWalk ==
    ASSUME HealthInv, NEW p \in Probes, NEW request \in Requests,
           probe' = [probe EXCEPT ![p] = request],
           UNCHANGED components,
           during' \in [Probes -> [Names -> SUBSET Entries]],
           \A q \in Probes : q # p => during'[q] = during[q],
           DuringIsCurrent(p)', ReadySoFar(p)', StatusSoFar(p)'
    PROVE  HealthInv'
<1>1. HealthTyped'
  BY DEF HealthInv, HealthTyped, Requests
<1>2. \A q \in Probes : q # p => probe'[q] = probe[q]
  BY DEF HealthInv, HealthTyped
<1> SUFFICES ASSUME NEW q \in Probes, probe'[q].walk # "idle", q # p
             PROVE  DuringIsCurrent(q)' /\ ReadySoFar(q)' /\ StatusSoFar(q)'
  BY <1>1 DEF HealthInv
<1>3. Summed(q)' = Summed(q) /\ Summed(q) \subseteq Names
  BY <1>2 DEF Summed
<1> QED
  BY <1>2, <1>3 DEF HealthInv, DuringIsCurrent, ReadySoFar, StatusSoFar

\* A visit of the first walk keeps what the answer rests on.
LEMMA HealthVisitReady ==
    ASSUME HealthInv, NEW p \in Probes, NEW n \in Names, VisitReady(p, n)
    PROVE  HealthInv'
<1> DEFINE down == Down(components[n])
           request == [probe[p] EXCEPT !.left = IF down THEN {} ELSE @ \ {n}, !.ready = ~down]
<1>1. probe[p] \in Requests /\ probe[p].walk = "ready" /\ n \in probe[p].left
  BY DEF VisitReady, HealthInv, HealthTyped, Requests
<1>2. request \in Requests
  BY <1>1 DEF Requests, Down
<1>3. /\ probe' = [probe EXCEPT ![p] = request]
      /\ UNCHANGED <<components, during>>
  BY DEF VisitReady, HealthInv, HealthTyped
<1>4. /\ probe'[p].walk = "ready" /\ probe'[p].status = probe[p].status
      /\ probe'[p].left = IF down THEN {} ELSE probe[p].left \ {n}
      /\ probe'[p].ready = ~down
  BY <1>1, <1>3 DEF Requests, HealthInv, HealthTyped
<1>5. DuringIsCurrent(p)' /\ components[n] \in during[p][n]
  BY <1>1, <1>3 DEF HealthInv, DuringIsCurrent
<1>6. ReadySoFar(p)'
  <2>1. probe[p].ready /\ ReadySoFar(p)
    BY <1>1 DEF HealthInv, ReadySoFar
  <2>2. CASE down
    BY <1>3, <1>4, <1>5, <2>2 DEF ReadySoFar
  <2>3. CASE ~down
    <3>1. \A m \in Names : \/ m \in probe'[p].left
                           \/ \E e \in during'[p][m] : ~Down(e)
      BY <1>1, <1>3, <1>4, <1>5, <2>1, <2>3 DEF ReadySoFar
    <3> QED
      BY <1>3, <1>4, <2>3, <3>1 DEF ReadySoFar
  <2> QED
    BY <2>2, <2>3
<1>7. StatusSoFar(p)'
  BY <1>1, <1>3, <1>4 DEF HealthInv, StatusSoFar, Summed
<1> QED
  BY <1>2, <1>3, <1>5, <1>6, <1>7, HealthWalk DEF HealthInv, HealthTyped

\* A visit of the second walk keeps what the answer rests on.
LEMMA HealthVisitList ==
    ASSUME HealthInv, NEW p \in Probes, NEW n \in Names, VisitList(p, n)
    PROVE  HealthInv'
<1> DEFINE listed == IF components[n] = Unknown THEN probe[p].listed
                     ELSE probe[p].listed \union {<<n, components[n]>>}
           request == [probe[p] EXCEPT !.left = @ \ {n}, !.listed = listed]
<1>1. probe[p] \in Requests /\ probe[p].walk = "list"
  BY DEF VisitList, HealthInv, HealthTyped, Requests
<1>2. request \in Requests
  <2>1. listed \in SUBSET (Names \X Entries)
    BY <1>1 DEF Requests, HealthInv, HealthTyped
  <2> HIDE DEF listed
  <2> QED
    BY <1>1, <2>1 DEF Requests
<1>3. /\ probe' = [probe EXCEPT ![p] = request]
      /\ UNCHANGED <<components, during>>
  BY DEF VisitList, HealthInv, HealthTyped
<1>4. /\ probe'[p].walk = "list" /\ probe'[p].status = probe[p].status
      /\ probe'[p].ready = probe[p].ready
  BY <1>1, <1>3 DEF Requests, HealthInv, HealthTyped
<1>5. DuringIsCurrent(p)' /\ ReadySoFar(p)' /\ StatusSoFar(p)'
  BY <1>1, <1>3, <1>4 DEF HealthInv, DuringIsCurrent, ReadySoFar, StatusSoFar, Summed
<1> QED
  BY <1>2, <1>3, <1>5, HealthWalk DEF HealthInv, HealthTyped

\* A visit of the third walk keeps what the answer rests on.
LEMMA HealthVisitStatus ==
    ASSUME HealthInv, NEW p \in Probes, NEW n \in Names, VisitStatus(p, n)
    PROVE  HealthInv'
<1> DEFINE e == components[n]
           status == IF Down(e) THEN "Unhealthy" ELSE IF Impaired(e) THEN "Degraded"
                     ELSE probe[p].status
           request == [probe[p] EXCEPT !.left = IF Down(e) THEN {} ELSE @ \ {n},
                                       !.status = status]
<1>1. probe[p] \in Requests /\ probe[p].walk = "status" /\ n \in probe[p].left
  BY DEF VisitStatus, HealthInv, HealthTyped, Requests
<1>2. request \in Requests
  BY <1>1 DEF Requests, Health
<1>3. /\ probe' = [probe EXCEPT ![p] = request]
      /\ UNCHANGED <<components, during>>
  BY DEF VisitStatus, HealthInv, HealthTyped
<1>4. /\ probe'[p].walk = "status" /\ probe'[p].ready = probe[p].ready
      /\ probe'[p].left = IF Down(e) THEN {} ELSE probe[p].left \ {n}
      /\ probe'[p].status = status
  BY <1>1, <1>3 DEF Requests, HealthInv, HealthTyped
<1>5. DuringIsCurrent(p)' /\ e \in during[p][n]
  BY <1>1, <1>3 DEF HealthInv, DuringIsCurrent
<1>6. ReadySoFar(p)'
  BY <1>1, <1>3, <1>4 DEF HealthInv, ReadySoFar
<1>7. StatusSoFar(p)'
  <2>1. probe[p].status # "Unhealthy" /\ StatusSoFar(p)
    BY <1>1 DEF HealthInv, StatusSoFar
  <2>2. CASE Down(e)
    BY <1>3, <1>4, <1>5, <2>2 DEF StatusSoFar
  <2>3. CASE ~Down(e)
    <3>1. Summed(p)' = Summed(p) \union {n}
      BY <1>1, <1>4, <2>3 DEF Summed
    <3>2. CASE Impaired(e)
      BY <1>3, <1>4, <1>5, <2>1, <2>3, <3>1, <3>2 DEF StatusSoFar
    <3>3. CASE ~Impaired(e)
      BY <1>3, <1>4, <1>5, <2>1, <2>3, <3>1, <3>3 DEF StatusSoFar
    <3> QED
      BY <3>2, <3>3
  <2> QED
    BY <2>2, <2>3
<1> QED
  BY <1>2, <1>3, <1>5, <1>6, <1>7, HealthWalk DEF HealthInv, HealthTyped

\* The next walk keeps what the answer rests on.
LEMMA HealthNextWalk ==
    ASSUME HealthInv, NEW p \in Probes, NextWalk(p)
    PROVE  HealthInv'
<1> DEFINE walk == CASE probe[p].walk = "ready" -> "list" [] probe[p].walk = "list" -> "status"
                     [] probe[p].walk = "status" -> "done"
           request == [probe[p] EXCEPT !.walk = walk,
                           !.left = IF probe[p].walk = "status" THEN {} ELSE Names]
<1>1. probe[p] \in Requests /\ probe[p].left = {} /\ probe[p].walk \in {"ready", "list", "status"}
  BY DEF NextWalk, HealthInv, HealthTyped, Requests
<1>2. request \in Requests
  BY <1>1 DEF Requests, Walks
<1>3. /\ probe' = [probe EXCEPT ![p] = request]
      /\ UNCHANGED <<components, during>>
  BY DEF NextWalk, HealthInv, HealthTyped
<1>4. /\ probe'[p].walk = walk /\ probe'[p].status = probe[p].status
      /\ probe'[p].ready = probe[p].ready
      /\ probe'[p].left = IF probe[p].walk = "status" THEN {} ELSE Names
  BY <1>1, <1>3 DEF Requests, HealthInv, HealthTyped
<1>5. Summed(p)' = Summed(p)
  BY <1>1, <1>4 DEF Summed
<1>6. DuringIsCurrent(p)' /\ ReadySoFar(p)' /\ StatusSoFar(p)'
  BY <1>1, <1>3, <1>4, <1>5 DEF HealthInv, DuringIsCurrent, ReadySoFar, StatusSoFar
<1> QED
  BY <1>2, <1>3, <1>6, HealthWalk DEF HealthInv, HealthTyped

\* Every step keeps what the answers rest on.
LEMMA HealthInvStep ==
    ASSUME HealthInv, [HealthNext]_healthVars
    PROVE  HealthInv'
<1>1. ASSUME NEW n \in Names, NEW critical \in BOOLEAN, Register(n, critical)
      PROVE  HealthInv'
  <2>1. [status |-> "Healthy", critical |-> critical] \in Entries
    BY DEF Entries, Health
  <2> QED
    BY <1>1, <2>1, HealthChange DEF Register
<1>2. ASSUME NEW n \in Names, NEW status \in Health, Update(n, status)
      PROVE  HealthInv'
  <2>1. [status |-> status, critical |-> components[n].critical] \in Entries
    BY DEF Entries, HealthInv, HealthTyped
  <2> QED
    BY <1>2, <2>1, HealthChange DEF Update
<1>3. ASSUME NEW n \in Names, Deregister(n)
      PROVE  HealthInv'
  <2>1. Unknown \in Entries
    BY DEF Entries, Unknown
  <2> QED
    BY <1>3, <2>1, HealthChange DEF Deregister
<1>4. ASSUME NEW p \in Probes, ProbeBegins(p)
      PROVE  HealthInv'
  <2> DEFINE request == [Waiting EXCEPT !.walk = "ready", !.left = Names]
  <2>1. Waiting \in Requests /\ Waiting.ready = TRUE /\ Waiting.status = "Healthy"
    BY DEF Waiting, Requests, Walks, Health
  <2>2. /\ request \in Requests
        /\ request.walk = "ready" /\ request.left = Names
        /\ request.ready = TRUE /\ request.status = "Healthy"
    BY <2>1 DEF Requests, Walks
  <2>3. /\ probe' = [probe EXCEPT ![p] = request] /\ UNCHANGED components
        /\ during' = [during EXCEPT ![p] = [n \in Names |-> {components[n]}]]
    BY <1>4 DEF ProbeBegins
  <2>4. /\ probe'[p] = request
        /\ during' \in [Probes -> [Names -> SUBSET Entries]]
        /\ \A q \in Probes : q # p => during'[q] = during[q]
        /\ during'[p] = [n \in Names |-> {components[n]}]
    BY <2>3 DEF HealthInv, HealthTyped
  <2>5. DuringIsCurrent(p)' /\ ReadySoFar(p)' /\ StatusSoFar(p)'
    <3> HIDE DEF request
    <3> QED
      BY <2>2, <2>3, <2>4 DEF DuringIsCurrent, ReadySoFar, StatusSoFar, Summed
  <2> QED
    BY <2>2, <2>3, <2>4, <2>5, HealthWalk
<1>5. CASE UNCHANGED healthVars
  BY <1>5 DEF healthVars, HealthInv, HealthTyped, DuringIsCurrent, ReadySoFar, StatusSoFar, Summed
<1> QED
  BY <1>1, <1>2, <1>3, <1>4, <1>5, HealthVisitReady, HealthVisitList, HealthVisitStatus, HealthNextWalk
  DEF HealthNext

\* For any components, requests and changes: what a readiness answer says was
\* true of some component, or of all of them, at some time while it was made.
THEOREM AnswerIsSound == HealthSpec => []ProbeIsSound
BY HealthInvInit, HealthInvStep, HealthInvSound, PTL DEF HealthSpec

-----------------------------------------------------------------------------
(* ProviderManager: connections and their configuration                    *)

\* A task of the manager is idle or in one of its calls.
ProviderCalls ==
    [pc : {"idle"}]
    \union [pc : {"adding"}, chain : ChainIds, endpoint : Endpoints]
    \union [pc : {"removing"}, chain : ChainIds]
    \union [pc : {"checking"}, left : SUBSET ChainIds,
            asked : ChainIds \union {NoEndpoint}, failed : SUBSET ChainIds]

\* The configuration, the connections and the tasks have their types.
ProviderTyped ==
    /\ providers \in [ChainIds -> Endpoints \union {NoEndpoint}]
    /\ chainConfigs \in [ChainIds -> Endpoints \union {NoEndpoint}]
    /\ DOMAIN startup \subseteq ChainIds
    /\ \A c \in DOMAIN startup : startup[c] \in Endpoints
    /\ providerTask \in [ProviderTasks -> ProviderCalls]
    /\ ~Started => \A t \in ProviderTasks : providerTask[t] = NoCall

\* While one call alone changes a chain, the connection is already what the
\* configuration will be when the call ends.
ConfigFollows ==
    \A c \in ChainIds \ overlapped :
        /\ Changing(c) = {} => providers[c] = chainConfigs[c]
        /\ \A t \in Changing(c) :
             /\ Changing(c) = {t}
             /\ providerTask[t].pc = "adding" => providers[c] = providerTask[t].endpoint
             /\ providerTask[t].pc = "removing" => providers[c] = NoEndpoint

\* What every step of ProviderManager keeps.
ProviderInv == ProviderTyped /\ ConfigFollows

\* At the start nothing is connected.
LEMMA ProviderInvInit ==
    ASSUME ProviderInit
    PROVE  ProviderInv
  BY DEF ProviderInit, ProviderInv, ProviderTyped, ConfigFollows, Changing, NoCall, ProviderCalls

\* A step that leaves the two maps, the startup and what the tasks change alone.
LEMMA ProviderKept ==
    ASSUME ProviderInv, UNCHANGED <<providers, chainConfigs, startup, overlapped>>,
           Started, providerTask' \in [ProviderTasks -> ProviderCalls],
           \A t \in ProviderTasks :
              \/ providerTask'[t] = providerTask[t]
              \/ /\ providerTask[t].pc \in {"idle", "checking"}
                 /\ providerTask'[t].pc \in {"idle", "checking"}
    PROVE  ProviderInv'
<1>1. ProviderTyped'
  BY DEF ProviderInv, ProviderTyped, Started
<1>2. \A c \in ChainIds : Changing(c)' = Changing(c)
  BY DEF Changing
<1>3. \A c \in ChainIds : \A t \in Changing(c) : providerTask'[t] = providerTask[t]
  BY DEF Changing
<1>4. ConfigFollows'
  BY <1>2, <1>3 DEF ProviderInv, ConfigFollows
<1> QED
  BY <1>1, <1>4 DEF ProviderInv

\* Every step keeps connection and configuration together.
LEMMA ProviderInvStep ==
    ASSUME ProviderInv, [ProviderNext]_providerVars
    PROVE  ProviderInv'
<1> USE ProviderAssumption
<1>1. CASE StartupConnects \/ StartupFails
  <2>1. /\ \A t \in ProviderTasks : providerTask[t] = NoCall /\ providerTask' = providerTask
        /\ overlapped' = overlapped
    BY <1>1 DEF StartupConnects, StartupFails, ProviderInv, ProviderTyped, Started
  <2>2. ProviderTyped'
    BY <1>1, <2>1 DEF StartupConnects, StartupFails, ProviderInv, ProviderTyped
  <2>3. \A c \in ChainIds : Changing(c) = {} /\ Changing(c)' = {}
    BY <2>1 DEF Changing, NoCall
  <2>4. \A c \in ChainIds : providers[c] = chainConfigs[c] => providers'[c] = chainConfigs'[c]
    BY <1>1 DEF StartupConnects, StartupFails, ProviderInv, ProviderTyped
  <2>5. ConfigFollows'
    BY <2>1, <2>3, <2>4 DEF ProviderInv, ConfigFollows
  <2> QED
    BY <2>2, <2>5 DEF ProviderInv
<1>2. ASSUME NEW t \in ProviderTasks, AddBegins(t) \/ RemoveBegins(t)
      PROVE  ProviderInv'
  <2>1. PICK c \in ChainIds, e \in Endpoints \union {NoEndpoint}, call \in ProviderCalls :
          /\ providers' = [providers EXCEPT ![c] = e]
          /\ providerTask' = [providerTask EXCEPT ![t] = call]
          /\ call.pc \in {"adding", "removing"} /\ call.chain = c
          /\ call.pc = "adding" => call.endpoint = e
          /\ call.pc = "removing" => e = NoEndpoint
          /\ Overlaps(c)
    <3>1. CASE AddBegins(t)
      <4>1. PICK c \in ChainIds, e \in Endpoints \ BadEndpoints :
              /\ providers' = [providers EXCEPT ![c] = e]
              /\ providerTask' = [providerTask EXCEPT ![t] = [pc |-> "adding", chain |-> c, endpoint |-> e]]
              /\ Overlaps(c)
        BY <3>1 DEF AddBegins
      <4> DEFINE call == [pc |-> "adding", chain |-> c, endpoint |-> e]
      <4>2. call \in ProviderCalls
        BY DEF ProviderCalls
      <4> QED
        BY <4>1, <4>2
    <3>2. CASE RemoveBegins(t)
      <4>1. PICK c \in ChainIds :
              /\ providers' = [providers EXCEPT ![c] = NoEndpoint]
              /\ providerTask' = [providerTask EXCEPT ![t] = [pc |-> "removing", chain |-> c]]
              /\ Overlaps(c)
        BY <3>2 DEF RemoveBegins
      <4> DEFINE call == [pc |-> "removing", chain |-> c]
      <4>2. call \in ProviderCalls
        BY DEF ProviderCalls
      <4> QED
        BY <4>1, <4>2
    <3> QED
      BY <1>2, <3>1, <3>2
  <2>2. /\ providerTask[t] = NoCall /\ Started
        /\ chainConfigs' = chainConfigs /\ startup' = startup
    BY <1>2 DEF AddBegins, RemoveBegins, Called
  <2>3. ProviderTyped'
    BY <2>1, <2>2 DEF ProviderInv, ProviderTyped, Started
  <2>4. \A d \in ChainIds : Changing(d)' = IF d = c THEN Changing(d) \union {t} ELSE Changing(d)
    BY <2>1, <2>2 DEF Changing, NoCall, ProviderInv, ProviderTyped
  <2>5. ConfigFollows'
    <3> SUFFICES ASSUME NEW d \in ChainIds, d \notin overlapped'
                 PROVE  ConfigFollows!(d)'
      BY DEF ConfigFollows
    <3>1. CASE d = c
      <4>1. Changing(d) = {}
        BY <2>1, <3>1 DEF Overlaps
      <4>2. Changing(d)' = {t}
        BY <2>4, <3>1, <4>1
      <4> QED
        BY <2>1, <3>1, <4>2 DEF ProviderInv, ProviderTyped
    <3>2. CASE d # c
      <4>1. d \notin overlapped /\ Changing(d)' = Changing(d) /\ providers'[d] = providers[d]
        BY <2>1, <2>4, <3>2 DEF Overlaps, ProviderInv, ProviderTyped
      <4>2. \A s \in Changing(d) : providerTask'[s] = providerTask[s]
        BY <2>1, <2>2 DEF Changing, NoCall, ProviderInv, ProviderTyped
      <4> QED
        BY <2>2, <4>1, <4>2 DEF ProviderInv, ConfigFollows
    <3> QED
      BY <3>1, <3>2
  <2> QED
    BY <2>3, <2>5 DEF ProviderInv
<1>3. ASSUME NEW t \in ProviderTasks, AddEnds(t) \/ RemoveEnds(t)
      PROVE  ProviderInv'
  <2> DEFINE c == providerTask[t].chain
             e == IF providerTask[t].pc = "adding" THEN providerTask[t].endpoint ELSE NoEndpoint
  <2>1. /\ providerTask[t].pc \in {"adding", "removing"}
        /\ chainConfigs' = [chainConfigs EXCEPT ![c] = e]
        /\ providerTask' = [providerTask EXCEPT ![t] = NoCall]
        /\ UNCHANGED <<providers, startup, overlapped>>
    BY <1>3 DEF AddEnds, RemoveEnds
  <2>2. c \in ChainIds /\ e \in Endpoints \union {NoEndpoint}
    BY <2>1 DEF ProviderInv, ProviderTyped, ProviderCalls
  <2>3. NoCall \in ProviderCalls
    BY DEF NoCall, ProviderCalls
  <2>4. ProviderTyped'
    BY <2>1, <2>2, <2>3 DEF ProviderInv, ProviderTyped, Started
  <2>5. \A d \in ChainIds : Changing(d)' = Changing(d) \ {t}
    BY <2>1 DEF Changing, NoCall, ProviderInv, ProviderTyped
  <2>6. \A d \in ChainIds : d # c => t \notin Changing(d)
    BY DEF Changing
  <2>7. t \in Changing(c)
    BY <2>1 DEF Changing
  <2>8. ConfigFollows'
    <3> SUFFICES ASSUME NEW d \in ChainIds, d \notin overlapped'
                 PROVE  ConfigFollows!(d)'
      BY DEF ConfigFollows
    <3>0. d \notin overlapped
      BY <2>1
    <3>1. CASE d = c
      <4>1. Changing(d) = {t} /\ providers[d] = e
        BY <2>1, <2>7, <3>0, <3>1 DEF ProviderInv, ConfigFollows
      <4>2. Changing(d)' = {} /\ chainConfigs'[d] = e /\ providers'[d] = e
        BY <2>1, <2>2, <2>5, <3>1, <4>1 DEF ProviderInv, ProviderTyped
      <4> QED
        BY <4>2
    <3>2. CASE d # c
      <4>1. /\ Changing(d)' = Changing(d)
            /\ providers'[d] = providers[d] /\ chainConfigs'[d] = chainConfigs[d]
        BY <2>1, <2>5, <2>6, <3>2 DEF ProviderInv, ProviderTyped
      <4>2. \A s \in Changing(d) : providerTask'[s] = providerTask[s]
        BY <2>1, <2>6, <3>2 DEF Changing, ProviderInv, ProviderTyped
      <4> QED
        BY <3>0, <4>1, <4>2 DEF ProviderInv, ConfigFollows
    <3> QED
      BY <3>1, <3>2
  <2> QED
    BY <2>4, <2>8 DEF ProviderInv
<1>4. ASSUME NEW t \in ProviderTasks, AddRefuses(t)
      PROVE  ProviderInv'
  BY <1>4, ProviderKept DEF AddRefuses, Called, ProviderInv, ProviderTyped
<1>5. ASSUME NEW t \in ProviderTasks,
             CheckAll(t) \/ CheckAsks(t) \/ CheckAnswers(t) \/ CheckEnds(t)
      PROVE  ProviderInv'
  <2> DEFINE Checking == [pc : {"checking"}, left : SUBSET ChainIds,
                          asked : ChainIds \union {NoEndpoint}, failed : SUBSET ChainIds]
  <2>1. providerTask[t].pc = "checking" => providerTask[t] \in Checking
    BY DEF ProviderInv, ProviderTyped, ProviderCalls
  <2>2. providerTask[t].pc \in {"idle", "checking"} /\ Started
    <3>1. CASE CheckAll(t)
      BY <3>1 DEF CheckAll, Called, NoCall
    <3>2. CASE providerTask[t].pc = "checking"
      BY <3>2 DEF NoCall, ProviderInv, ProviderTyped
    <3> QED
      BY <1>5, <3>1, <3>2 DEF CheckAsks, CheckAnswers, CheckEnds
  <2>3. PICK call \in Checking \union {NoCall} : providerTask' = [providerTask EXCEPT ![t] = call]
    <3>1. CASE CheckAll(t)
      BY <3>1 DEF CheckAll, Connected
    <3>2. CASE CheckAsks(t)
      <4>1. PICK c \in providerTask[t].left :
              providerTask' = [providerTask EXCEPT
                 ![t].left = @ \ {c},
                 ![t].asked = IF Found(c) = "unsupported" THEN NoEndpoint ELSE c,
                 ![t].failed = IF Found(c) = "unsupported" THEN @ \union {c} ELSE @]
        BY <3>2 DEF CheckAsks
      <4>2. providerTask[t] \in Checking
        BY <2>1, <3>2 DEF CheckAsks
      <4> DEFINE call == [providerTask[t] EXCEPT
                 !.left = @ \ {c},
                 !.asked = IF Found(c) = "unsupported" THEN NoEndpoint ELSE c,
                 !.failed = IF Found(c) = "unsupported" THEN @ \union {c} ELSE @]
      <4>3. call \in Checking
        BY <4>2
      <4>4. providerTask' = [providerTask EXCEPT ![t] = call]
        BY <4>1 DEF ProviderInv, ProviderTyped
      <4> QED
        BY <4>3, <4>4
    <3>3. CASE CheckAnswers(t)
      <4>1. PICK down \in BOOLEAN :
              providerTask' = [providerTask EXCEPT
                 ![t].asked = NoEndpoint,
                 ![t].failed = IF down THEN @ \union {providerTask[t].asked} ELSE @]
        BY <3>3 DEF CheckAnswers
      <4>2. providerTask[t] \in Checking /\ providerTask[t].asked \in ChainIds
        BY <2>1, <3>3 DEF CheckAnswers
      <4> DEFINE call == [providerTask[t] EXCEPT
                 !.asked = NoEndpoint,
                 !.failed = IF down THEN @ \union {providerTask[t].asked} ELSE @]
      <4>3. call \in Checking
        BY <4>2
      <4>4. providerTask' = [providerTask EXCEPT ![t] = call]
        BY <4>1 DEF ProviderInv, ProviderTyped
      <4> QED
        BY <4>3, <4>4
    <3>4. CASE CheckEnds(t)
      BY <3>4 DEF CheckEnds
    <3> QED
      BY <1>5, <3>1, <3>2, <3>3, <3>4
  <2>4. call \in ProviderCalls /\ call.pc \in {"idle", "checking"}
    BY DEF ProviderCalls, NoCall
  <2>5. UNCHANGED <<providers, chainConfigs, startup, overlapped>>
    BY <1>5 DEF CheckAll, CheckAsks, CheckAnswers, CheckEnds
  <2> QED
    BY <2>2, <2>3, <2>4, <2>5, ProviderKept DEF ProviderInv, ProviderTyped
<1>6. CASE UNCHANGED providerVars
  BY <1>6 DEF providerVars, ProviderInv, ProviderTyped, ConfigFollows, Changing, Started
<1> QED
  BY <1>1, <1>2, <1>3, <1>4, <1>5, <1>6 DEF ProviderNext, ProviderStep

\* For any chains, endpoints and tasks, a connection and its configuration
\* agree outside a call unless two calls for the chain overlapped.
THEOREM ConnectionMatchesConfig == ProviderSpec => []SameEndpoint
<1>1. ProviderInv => SameEndpoint
  BY DEF ProviderInv, ConfigFollows, SameEndpoint
<1> QED
  BY ProviderInvInit, ProviderInvStep, <1>1, PTL DEF ProviderSpec
=============================================================================
