# Phantom Filler: specifications and proofs

TLA+ models of the components of Phantom Filler (a bot that discovers Dutch
auction orders, decides which to fill, submits the transactions and settles
the result), checked with TLC on small instances and, for most safety
properties, proved with TLAPS for every instance. Paths below are relative to
`src/`; `nonce.rs:128` is line 128 of the file of that name.

## 1. The system

`crates/phantom-filler/src/main.rs` loads the configuration, starts the
components and serves the API, but does not yet wire the components of a fill
to each other: each crate offers types that their docs call concurrent or
thread-safe (`DashMap`, atomics, `Arc`), and
`crates/phantom-filler/tests/integration_pipeline.rs` shows the order in which
a fill goes through them: *order book -> strategy -> risk check -> nonce ->
submission -> confirmation -> (retry | P&L)*. The models take the types at
their word: several tasks use each component at once, on a multi-threaded
runtime, and may be interrupted wherever the code holds no guard. Where one
component does use another, the models are composed: the event subscription
with the block stream, the builder with the gas oracle, the arbitrage strategy
with the order that decays, the aggregator with its sources, the readiness
endpoint with the registry, the filler contract with its reactors.

| component | state | operations | what is hard | what makes it correct |
|---|---|---|---|---|
| **NonceManager** `phantom-execution/src/nonce.rs` | maps `nonces`, `confirmed` | `get_next_nonce`, `sync_nonce`, `confirm_nonce`, `reset` | first calls race over an await; two maps updated separately; confirmations out of order | no nonce twice, no hole, in step with the chain; slots are freed |
| **RiskManager** `phantom-inventory/src/risk.rs` | `pending_fills`, `daily_pnl_wei` | `check_fill`, `record_fill_start`, `record_fill_complete`, `reset_daily` | check and start are separate calls; u32 wraps | the count is exact; limits overshot boundedly |
| **PnlTracker** `phantom-inventory/src/pnl.rs` | four maps, three counters | `record_fill`, `update_fill_status`, `prune_if_needed` | status updates and prunes between the accesses of a recording | total = sum of the days; the newest fills are kept |
| **BalanceTracker** `phantom-inventory/src/balance.rs` | map of balances | `refresh_native_balance`, `update_balance`, `clear_wallet`, `clear_all` | late answers overwrite newer ones; the limit is a check before | fresh means recent |
| **RetryManager** `phantom-settlement/src/retry.rs` | `active_retries` | `classify_revert`, `evaluate_retry`, `acquire_/release_retry_slot` | load then add; lost slots | slots exact; an end |
| **ConfirmationMonitor** `phantom-settlement/src/confirmation.rs` | map of records | `track_transaction`, `check_status`, `remove_finalized`, `prune_finalized` | guard kept over two awaits; timeout against inclusion; receipts without a block number; reorganisations; collect-then-remove | final is final; Confirmed is deep, but for two ways; pending records stay; an end |
| **WalletManager** `phantom-execution/src/wallet.rs` | map of signers | `import_wallet`, `remove_wallet`, `prepare_signing` | limit checked before | limit overshot boundedly |
| **RelayManager** `phantom-execution/src/relay.rs` | list of relays | `broadcast_bundle`, `broadcast_private_transaction` | a task per relay, enabled or not; answers lost after the relay took the request; panics | the report is true; it comes |
| **TransactionBuilder** `phantom-execution/src/builder.rs` | - | `build` | boundaries of gas and fees | refuses only what is over a cap |
| **OrderBook** `phantom-discovery/src/orderbook.rs` | map of entries | `insert`, `activate`, `mark_*`, `remove`, `cleanup_expired` | check-then-insert; a scan under change | the lifecycle; the scan misses nothing |
| **Dutch orders** `phantom-common/src/types/order.rs`, `phantom-discovery/src/monitor.rs` | - | decoding of times, `validate_order`, `current_output_amount` | decay while others wait; odd times and amounts | what is decided on pays |
| **PriceAggregator**, sources `phantom-pricing/src/` | cache | `get_price` | slow sources, outliers, results stored out of order | an honest majority decides; served prices are recent |
| **GasOracle** `phantom-pricing/src/gas.rs` | cached fees | `get_gas_price`, `estimate_*`, `invalidate_cache` | fees move while they are cached | the price still covers the base fee |
| **StrategyPipeline**, registry `phantom-strategy/src/` | map of strategies | `evaluate_order`, `register`, `enable`, `disable`, `unregister` | timeouts; more strategies than are asked; the registry changes under the walk | the first by priority are asked, the best of their answers is chosen |
| **SimpleArbStrategy** `phantom-strategy/src/arb.rs` | - | `evaluate` | the order decays during the awaited quote | no fill at a loss |
| **FillSimulator** `phantom-strategy/src/simulation.rs` | - | `simulate` | three requests, answered at three moments of the chain | a success is about recent blocks; the gas is not below the estimate |
| **BlockStreamer, EventSubscription** `phantom-chain/src/` | last block, channel | `start`, `stop` | skipped blocks, falling heads, lag, stops and drops while a request is awaited | announced numbers grow; the last block arrives; a stop, and the end of the stream, is heard |
| **MempoolMonitor** `phantom-chain/src/mempool.rs` | seen hashes | `start`, `stop` | marked before fetched; emptied when full | announced once |
| **ProviderManager** `phantom-chain/src/provider.rs` | two maps | `from_configs`, `add_chain`, `remove_chain`, `check_health` | overlapping calls tear the maps apart | endpoint and configuration agree |
| **EventBus, WebSocket** `phantom-api/src/ws.rs` | channel, client count | `publish`, `subscribe`, `handle_socket` | slow and vanished clients | the last event arrives; tasks end |
| **HealthRegistry** `phantom-metrics/src/health.rs`, `phantom-api/src/handlers.rs` | map of components | `register`, `update`, `deregister`, `is_ready`, `report` | an answer is three walks, no snapshot | what lasts is reported |
| **CircuitBreaker** `phantom-metrics/src/health.rs` | four atomics | `state`, `is_allowed`, `record_success`, `record_failure`, `reset` | every access a step; `state()` writes | the documented cycle; trips; recovers |
| **PhantomSettlement** `contracts/src/` | recorders, settlements, total | `recordFill`, `disputeFill`, `resolveDispute`, `addRecorder`, ownership | order of calls by several accounts | settled once, for good |
| **PhantomFiller** `contracts/src/` | reactors, fillers, lock, funds | `fill`, `fillWithCallback`, `fillBatch`, `reactorCallback`, owner calls | control leaves the contract; inner calls revert | fills do not nest |
| Start `phantom-filler/src/main.rs` with `config.rs`, `logging.rs`, `prometheus.rs`, `server.rs` | configuration, ports, registry | load, override, initialise, serve, shut down | the server fails in a task of its own | - |
| not modelled | | | | ABI bytes, tables, SQL: section 5 |

`PROJECT.json` lists them with what is modelled of each, and under `hazards`
the places where this code can go wrong in ways that tests hardly reach, with
the properties that watch each or the reason why none does.

## 2. Modules

One module per component. An action is the stretch of code a task runs while
it holds one `DashMap` guard, or one access to a map or an atomic; a task's
position between two actions is its `pc` (or the `at` of its local record),
and the locals that later code uses are variables. The `*_proofs` modules, listed
last, hold the theorems.

| module | stands for |
|---|---|
| `NonceManager` | `FastIssue`/`FastRefuse` are the fast path of `get_next_nonce` (one guard of `nonces`), `Miss` .. `Assign` the slow path around the await of `fetch_nonce`, `AssignVanished` an entry that was reset meanwhile. `SyncStart` .. `SyncConfirmed`, `ResetNonces`, `ResetConfirmed` are two separate writes each. The chain (`onChain`, `outstanding`) includes transactions in nonce order and confirms them in any order. |
| `NonceDispenser` | what NonceManager promises: nonces of a key are never handed out twice until the key is restarted (`given <- issued`). |
| `RiskManager` | `Propose`, `LoadLoss`, `LoadPending` are `check_fill` with its two loads, `RecordFillStart` the increment, `FreeSlot`, `BookResult` the two atomic updates of `record_fill_complete`. The position is what the submitter passes, read earlier. |
| `PnlTracker` | `StoreFill`, `TakeSeq`, `PutOrder`, `CountFill`, `Credit`, `BookDay`, `BookCoin` and the prune (`PruneBegins`, `Unlink`, `DropFill`) are the accesses of `record_fill`; `UpdateStatus`, `AmendDay` those of `update_fill_status`. The total is an i64 that wraps, the days are wide. |
| `BalanceTracker` | `Fetch`, `CheckLen`, `CheckKnown`, `Insert` are a refresh; `Clear*` the walk of `clear_wallet`. An amount is the moment at which the node read it. |
| `RetryManager` | a message is the set of markers `classify_revert` looks for, in its order. `Evaluate`, `CheckBudget`, `TakeSlot`, `Release` are the calls; the task around them follows their docs. |
| `ConfirmationMonitor` | `CheckBegins` .. `HeadArrives` are `check_status`, which keeps its guard over both awaits: `Guarded(x)` blocks every other access to that record, and `len()`; each record is taken to be in a shard of the map of its own. `ReceiptArrives` may come without a block number, which counts as 0, and `HeadArrives` from a node that is behind; `Reorg` drops a block at any moment. The age of a record is told apart up to the first tick after the timeout. The histories `shaken` and `revived` name the transactions whose check lost its ground, and those tracked again since a pruner chose them. |
| `WalletManager` | `ImportChecks`, `ImportEnds` are the two accesses of an import; signers hold a copy of the key. |
| `RelayManager` | a task per configured relay, enabled or not, since `RelayConfig.enabled` is never read (`Attempt` with the answer its request gets, `Panics`) and the task that collects them in order. `took` is what a relay really accepted. |
| `TransactionBuilder`, `GasOracle` | the request of fees and its fallback, the cache, the price per level, and the builder that checks the price; the base fee moves by an eighth per block. |
| `OrderBook` | `CheckAbsent`, `InsertEntry` are the two accesses of `insert`; the transitions hold the entry and are one step; `ScanBegins` .. `ScanEnds` are `cleanup_expired`, an entry at a time. |
| `DutchOrder` | operators: times of a decoded order, validation, the output required at a moment. |
| `ArbStrategy` | an evaluation that reads the clock, waits for its quote, and decides; the clock goes on. |
| `FillSimulator` | `BlockNumber`, `CallPasses`/`CallFails`, `EstimateGas`/`EstimateFails`, `ResultRead`: the three answers of `simulate` and what it returns; `SimulationEnds` is an error or the timeout, possible at every await. A transaction is what it does at each block. |
| `PriceSources`, `PriceAggregator` | what each adapter can answer; query, outliers, median or mean, cache with its two times. |
| `StrategyPipeline` | the walk of the sharded registry under change, the first strategies by priority, the others dropped, answers or timeouts, the choice by score. |
| `BroadcastChannel` | tokio's broadcast channel: a receiver that falls behind its capacity loses the oldest messages and is told so. |
| `ChainFeed` | the polling task (`streamer`) and the subscriber (`events`) on a chain that grows and falls back; requests fail or are never answered. Both can be told to stop, which the streamer sees at the head of its loop (`poll`) and while it sleeps, not while it awaits `number` or `header`; once the BlockStreamer is dropped (`DropStreamer`) and its task has ended, the subscription finds the channel closed (`StreamClosed`). |
| `MempoolMonitor` | one poll, hash by hash, with the fetch of each transaction and the emptying of the seen set. |
| `EventBus` | publishing, and the task of each connection: send, lag, hang-up. |
| `ProviderManager` | a connection and its configuration as two maps; `from_configs` before anybody else has the manager. |
| `HealthRegistry` | register, update, deregister, and a probe that walks the map three times. |
| `CircuitBreaker`, `BreakerCycle` | one action per access to an atomic; all calls begin with `state()` (`Begin`, `LoadTripped`, `StoreHalfOpen`, `ClearSuccesses`). `BreakerCycle` is the documented cycle; used by one caller, the breaker implements it. |
| `PhantomSettlement`, `SettlementLedger` | an action per transaction that succeeds; the ledger is what readers may rely on: a fill is entered once and stays. |
| `PhantomFiller` | a call that gives control to another contract is a frame, with what it would put back if it reverts; what the other contract does in between are steps. |
| `Startup` | the steps of `main`, each of which may fail, the task of the server, the ports, and the answers of the routes before any fill. |
| `MCNonceManager`, `MCCircuitBreaker`, `MCOrderBook` | values and symmetry for one module. |
| `MCInventory`, `MCSubmission`, `MCFeeds`, `MCDecisions` | several components that share no state, side by side: `focus` says which one a behaviour is about, the others stay in their first state. One run then checks each of them in full, without the product of their states. |
| `NonceManager_proofs`, `ConfirmationMonitor_proofs`, `CircuitBreaker_proofs` | theorems about one module. |
| `Inventory_proofs` | about RiskManager, PnlTracker and BalanceTracker. |
| `Submission_proofs` | about RetryManager, RelayManager and WalletManager, and the contracts PhantomSettlement and PhantomFiller. |
| `Feeds_proofs` | about ChainFeed, MempoolMonitor, HealthRegistry and ProviderManager. |
| `Decisions_proofs` | about OrderBook, PriceAggregator, GasOracle, ArbStrategy, FillSimulator and StrategyPipeline. |
| `FiniteSums` | lemmas that these use: induction over finite sets, and sums over them. |

Definitions named `X_Something` directly above a definition `X` are faulty
forms of `X`: a dropped condition, an off-by-one, an update left out. No
specification uses them. `PROJECT.json` (`mutants`) pairs each property with
one: with `X` replaced by it the property fails in its run.

## 3. What the runs check

| run | instance | shows |
|---|---|---|
| `nonce_first_calls` | one key, three callers, limit 2, chain starts at 0 or 2 | `InStepWithChain`, `ConfirmedForward`: first calls that race over the await never leave the next nonce behind the chain, nor does a confirmation cover what is not mined or move back; `LimitIsLeft`: a full address becomes free again |
| `nonce_overrides` | two callers, a syncer, a resetter | `UniqueNonces` (the refinement of NonceDispenser), `HandedOutWithoutHole` |
| `nonce_spurious_refusal` (violated) | as the first | `RefusalJustified` fails: section 6 |
| `inventory` | risk: two submitters, a completer, three fills, limit 1, u32 of width 8. P&L: two tasks, three recordings, two updates, history of 1, i64 of width 6. Balances: two tasks, two wallets and two tokens, limit 1 | `PendingExact`, `LimitsOvershot`: the count never wraps, and each limit is passed by no more than what was checked before; `TotalFollowsDays`, `NewestKept`: between calls the sums agree, but for fills confirmed before their day is listed, and exactly the newest fills are there; `FreshIsRecent`: a balance not called stale was on the chain recently, though answers overtake each other |
| `submission` | three transactions, one slot, two retries; three relays, two attempts; two operators, limit 1; one transaction tracked again and again, two trackers, checkers and pruners each, two confirmations, three blocks, reorganisations at any time; two accounts, two orders; owner and reactor, calls nested to depth 2 | `SlotsExact`, `Settles`; `BroadcastReport`, `BroadcastReturns`; `WalletsBounded`; `FinalIsFinal`: no late write leaves a final status, `ConfirmedIsDeep`, `PendingKept`, `BecomesFinal`; `SettledOnce` (the refinement of SettlementLedger); `FillsDoNotNest` |
| `confirm_shallow` (violated) | one transaction, one checker | `DepthReached` fails: section 6 |
| `feeds` | four blocks, a reorganisation, a failed request, channel of 2; four hashes; two clients, four events, channel of 2; two health components, a probe; two chains, two tasks; a breaker with one caller and five failures; five files, four environments, two ports | `AnnouncedForward`, `LastBlockArrives`, `StopIsHeard`; `AnnouncedOnce`; `LastEventArrives`; `ProbeIsSound`; `SameEndpoint`; `FollowsCycle` (the refinement of BreakerCycle), `OpenStaysOpen` |
| `decisions` | two orders, a discoverer, two scans; one pair, four sources of which one is on another chain, with outliers and prices of zero, two tasks; two tasks that price gas over seven blocks; three strategies of which two are asked; five kinds of orders, two evaluations; one simulation over four blocks (its property, `SuccessIsRecent`, is proved) | `FollowsLifecycle`, `ScanMissesNothing`; `FreshPrice`, `HonestMajority`; `FeeCovers`; `BestOfTheAsked`; `DecisionCovers` |
| `pipeline_left_out` (violated) | three strategies of which two are asked | `AllActiveAsked` fails: section 6 |
| `orderbook_double_insert` (violated) | two discoverers | `InsertKeeps` fails: section 6 |
| `circuit_overlap` | two callers, an operator, thresholds 2, three failures | `EnoughSuccessesClose`, `StaysCutOff`, `Recovers` |
| `circuit_shortcut` (violated) | two callers, thresholds 1 | `OnlyTheCycle` fails: section 6 |

**Bounds.** The `Max...` constants that no configuration has stop counters
that the code does not stop; each is a guard of the action that would go past
it. They leave room for what matters: a first call, a full limit and its
release; inclusion, reorganisation, inclusion again and the required depth; a
trip, a failed probe and a recovery; a receiver that lags by more than its
channel holds; a seen set that is emptied twice; a history that two prunes
find too long; the decay of an order from its start to its deadline; a cached
fee that outlives its worst rise. Two tasks are enough for a lost or doubled
update between two accesses; the third in `nonce_first_calls` and among the
transactions of `submission` stays behind while two others finish. Widths
(`U32 = 8`, `I64Max = 3`) are small enough to wrap or, where it must not, to
show it. Where the deadlock check is off, the
configuration says why its behaviours end. Symmetry is used in runs without liveness only.

**Fairness.** It is what the runtime and the environment owe. A call of
`get_next_nonce` that was started is run to its end, and its provider answers or
fails; the chain includes submitted transactions and confirmations are recorded
(`LimitIsLeft` says nothing without that); a retried submission ends
(`Settles`); every relay's task goes on, since its requests have timeouts
(`BroadcastReturns`); callers go on using the breaker (`Recovers`, whose premise
is that operations stop failing); the streams' tasks are scheduled, the chain
grows, and a client's socket takes or refuses a write. All of it is weak, but
for the stop branches of the two `select!` loops of `ChainFeed`: `select!` picks
among ready branches at random, so a branch that is ready again and again is
taken, which is strong fairness. Nobody is obliged to start a call, and no
reset, prune, stop, lag or reorganisation is ever owed.

No answer of the node is owed to `check_status` and the streams, whose requests
have no timeout: a task that awaits one may hang for ever. `BecomesFinal`
assumes only that the clock runs and that a transaction past its timeout is
polled (the caller's duty, as the docs of `check_status` say), and says what is
then left: final, tracked again infinitely often, or a check of that very
transaction that is never answered, since it holds the guard that the timeout of
confirmation.rs:185 would need. `LastBlockArrives` and `StopIsHeard` except a
task that hangs in the same way, and nothing else.

## 4. What is proved

For every value of the constants that meets the named assumption of the module
(types of the configuration, disjoint sets of tasks) and the hypothesis given
in the second column, if any:

| theorem | statement | argument |
|---|---|---|
| `TypeCorrect` (three modules), `RiskTyped`, `RetryTyped`, `OrderBookTyped`, `SettlementTyped` | every variable has its type | inductive, each by itself; ConfirmationMonitor's needs `Guards` below |
| **NonceManager_proofs** | | |
| `HandedOut` | `[]HandedOutWithoutHole` | `StepKinds` reduces every step to: hand out, open an entry, overwrite, or leave both alone |
| `Refinement` | `UniqueNonces`: NonceManager implements NonceDispenser | the nonce handed out is new; opening an entry stutters, overwriting restarts |
| `FirstCallsFresh` | without sync and reset `[]InStepWithChain` | `IInv` adds what each first caller has fetched (not ahead of the chain, equal to it while the entry is missing) and that outstanding nonces lie below the next one: nothing can be mined between a fetch and the first insertion |
| `NeverTakenBack` | without sync and reset `ConfirmedForward` | from TypeOK |
| **Inventory_proofs** | | |
| `PendingIsExact` | `[]PendingExact` | the counter follows the cardinality of the fills in flight, which the width exceeds (`RiskAssumption`) |
| `LimitsHold` | `[]LimitsOvershot` | `IInv` bounds each quantity together with everything that may still be added to it: slots by tasks past the check (`Slots`), the loss by what is in flight (`Losses`), the position by what is in flight and admitted (`Holdings`) |
| `NewestFillsKept` | `[]NewestKept` | `PnlInv`: each sequence number is with the recording that took it, listed, or pruned (`SeqPlaces`), each stored fill is listed once or held by one call (`IdPlaces`), and what is listed beyond the limit has a call that will still prune. `NewestKept` alone is not inductive: it speaks of the moments without a call |
| `TotalIsSumOfDays` | if every single profit fits into the total's i64 (`Records \subseteq Bookable`), `[]TotalFollowsDays` | `BooksAgree`: at every moment the total is ahead of the sum of the days by what the calls under way have credited and not booked yet, and by `unlisted`, modulo its width; the counts of fills and tokens lag behind by what the calls have not counted. Every step moves one value in one of these sums (`SumChange`, `SumPut`). The property alone speaks of the moments without a call |
| `UnstaleAmountIsRecent` | `[]FreshIsRecent` | `InTime`: an amount on its way was read no longer ago than the way of one answer; `RoomLeft`: entries, and the keys of tasks past the check, stay within the limit and one for each task but the first |
| **Submission_proofs** | | |
| `SlotsAreExact` | `[]SlotsExact` | the counter follows the cardinality of the retrying tasks; saturation is never reached |
| `ReportIsTrue` | `[]BroadcastReport` | `TookWhatWasSent`: what a relay took is bounded by the attempts its task has made, and who says success was taken; `ResultsSoFar`: the results are those of the tasks collected so far, in the order of the relays |
| `WalletsStayBounded` | `[]WalletsBounded` | `RoomsTaken` counts the wallets together with the imports past the check |
| `LedgerImplemented`, `TotalIsCount` | `SettledOnce`: the contract implements SettlementLedger; the total is the number of settled orders | `Steps`: a step enters one new fill or leaves every fill as it is |
| `NoNestedFill` | `[]FillsDoNotNest` | `LockInv`: the lock is closed exactly while a frame is a fill, at most one is, and every frame would put back the lock as it was below it, so a revert restores both |
| **ConfirmationMonitor_proofs** | | |
| `FinalStays` | `FinalIsFinal` | `Guards`: who waits for an answer has a pending record to itself |
| `ConfirmedReally` | `ConfirmedIsDeep`: Confirmed is at the required depth, unless the receipt had no block number or the block was dropped between the two answers (`shaken`) | `Seen`: the receipt that an unshaken check holds is still on the chain, in the block it has recorded, when the head arrives; `HeadConfirms`: nothing else makes a record Confirmed |
| `PendingStays` | `PendingKept`: a pending record disappears only when its transaction was tracked again after a pruner chose it (`revived`) | `Doomed`: what a pruner has chosen and not yet removed is final, gone or revived; a record becomes pending by `InsertRecord` alone, by the argument of `FinalStays` |
| **CircuitBreaker_proofs** | | |
| `SuccessesClose`, `CutOff` | `[]EnoughSuccessesClose`; `StaysCutOff` | `CutInv`: until something succeeds or resets, nobody is in the code of a success, and who has seen the circuit open or half-open is right that it is not closed. Thresholds are not 0, as in the default configuration |
| `OpenForItsTime` | with one caller and no operator (`Lone`) `OpenStaysOpen` | `LoneInv`: what the one call has read still holds (`KnownState` says what that is at each place), and the stored time is not before the circuit opened, so half-open is stored only after the time has passed |
| `CycleFollowed` | with one caller and no operator `FollowsCycle`: the breaker implements BreakerCycle | `Mode`, `Run`, `Oks`, `Due` read a call that is under way as done or not begun; with `LoneInv`, `CycleStep` matches each action with a step of the cycle or a stutter |
| **Feeds_proofs** | | |
| `BlocksOnlyForward` | `[]AnnouncedForward` | `AboveTheLast`: what is about to be announced is above the last block, which is above all that was announced |
| `TransactionsAnnouncedOnce` | `[]AnnouncedOnce` | `AnnouncedSoFar`: a hash that is not marked as seen was announced at most once for each clearing; `SeenSoFar`: the marks exceed the limit by those of the present block |
| `AnswerIsSound` | `[]ProbeIsSound` | `DuringIsCurrent`: what is collected as seen during an answer contains what is the case now; `ReadySoFar`, `StatusSoFar`: each of the three walks is sound for the components it has passed |
| `ConnectionMatchesConfig` | `[]SameEndpoint` | `ConfigFollows`: while the calls of a chain have not overlapped, the one task between its two writes is the only one that makes the maps differ |
| **Decisions_proofs** | | |
| `LifecycleFollowed`, `NothingMissed` | with at most one discoverer (`Alone`) `FollowsLifecycle` and `[]ScanMissesNothing` | `Absent`: what a discoverer is about to insert is not in the book, which one discoverer alone guarantees |
| `ServedPriceIsFresh` | `[]FreshPrice` | `Stamped`: a cached price is as old as its stamp and one timeout at most; `QueryTimely`: a query under way is younger than the timeout |
| `MajorityDecides` | `[]HonestMajority` | `HonestInv`: every cached price is the aggregate of the quotes it lists. The rest is about one aggregation: the price of the middle rank exists (`RankExists`) and has too few quotes on either side for a majority to lie there (`RankInside`); prices of an agreeing set agree with a median inside it, so the filter keeps the majority and nothing further away than the deviation (`AgreeingStay`, `KeptAround`); a mean lies where all its prices lie (`MeanInside`) |
| `PricesCover` | if cache lifetime and latency together are five blocks at most, `[]FeeCovers` | `Grown`: in k blocks the base fee grows by (9/8)^k at most, and twice the fee of five blocks ago, as the oracle computes it, is enough (`(9/8)^5 < 2`); `CachedInTime`, `AnsweredInTime` say how old each fee is wherever it is held |
| `DecisionsCover` | `[]DecisionCovers` | `QuoteLasts`: what an order requires only falls while the quote is awaited; `DecisionAddsUp` |
| `SimulationHolds` | `[]SuccessIsRecent` | `SimulatesWell`, `ClaimsWell`: the block named, the block the call passed at and the present are within one timeout of each other until the result is read |
| `BestIsAnswered` | `[]BestOfTheAsked` | `Walking`: a strategy that stayed enabled and has been passed by the walk was found, with the priority it still has; ranks are one number for each place (`RankStep`), so the first ones are not above those left behind, and as many as allowed; for the choice, the last of the greatest scores exists in every finite list |

`tlapm` checks every leaf with SMT, Zenon or LS4. The hypotheses are needed:
two discoverers insert twice (`orderbook_double_insert`), a second caller of a
breaker takes shortcuts (`circuit_shortcut`), and a `sync_nonce` overwrites both
maps with whatever it fetched. The theorems about ConfirmationMonitor have none:
what the code does not keep is excepted in the properties, by name. `FeeTtl + FeeLatency <= 5` is the reach of the
oracle's factor of two; the default configuration keeps a fee for one block.

`FiniteSums` is what `TotalIsSumOfDays`, `MajorityDecides` and `BestIsAnswered`
rest on. A fold over a set computes a value
by a recursion over its subsets, and the induction theorems of the library take
a predicate as a parameter, which the installed provers cannot instantiate. The
module states induction over sets instead: a set of subsets that contains the
empty one and grows by any element contains them all (`EverySubset`,
`EverySize`), from the fact that a set of naturals has a least element. With it
the recursion is shown to have a solution that does not depend on the order of
the elements (`SumsExist`, `SumsAny`), and `SumOver` to obey the laws of a sum.

All invariants and step properties of the passing runs are theorems, each
with the hypotheses named above. Only model-checked are the liveness properties
(`LimitIsLeft`, `Settles`, `BroadcastReturns`, `BecomesFinal`, `Recovers`,
`LastBlockArrives`, `StopIsHeard`, `LastEventArrives`), which are beyond the
prover.

## 5. What is not modelled, and the plan

Left out for good: ABI bytes, JSON and routing, formatting, logging and the
metrics that are recorded, keys and signatures, constant tables, error texts,
and the SQL schema, which no code uses yet. Backoff delays are not measured (a
wait just ends). Memory ordering is sequentially consistent: the code uses
`SeqCst` throughout. Read-only accessors that copy one value out of one map
are left out where no property needs them.

Simplifications worth knowing: RiskManager's daily result is an unbounded
integer, while the code's i64 of wei wraps past about 9.2 ETH (risk.rs:229).
In `PhantomFiller` one token stands for all. `ArbStrategy` evaluates orders that
pass `validate_order`, which the monitor applies (monitor.rs:136-171) and
`evaluate` does not; the U256 product of order.rs:134 cannot wrap at the sizes
of the model. The answers of a price query and
of the asked strategies arrive in one step, because `join_all` shares nothing.
`Startup` has no property of its own; its steps and failures are there for the
observations at the end of section 6.

Order of the next work:

1. `FillPipeline`: RiskManager, NonceManager, ConfirmationMonitor,
   RetryManager and PnlTracker along the pipeline test, once `main` wires them:
   a fill must free its slot whatever happens to it.
2. Runtime threads for the guard that `check_status` holds over its awaits
   (confirmation.rs:172): a blocked thread may be the one that should resume
   the holder.
3. Theorems about `FillPipeline` when it is there; for what is modelled now the
   safety side is done (section 4).

## 6. Where the code and its docs disagree

Shown by runs that TLC refutes:

- `nonce_spurious_refusal`: the first nonce of a key is visible before its
  baseline is stored (nonce.rs:133). A caller in between takes the baseline
  for 0 and is refused, although nothing is pending.
- `orderbook_double_insert`: two concurrent `insert`s of one id both succeed
  (orderbook.rs:55-59), and the second sets the order back to Pending.
- `confirm_shallow`: a receipt without a block number counts as block 0
  (confirmation.rs:215), so the transaction is Confirmed as soon as the head is
  at least the required number; a block dropped between the two answers
  (lines 197 and 236) does the same. Confirmed is documented as "reached required
  confirmations" (confirmation.rs:44-45). `ConfirmedIsDeep` shows that there is
  no third way.
- `pipeline_left_out`: "all active strategies" are promised, with a limit on how
  many run at once (pipeline.rs:23-24, 69-73), but `take()` drops those beyond
  the limit for good (pipeline.rs:122). `BestOfTheAsked` is about the rest.
- `circuit_shortcut`: `record_success` closes a circuit on a state it read
  earlier (health.rs:304), so a circuit that was just reopened is closed.

Shown by a run that passes: RelayManager "submits to all enabled relays"
(relay.rs:381), but `RelayConfig.enabled` (relay.rs:25-26) is never read and
every relay that was added is sent everything (relay.rs:432, 476).
`BroadcastReport` therefore expects a result of every relay.

Other limits are kept only approximately, which the passing runs state
exactly: pending fills, daily loss and position (`LimitsOvershot`), wallets
(`WalletsBounded`), balance entries (`FreshIsRecent`). Noted while modelling,
without a run of their own:

- slow-path callers skip `max_pending_per_address` (nonce.rs:128); trackers
  that checked together exceed `max_tracked` (confirmation.rs:128);
  `acquire_retry_slot` loads and adds in two accesses, so the budget can be
  exceeded (retry.rs:267-273);
- an Included transaction is dropped when it times out (confirmation.rs:185);
  a record that is tracked again between the two halves of `prune_finalized`
  is removed while pending (confirmation.rs:313-316; `PendingKept` excepts
  exactly those);
- after a `sync_nonce` a nonce that is still in the mempool may be handed out
  again (nonce.rs:168; `UniqueNonces` and `HandedOutWithoutHole` begin anew with
  every overwrite);
- a request of `check_status`, of the block streamer or of the event
  subscription that is never answered keeps its task, and in the first case the
  record's guard, for ever: none of them has a timeout (confirmation.rs:197, 236,
  stream.rs:177, events.rs:265);
- a caller that looks between the two stores of `trip` uses the old trip time
  (health.rs:366; `OpenStaysOpen` is checked for one caller); the half-open
  state lets everybody through (health.rs:286);
- `record_fill` "updates daily and per-token aggregations atomically"
  (pnl.rs:184), yet a fill that is confirmed while it is being recorded enters
  the total and not its day, when that has no entry yet (pnl.rs:198, 344;
  `TotalFollowsDays` counts what the days miss in `unlisted`);
- a single profit beyond the i64 of the total, about 9.2 ETH, enters the total
  clamped and its day whole (pnl.rs:207-242), so `TotalIsSumOfDays` asks for
  profits within it;
- a price of zero is accepted from a source, and when the median is zero nothing
  is an outlier (aggregator.rs:260): one other source then moves the mean as far
  as it likes, which `HonestMajority` excepts;
- above the ceiling of the score (pipeline.rs:183-186) decisions of different
  profit are equal, and the last one is chosen; `BestOfTheAsked` therefore
  speaks of the product up to its ceiling;
- a fill that goes from Confirmed to Reverted keeps its profit (pnl.rs:333);
- overlapping `add_chain` and `remove_chain` leave a provider without
  configuration or with another's (provider.rs:61-62; `SameEndpoint` excepts
  chains whose calls overlapped);
- `simulate` reports every failed `eth_call` as a revert, also one the node
  never answered (simulation.rs:198-209), and a failed estimate as a success
  with the gas limit in the place of the estimate (simulation.rs:175-179);
- a transaction whose fetch failed is not announced until the seen set is
  emptied (mempool.rs:212);
- the adapter of Uniswap asks for four fee tiers one after the other under the
  aggregator's one timeout (sources.rs:149-176);
- `config.rs` validates in `from_file` (line 218), `main` applies the
  environment's overrides afterwards (main.rs:29-30), so an override is never
  validated;
- the API is marked healthy before its server is spawned (main.rs:97-98):
  after a failed bind (main.rs:104) the process goes on without a server and
  its registry says Healthy, for instance when API and metrics are given the
  same port;
- `removeReactor` leaves the reactor's token approvals in place
  (PhantomFiller.sol:112-117).
