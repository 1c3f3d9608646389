\* Two submitters race for the last fill slot and a completer books results; two
\* tasks record, update and prune fills; two tasks refresh and clear balances.
SPECIFICATION InventorySpec
CONSTANTS
    Submitters = {s1, s2}
    Completers = {c1}
    FillIds = {f1, f2, f3}
    Values = {1, 2}
    None = None
    MaxLoss = 1
    MaxPosition = 2
    MaxSingle = 1
    LossLimit = 1
    MaxPending = 1
    Enabled = TRUE
    U32 = 8
    MaxProfit = 1
    PnlTasks = {t1, t2}
    Records <- SomeRecords
    Days = {"d1", "d2"}
    Coins = {"a", "b"}
    MaxHistory = 1
    TrackCoins = TRUE
    I64Max = 3
    MaxFills = 3
    MaxUpdates = 2
    BalanceTasks = {b1, b2}
    Wallets = {w1, w2}
    WalletTokens = {n1, n2}
    MaxEntries = 1
    StaleThreshold = 1
    MaxDelay = 1
    MaxTime = 3
SYMMETRY InventorySymmetry
INVARIANTS
    PendingExact
    LimitsOvershot
    TotalFollowsDays
    NewestKept
    FreshIsRecent
\* The bounds of the fills and of the clock end every behaviour.
CHECK_DEADLOCK FALSE
