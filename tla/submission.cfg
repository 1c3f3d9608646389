\* Three failed transactions race for one retry slot; bundles go to three relays
\* with two attempts each; two operators and a signer share the wallets; a
\* transaction is tracked again and again by two tasks, checked by two and pruned
\* by two, while the chain grows and drops blocks; two accounts record and dispute
\* two orders; an owner, another account and a reactor fill through the filler
\* contract.
SPECIFICATION SubmissionSpec
CONSTANTS
    Txs = {t1, t2, t3}
    Messages <- SomeMessages
    Budget = 1
    MaxRetries = 2
    NRelays = 3
    MaxAttempts = 2
    Operators = {o1, o2}
    Signers = {g1}
    Addresses = {d1, d2, d3}
    MaxWallets = 1
    Hashes = {x1}
    Trackers = {k1, k2}
    Checkers = {c1, c2}
    Pruners = {p1, p2}
    Required = 2
    Timeout = 1
    MaxTracked = 2
    MaxHead = 3
    None = None
    Accounts = {a1, a2}
    NoAccount = a0
    OrderHashes = {h1, h2}
    Amounts = {0, 1}
    MaxTimestamp = 2
    FillerAccounts = {b1, r1}
    Reactors = {r1}
    ZeroAddress = a0
    BatchSizes = {0, 1, 257}
    MaxBatch = 256
    MaxFunds = 1
    MaxDepth = 2
    MaxFillerCalls = 6
INVARIANTS
    SlotsExact
    BroadcastReport
    WalletsBounded
    FillsDoNotNest
PROPERTIES
    Settles
    BroadcastReturns
    FinalIsFinal
    PendingKept
    ConfirmedIsDeep
    BecomesFinal
    SettledOnce
\* A contract without an owner and recorders stops.
CHECK_DEADLOCK FALSE
