\* One discoverer and two overlapping scans of the book; three price sources
\* with outliers; two tasks that price gas; three strategies with priorities;
\* two evaluations of five kinds of orders; a simulation.
SPECIFICATION DecisionsSpec
CONSTANTS
    x1 = x1
    x2 = x2
    Orders = {x1, x2}
    Discoverers = {d1}
    Cleaners = {c1, c2}
    Deadline <- Deadlines
    MaxTime = 2
    None = None
    PriceTasks = {q1, q2}
    Pairs <- SomePairs
    Sources <- SomeSources
    Prices = {0, 100, 109, 300}
    CurveCoins = {"weth", "usdc"}
    TiersMax = 2
    CacheTtl = 1
    SourceTimeout = 1
    MinSources = 2
    MaxDeviation = 10
    MaxClock = 3
    MaxGasLimit = 2
    MaxFeeCap = 200
    GasTasks = {g1, g2}
    Levels = {"low", "high"}
    Bps <- LevelBps
    FeeMax = 4000000
    FeeTtl = 3
    FeeLatency = 2
    Floor = 50
    Fallback = 30
    FallbackTip = 2
    Tips = {1, 500}
    FirstFees = {64}
    FillGas = {1, 3}
    MaxBlocks = 7
    Evaluators = {e1}
    Strategies = {s1, s2, s3}
    Priorities = {1, 2}
    Decisions <- SomeDecisions
    MaxConcurrent = 2
    MinConfidence = 50
    MinProfit = 9
    ScoreMax = 700
    MaxOperations = 5
    LastTimestamp = 8
    ArbTasks = {a1, a2}
    RawOrders <- SomeOrders
    Costs = {5, 17, 20}
    GasCosts = {0, 2, 6}
    MinProfitWei = 1
    MinProfitBps = 600
    MaxGasCost = 5
    MaxSeconds = 5
    SimTasks = {f1}
    GasNeeds = {2, 5}
    GasLimits = {2}
    DefaultGasLimit = 6
    BufferBps = 12000
    GasMax = 6
    SimTimeout = 2
    MaxHeight = 4
SYMMETRY DecisionsSymmetry
INVARIANTS
    ScanMissesNothing
    FreshPrice
    HonestMajority
    FeeCovers
    BestOfTheAsked
    DecisionCovers
PROPERTIES
    FollowsLifecycle
\* The bounds of the clocks and of the operators' calls end every behaviour.
CHECK_DEADLOCK FALSE
