\* A chain of four blocks with a reorganisation and a failing request; four
\* pending transactions, one not watched; two WebSocket clients and four events;
\* two health components that change while a request is served; a circuit
\* breaker whose caller fails five times; two chains that two tasks connect,
\* remove and check; the start with five files, four environments and two ports.
SPECIFICATION FeedsSpec
CONSTANTS
    MaxHead = 3
    MaxReorgs = 1
    MaxFailures = 1
    BlockCapacity = 2
    None = None
    NoEndpoint = NoEndpoint
    Hashes = {h1, h2, h3, h4}
    Watched = {h1, h2, h3}
    MaxSeen = 1
    MaxBlock = 2
    MaxClears = 2
    Clients = {c1, c2}
    BusCapacity = 2
    MaxEvents = 4
    Names = {n1, n2}
    Probes = {p1}
    MaxChanges = 2
    Callers = {k1}
    Operators = {}
    Outcomes = {"ok", "fail"}
    FailureThreshold = 2
    SuccessThreshold = 2
    Timeout = 2
    MaxFailed = 5
    ChainIds = {m1, m2}
    Endpoints = {"url a", "url b", "not a url"}
    BadEndpoints = {"not a url"}
    ProviderTasks = {w1, w2}
    MaxConnections = 4
    Ports = {8080, 9090}
    Files <- SomeFiles
    Environments <- SomeEnvironments
    FillIds = {"a fill"}
    MaxRequests = 2
INVARIANTS
    AnnouncedForward
    AnnouncedOnce
    ProbeIsSound
    SameEndpoint
PROPERTIES
    LastBlockArrives
    StopIsHeard
    LastEventArrives
    FollowsCycle
    OpenStaysOpen
\* The streams end when they are shut down and the bus with its last event.
CHECK_DEADLOCK FALSE
