\* Three tasks call get_next_nonce for the same untouched key; nobody syncs.
SPECIFICATION FairSpec
CONSTANTS
    Keys = {k1}
    Callers = {c1, c2, c3}
    Syncers = {}
    Resetters = {}
    MaxPending = 2
    FirstCounts = {0, 2}
    MaxNonce = 5
    None = None
INVARIANTS
    InStepWithChain
PROPERTIES
    ConfirmedForward
    LimitIsLeft
\* The key is used up at MaxNonce: then nobody calls any more.
CHECK_DEADLOCK FALSE
