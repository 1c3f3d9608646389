\* Three tasks call get_next_nonce for the same untouched key; nobody syncs.
SPECIFICATION Spec
CONSTANTS
    Keys = {k1}
    Callers = {c1, c2, c3}
    Syncers = {}
    Resetters = {}
    MaxPending = 2
    FirstCounts = {0, 2}
    MaxNonce = 5
    None = None
SYMMETRY CallerSymmetry
PROPERTIES RefusalJustified
