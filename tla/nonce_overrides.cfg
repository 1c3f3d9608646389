\* Two callers, one task that syncs and one that resets, one key.
SPECIFICATION Spec
CONSTANTS
    Keys = {k1}
    Callers = {c1, c2}
    Syncers = {s1}
    Resetters = {r1}
    MaxPending = 2
    FirstCounts = {0}
    MaxNonce = 2
    None = None
SYMMETRY CallerSymmetry
INVARIANTS
    HandedOutWithoutHole
PROPERTIES
    UniqueNonces
