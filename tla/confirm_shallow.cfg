\* One transaction, one task that checks it, no pruning.
SPECIFICATION ConfirmSpec
CONSTANTS
    Hashes = {x1}
    Trackers = {t1}
    Checkers = {c1}
    Pruners = {}
    Required = 2
    Timeout = 1
    MaxTracked = 1
    MaxHead = 3
    None = None
PROPERTIES
    DepthReached
