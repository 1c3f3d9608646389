\* Two tasks discover the same order.
SPECIFICATION Spec
CONSTANTS
    x1 = x1
    x2 = x2
    Orders = {x1, x2}
    Discoverers = {d1, d2}
    Cleaners = {c1}
    Deadline <- Deadlines
    MaxTime = 2
    None = None
SYMMETRY TaskSymmetry
PROPERTIES
    InsertKeeps
