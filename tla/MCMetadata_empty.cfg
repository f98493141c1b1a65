SPECIFICATION Spec
CONSTANTS
    w1 = w1
    w2 = w2
    w3 = w3
    Threads = {w1, w2, w3}
    TableIds = {t1, t2, t3, t4, t5}
    Defs = {d1}
    NoTable = NoTable
    NoThread = NoThread
    MaxTables = 3
    MinTableCount = 0
    MaxTableCount = 3
    InitialTables = 0
    Work <- Everything
    RelockThrows = TRUE
SYMMETRY FullSymmetry
INVARIANTS
    HeldTableStays
    Accounting
    NoWrapAround
\* From an empty store workers can end up waiting for each other (see README).
CHECK_DEADLOCK FALSE
