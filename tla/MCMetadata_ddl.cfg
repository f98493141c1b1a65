SPECIFICATION Spec
CONSTANTS
    w1 = w1
    w2 = w2
    w3 = w3
    Threads = {w1, w2}
    TableIds = {t1, t2, t3, t4, t5}
    Defs = {d1, d2}
    NoTable = NoTable
    NoThread = NoThread
    MaxTables = 5
    MinTableCount = 2
    MaxTableCount = 4
    InitialTables = 3
    Work <- AllDdl
    RelockThrows = TRUE
SYMMETRY FullSymmetry
INVARIANTS
    TypeOK
    NoHoles
    NoDuplicates
    HeldTableStays
    Accounting
    NoUndefinedBehaviour
    LockOrder
    RelockAbsorbed
    SizeBounds
PROPERTY ImplementsTableSet
