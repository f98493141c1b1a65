SPECIFICATION Spec
CONSTANTS
    w1 = w1
    w2 = w2
    w3 = w3
    Threads = {w1, w2, w3}
    TableIds = {t1, t2, t3, t4, t5, t6}
    Defs = {d1}
    NoTable = NoTable
    NoThread = NoThread
    MaxTables = 5
    MinTableCount = 2
    MaxTableCount = 4
    InitialTables = 4
    Work <- OneCreates
    RelockThrows = TRUE
SYMMETRY ExceptFirst
INVARIANTS
    NoHoles
    LockOrder
PROPERTY ImplementsTableSet
