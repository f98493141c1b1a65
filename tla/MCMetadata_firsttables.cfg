SPECIFICATION Spec
CONSTANTS
    w1 = w1
    w2 = w2
    w3 = w3
    Threads = {w1, w2}
    TableIds = {t1, t2}
    Defs = {d1}
    NoTable = NoTable
    NoThread = NoThread
    MaxTables = 3
    MinTableCount = 3
    MaxTableCount = 4
    InitialTables = 0
    Work <- CreateOnly
    RelockThrows = TRUE
SYMMETRY FullSymmetry
INVARIANT NoHoles
