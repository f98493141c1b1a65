SPECIFICATION FairSpec
CONSTANTS
    w1 = w1
    w2 = w2
    w3 = w3
    Threads = {w1, w2}
    TableIds = {t1, t2, t3, t4}
    Defs = {d1}
    NoTable = NoTable
    NoThread = NoThread
    MaxTables = 4
    MinTableCount = 2
    MaxTableCount = 4
    InitialTables = 3
    Work <- CreateDrop
    RelockThrows = TRUE
PROPERTY WaitCompletionReturns
