SPECIFICATION Spec
CONSTANTS
    Workers = {w1, w2, w3}
    Ids = {t1, t2, t3, t4}
    NoId = NoId
    Names = {foo1, foo2}
    NoTable = NoTable
    MaxTables = 3
    MinTableCount = 0
    MaxTableCount = 1
    MaxLives = 2
SYMMETRY Symmetry
INVARIANTS
    TypeOK
    OrphansExplained
    PhantomsExplained
    ForeignDropsExplained
