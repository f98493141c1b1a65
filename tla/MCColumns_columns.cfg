SPECIFICATION Spec
CONSTANTS
    Workers = {w1, w2}
    NoWorker = NoWorker
    Names = {a, b, c, d}
    MaxColumns = 4
    MaxClauses = 2
    MaxAlters = 2
SYMMETRY Symmetry
INVARIANTS
    TypeOK
    PrimaryKeyFirst
    ColumnsFollow
    DmlErrorsExplained
