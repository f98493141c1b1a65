SPECIFICATION Spec
CONSTANTS
    alter = alter
    custom = custom
    Names = {alter, custom}
    Weights = {0, 1}
    IntLimit = 4
    SizeLimit = 16
    WorkerCount = 2
    Defaults <- TwoActions
    Script <- BasicScript
    Edits = {"remove"}
    MaxActions <- TwoOrOne
    MaxCalls = 7
    MaxEdits = 1
    MaxLives = 2
INVARIANTS
    LookupFinds
