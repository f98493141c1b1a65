SPECIFICATION Spec
CONSTANTS
    alter = alter
    custom = custom
    Names = {alter, custom}
    Weights = {0, 1}
    IntLimit = 4
    SizeLimit = 16
    WorkerCount = 1
    Defaults <- TwoActions
    Script <- RestartScript
    Edits = {}
    MaxActions <- TwoOrOne
    MaxCalls = 7
    MaxEdits = 0
    MaxLives = 2
INVARIANTS
    SessionsConfigured
