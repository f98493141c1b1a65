SPECIFICATION FairSpec
CONSTANTS
    alter = alter
    custom = custom
    Names = {alter, custom}
    Weights = {0, 1, 7}
    IntLimit = 4
    SizeLimit = 16
    WorkerCount = 2
    Defaults <- OneAction
    Script <- BasicScript
    Edits = {"insert", "remove", "weight", "use"}
    MaxActions <- TwoOrOne
    MaxCalls = 7
    MaxEdits = 1
    MaxLives = 2
INVARIANTS
    TypeOK
    DrawsAreWeighted
    StopsExplained
    StatisticsAddUp
    NoSessionPulled
    FreshSessions
    RunsStart
PROPERTIES
    WaitReturns
