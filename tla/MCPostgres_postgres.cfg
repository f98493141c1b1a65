SPECIFICATION FairSpec
CONSTANTS
    Children = {c1, c2}
    NoChild = NoChild
    PipeSize = 1
    GracePeriod = 1
    ReadyTries = 1
    MaxStarts = 2
INVARIANTS
    TypeOK
    TheServerIsHeld
    SignalsExplained
    AnswersExplained
    LoggerStays
PROPERTIES
    ImplementsServer
    CallsReturn
