SPECIFICATION FairSpec
CONSTANTS
    Clients = {c1, c2}
    MaxLines = 2
    QLen = 1
    MaxRuns = 2
    MaxKills = 1
CHECK_DEADLOCK FALSE
INVARIANTS
    TypeOK
    CounterIsFiles
PROPERTIES
    ImplementsStore
    LineIsAnswered
    ServerEnds
