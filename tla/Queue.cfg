SPECIFICATION FairSpec
CONSTANTS
    Senders = {s1, s2}
    MaxLines = 2
    Capacity = 2
    MaxFiles = 4
    MaxRuns = 2
    MaxKills = 1
CHECK_DEADLOCK FALSE
INVARIANTS
    TypeOK
    CounterIsActive
    StreamIsWhole
PROPERTIES
    SendEnds
    ReceiverEnds
