SPECIFICATION FairSpec
CONSTANTS
    Clients = {c1, c2}
    Files = {f1}
    Unwritable = {}
    Other = other
    Backlog = 0
    MaxLines = 1
    MaxLeft = 0
    MaxSigs = 2
    MaxKills = 1
CHECK_DEADLOCK FALSE
INVARIANTS
    TypeOK
    OutlivesThreads
PROPERTIES
    EndsAfterThreads
    ThreadEnds
