SPECIFICATION FairSpec
CONSTANTS
    Clients = {c1}
    Files = {f1}
    Unwritable = {}
    Unreadable = {}
    Backlog = 1
    MaxLines = 1
    MaxSigs = 0
    MaxKills = 0
CHECK_DEADLOCK FALSE
PROPERTY
    LineIsAcknowledged
