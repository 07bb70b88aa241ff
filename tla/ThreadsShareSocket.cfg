SPECIFICATION Spec
CONSTANTS
    Clients = {c1, c2}
    Files = {f1}
    Unwritable = {}
    Other = other
    Backlog = 0
    MaxLines = 1
    MaxLeft = 0
    MaxSigs = 0
    MaxKills = 0
CHECK_DEADLOCK FALSE
INVARIANT
    OwnConnection
