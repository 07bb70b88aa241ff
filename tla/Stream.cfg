SPECIFICATION MCSpec
CONSTANTS
    c1 = c1
    c2 = c2
    f1 = f1
    f2 = f2
    f3 = f3
    Clients = {c1, c2}
    Files = {f1, f2, f3}
    Unwritable = {f2}
    Unreadable = {f3}
    Backlog = 0
    MaxLines = 2
    MaxSigs = 2
    MaxKills = 1
CHECK_DEADLOCK FALSE
INVARIANTS
    TypeOK
    SentIsStored
    OutlivesChildren
PROPERTIES
    OldIsKept
    ImplementsStore
    ChildEnds
    UnservedLearns
