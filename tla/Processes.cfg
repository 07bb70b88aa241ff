SPECIFICATION Spec
CONSTANTS
    Programs = {"ueb12", "ueb13", "ueb11", "ueb9", "ueb8", "u2", "u5", "sema", "binRel", "listen"}
    Senders = {s1, s2, s3}
    TwoSenders = {s1, s2}
    NPipes = 3
    RecvPipes = 2
    MaxLines = 1
    MaxStarts = 1
    MaxKills = 1
    MaxSigs = 1
    Clients = {c1, c2}
    Servers = {v1, v2}
    NoFile = NoFile
    MaxSets = 2
    MaxCount = 9
    MaxAsked = 2
    MaxN = 4
    MaxPairs = 3
    Elements = {1, 2}
    MaxLen = 3
CHECK_DEADLOCK FALSE
INVARIANTS
    TypeOK
    NoMixUp
    AllIsRead
PROPERTIES
    WaitsEnd
