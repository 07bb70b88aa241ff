SPECIFICATION Spec
CONSTANTS
    Senders = {s1, s2}
    Rcv = rcv
    Empty = empty
    MaxLines = 0
    MaxRuns = 1
    MaxIntr = 1
    Killable = {}
    MaxKills = 0
CHECK_DEADLOCK FALSE
PROPERTIES
    NeverOverwritten
