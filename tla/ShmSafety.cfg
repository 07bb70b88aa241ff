SPECIFICATION Spec
CONSTANTS
    Senders = {s1, s2}
    Rcv = rcv
    Empty = empty
    MaxLines = 1
    MaxRuns = 2
    MaxIntr = 1
    Killable = {s1, s2, rcv}
    MaxKills = 1
SYMMETRY Symmetry
CHECK_DEADLOCK FALSE
INVARIANTS
    TypeOK
    MutualExclusion
    ExactlyOnce
    CounterIsRegistered
    LockNotLost
PROPERTIES
    UnreadIsKept
