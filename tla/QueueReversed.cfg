SPECIFICATION FairSpec
CONSTANTS
    Senders = {s1}
    MaxLines = 2
    Capacity = 2
    MaxFiles = 10
    MaxRuns = 1
    MaxKills = 0
CHECK_DEADLOCK FALSE
INVARIANT
    StreamsAreStored
