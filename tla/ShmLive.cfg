SPECIFICATION FairSpec
CONSTANTS
    Senders = {s1, s2}
    Rcv = rcv
    Empty = empty
    MaxLines = 1
    MaxRuns = 1
    MaxIntr = 0
    Killable = {s1, s2}
    MaxKills = 1
CHECK_DEADLOCK FALSE
PROPERTIES
    ImplementsChannel
    MessageIsTaken
    SendEnds
    ReceiverEnds
