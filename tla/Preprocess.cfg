SPECIFICATION Spec
CONSTANTS
    Inputs <- MCInputs
    Stem <- MCStem
    Dirs = {"home", "out"}
    Home = "home"
    Root = "root"
    Images = {"ana"}
    Settings <- MCSettings
    Clickable <- MCClickable
    NTemplates = 1
    None = None
    FirstThreshold = 70
    LastThreshold = 72
    MaxFiles = 2
    MaxEdits = 3
    MaxStarts = 2
CHECK_DEADLOCK FALSE
INVARIANTS
    TypeOK
    RowsAgree
    ResultsAreMade
    NothingLeft
PROPERTY
    RunEnds
