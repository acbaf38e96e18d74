SPECIFICATION PanelSpec
CONSTANTS
    Graphs <- MCGraphs
    NodeKinds = {"spring-controller", "db-table"}
    EdgeKinds = {"imports"}
    Presets <- MCPresets
    Threshold = 2
    Pointed = {"b", "c1"}
    Query = {"q"}
    Blank = "blank"
    NoId = "no id"
    Nothing = Nothing
    MaxGestures = 3
    MaxPoints = 4
    MaxBoth = 2
    Key = {"k1", "k2"}
    FirstKey = "k1"
    Chain <- MCChain
    MaxCandidates = 2
    MaxChains = 1
CHECK_DEADLOCK FALSE
INVARIANTS
    ResultsOfQuery
    DrawingExact
    PanelsCurrent
PROPERTY TrailKept
