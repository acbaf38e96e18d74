CONSTANTS
    NodeId <- MCNodeId
    File <- MCFile
    Virtual = ""
    Edge <- MCEdge
    Kinds <- MCKinds
    Src <- MCSrc
    Dst <- MCDst
    Kind <- MCKind
    Method <- MCMethod
    Bridge <- MCBridge
    Serves <- MCServes
    Absent = Absent
    Resolved <- MCResolved
    ByPath <- MCByPath
    Derived <- MCDerived
    Shadows <- MCShadows
    Listened <- MCListened
    EventId <- MCEventId
    Unassigned = "unassigned"
    Sorted <- MCSorted
    Text = {1, 2}
    NodesIn <- MCNodesIn
    EdgesIn <- MCEdgesIn
    Checkout <- MCCheckout
    Watch = TRUE
    WORKER_THRESHOLD = 2
    MaxEdits = 2
    MaxRuns = 2
SPECIFICATION FairSpec
CHECK_DEADLOCK FALSE
INVARIANTS WarmEqualsCold MirrorsDisk IndexesInSync DependentsComplete
PROPERTIES NoEdgeLeftBehind RevisionExact RunEnds ReportsHandled
