CONSTANTS
    MaxRuns = 1
    MaxUpdates = 1
    MaxFaults = 1
    MaxLogins = 1
    MaxRequests = 2
    MaxSockets = 2
SPECIFICATION FairSpec
CHECK_DEADLOCK FALSE
INVARIANTS
    SocketsBounded
    ShowsLatest
    ProgressEnds
PROPERTIES
    Reconnects
