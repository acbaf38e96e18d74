CONSTANTS
    w1 = w1
    w2 = w2
    f1 = f1
    f2 = f2
    f3 = f3
    Worker <- TwoWorkers
    Task <- ThreeFiles
    NoTask = NoTask
    ExitCodes = {1}
    Listings <- MCListings
    WORKER_THRESHOLD = 2
    MaxCalls = 2
SPECIFICATION FairParserSpec
CHECK_DEADLOCK FALSE
INVARIANTS
    ResultComplete
PROPERTIES
    ParseAllReturns
