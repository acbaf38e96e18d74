CONSTANTS
    w1 = w1
    w2 = w2
    t1 = t1
    t2 = t2
    t3 = t3
    Worker <- TwoWorkers
    Task <- ThreeTasks
    NoTask = NoTask
    ExitCodes = {1}
SPECIFICATION FairSpec
CHECK_DEADLOCK FALSE
INVARIANTS
    Accounted
    WorkConserving
PROPERTIES
    TaskSettles
    ImplementsService
