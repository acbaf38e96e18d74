CONSTANTS
    c1 = c1
    c2 = c2
    Client <- MCClients
    Asks <- MCAsks
    Query <- MCViews
    MAX_CACHE_ENTRIES = 2
    None = None
    MaxRuns = 2
    MaxVersion = 2
SPECIFICATION RoutesSpec
PROPERTY ClusterIdsUntilAnalysis
