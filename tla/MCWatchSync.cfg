SPECIFICATION Spec
CONSTANTS
    Paths <- MCPaths
    Values <- MCValues
    Capacity = 2
    MaxRevision = 3
    WatchDefaults <- MCWatchDefaults
    HostDefaults <- MCHostDefaults
INVARIANTS
    TypeOK
    ShowsHostState
    OneRequestWhileSyncing
    BufferIsAhead
PROPERTIES
    BufferedIsNotLost
    AppliesInOrder
    ImplementsPromise
