CONSTANTS
    Pids <- MCPids
    Size = 3
    Hash <- MCHash
    MaxObs = 3
    ShameMax = 2
    WatchFrom = 1
SPECIFICATION WatchSpec
INVARIANTS
    TableSound
    WatchlistSound
PROPERTIES
    ImplementsMap
