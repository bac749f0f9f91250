SPECIFICATION Spec
CONSTANTS
    Paths <- MCPaths
    Values <- MCValues
    Capacity = 3
    MaxRevision = 4
INVARIANTS
    SlotsWellFormed
    PassesAreBounded
PROPERTIES
    ReturnsAsAccounted
    ReplayTerminates
