SPECIFICATION Spec
CONSTANTS
    Segments <- MCSegments
    Items <- MCItems
    Start <- MCStart
    Mutations <- MCMutations
    MaxRevision = 2
PROPERTY
    FailedInstallLeavesState
