SPECIFICATION Spec
CONSTANTS
    Segments <- MCSegments
    Items <- MCItems
    Start <- MCStart
    Mutations <- MCMutations
    MaxRevision = 3
INVARIANTS
    TypeOK
    StateOfRevision
    BufferIsAhead
PROPERTY
    RefusalLeavesNoTrace
