SPECIFICATION Spec
CONSTANTS
    Capacity = 16
    RejectModes = {TRUE}
    MaxActions = 1
    MaxLosses = 0
    MaxRestarts = 0
    MaxFailedSaves = 0
INVARIANT
    HostIsAuthoritative
