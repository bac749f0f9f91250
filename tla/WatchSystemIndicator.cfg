SPECIFICATION Spec
CONSTANTS
    Capacity = 16
    RejectModes = {FALSE}
    MaxActions = 1
    MaxLosses = 0
    MaxRestarts = 0
    MaxFailedSaves = 0
INVARIANT
    PendingIsShown
