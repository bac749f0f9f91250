SPECIFICATION Spec
CONSTANTS
    Capacity = 16
    RejectModes = {FALSE}
    MaxActions = 2
    MaxLosses = 1
    MaxRestarts = 0
    MaxFailedSaves = 0
PROPERTY
    RevisionsIncrease
