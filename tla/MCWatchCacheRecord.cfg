SPECIFICATION Spec
CONSTANTS
    Default = "default"
    HostData <- MCHostData
    MaxNotes = 2
    ScreenCount = 3
    Nothing = Nothing
    Torn = Torn
INVARIANT SavedIsValid
