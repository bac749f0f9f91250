SPECIFICATION Spec
CONSTANTS
    Capacity = 16
    RejectModes = {TRUE, FALSE}
    MaxActions = 3
    MaxLosses = 2
    MaxRestarts = 1
    MaxFailedSaves = 1
INVARIANTS
    TypeOK
    SnapshotUnderway
    PendingWillBeAnswered
    ConfirmedWasAccepted
    ShownConnectionIsReal
    OnlineLeavesAreHosts
    SavedIsShown
    ScreenIsCurrent
    QuietIsSettled
PROPERTIES
    SnapshotClosesGap
    ImplementsPromise
    EventuallySettles
