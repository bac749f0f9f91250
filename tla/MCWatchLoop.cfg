SPECIFICATION Spec
CONSTANTS
    MaxFrame = 2
    WatchChunk = 2
    HostChunk = 2
    HostFrames <- MCHostFrames
    ScreenCount = 2
    MusicScreen = 1
    MinDistance = 50
    Moves <- MCMoves
    MaxEvents = 2
INVARIANTS
    TypeOK
    WatchReadsInOrder
    HostReadsInOrder
    LegalFramesAreAccepted
    NoPressIsLost
PROPERTIES
    ImplementsLink
    FramesArrive
    Reconnects
    KeysAreServed
