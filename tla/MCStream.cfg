SPECIFICATION Spec
CHECK_DEADLOCK FALSE
CONSTANTS
    A = A
    B = B
    EncDelay = 1
    DecDelay = 1
    WireCap = 1
    MaxFrames = 3
    MaxStarts <- AAgain
    Hosts <- MCHosts
INVARIANTS
    TypeOK
    ChildSendsOnlyAsOrphan
    OnlyHeldFramesAreLost
PROPERTIES
    InterruptEndsHost
    PeerEndEndsWait
    PicturesFlow
