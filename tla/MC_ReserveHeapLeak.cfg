CONSTANTS
    Sizes <- MCSizes
    MaxLive = 2
    UserBase <- MCUserBase
    UserEnd <- MCUserEnd
    HostFaults = TRUE

SPECIFICATION Spec

INVARIANT ChunksCoverReservations
