CONSTANTS
    Sizes <- MCSizes
    MaxLive = 2
    UserBase <- MCUserBase
    UserEnd <- MCUserEnd
    HostFaults = TRUE
    Threads = {t1, t2}
    NoThread = NoThread

SPECIFICATION LockSpec

INVARIANT LocksTypeOK
INVARIANT LiveBlockInOneChunk
INVARIANT BlocksDisjoint
PROPERTY AbstractHeapSpec
PROPERTY Progress
