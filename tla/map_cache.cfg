CONSTANTS
    AllocGran = 2
    FileSize = 5
    Requests <- MCRequests
    MaxMapObjs = 2
    CleanFactor = 2
    MaxHeld = 3
SPECIFICATION CacheSpec
INVARIANTS
    HeldStaysMapped
    UsesCounted
    QueueAnchored
    CacheBounded
