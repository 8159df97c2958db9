CONSTANTS
    Threads <- MCThreads
    Pages <- MCPages
    Extents = {1, 2}
    NumUsingMod = 256
    MaxMappings = 4
    Nodes <- MCNodes
    PageOf <- MCPageOf
    ExtentOf <- MCExtentOf
    Forests <- MCForests
    Corruptible = {1, 2, 6}
    FaultKinds = {"memory", "mmap"}
SPECIFICATION FairLoadSpec
INVARIANTS
    TakenOnce
    MappingsAccounted
    CleanReturn
    ResultExact
    MappedPagesBounded
PROPERTIES
    PageSpec
    LoadTerminates
