CONSTANTS
    Threads <- MCThreads
    Pages <- SmallPages
    Extents = {1, 2}
    NumUsingMod = 256
    MaxMappings = 3
    Nodes <- SmallNodes
    PageOf <- SmallPageOf
    ExtentOf <- SmallExtentOf
    Forests <- SmallForests
    Corruptible = {1}
    FaultKinds = {}
SPECIFICATION LoadSpec
INVARIANTS
    ErrorsReported
