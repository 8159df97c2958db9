CONSTANTS
    Threads = {t1, t2, t3}
    t1 = t1
    t2 = t2
    t3 = t3
    Pages = {p1, p2}
    p1 = p1
    p2 = p2
    Extents = {1, 2}
    NumUsingMod = 256
    MaxMappings = 3
SYMMETRY ThreadSymmetry
SPECIFICATION PageSpec
INVARIANTS
    InUseMapped
    UsersCounted
    MapperAlone
    MappedIsPending
