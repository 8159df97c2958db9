CONSTANTS
    Layouts <- MCLayouts
SPECIFICATION CopySpec
INVARIANTS
    RunsInPlace
    CopyExact
CHECK_DEADLOCK FALSE
