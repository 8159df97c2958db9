CONSTANTS
    Nodes = {n1, n2, n3, n4}
    Data = {a, b}
    NULL = NULL
    Uses <- MCUses
    SizeRange = 8
SYMMETRY NodeSymmetry
SPECIFICATION QueueSpecification
INVARIANT QueueSound
INVARIANT WalkCounted
INVARIANT RemovalSafe
PROPERTY ImplementsSequence
