CONSTANTS
    Workers = {w1, w2, w3}
    Main = main
    Buckets <- MCBuckets
    d1 = d1
    d2 = d2
    d3 = d3
    d4 = d4
    NULL = NULL
SPECIFICATION MtFairSpec
INVARIANT WholeWhenFree
INVARIANT TakenInOrder
INVARIANT NoneLeftBehind
INVARIANT BooksClosed
PROPERTY QueueFreed
