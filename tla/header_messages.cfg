CONSTANTS
    Headers <- MCHeaders
    NumMsgsMod = 16
SPECIFICATION HeaderSpec
INVARIANT OneMapping
INVARIANT EveryMessageRead
INVARIANT ReadOnceInBlock
INVARIANT ObjectRight
