CONSTANTS
    Files <- MCFiles
    ArgumentsOf <- MCArgumentsOf
SPECIFICATION CallSpec
INVARIANT MappingsBalanced
INVARIANT TreeComplete
INVARIANT ResultsRight
INVARIANT ErrorsJustified
INVARIANT EachDataOnce
INVARIANT LeftByFillNodeOnly
