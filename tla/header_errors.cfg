CONSTANTS
    Headers <- MCHeaders
    NumMsgsMod = 16
SPECIFICATION HeaderSpec
INVARIANT HeaderErrorsReported
