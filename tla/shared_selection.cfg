\* a part of a variable asked for before the variable itself
CONSTANTS
    Files <- MCFiles
    ArgumentsOf <- MCArgumentsOf
SPECIFICATION CallSpec
INVARIANT GivenAway
