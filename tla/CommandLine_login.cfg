SPECIFICATION Spec
CONSTANTS
    Numerals <- MCNumerals
    Args <- MCArgs
    Lengths <- MCLengths
    MaxWords = 2
    Starts <- LoginOnly
    EnablePassword = TRUE
INVARIANT
    NeverPanics
CHECK_DEADLOCK FALSE
