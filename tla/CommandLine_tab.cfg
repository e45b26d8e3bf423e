SPECIFICATION Spec
CONSTANTS
    Numerals <- MCNumerals
    Args <- MCArgs
    Lengths <- MCLengths
    MaxWords = 2
    Starts <- PrivOnly
    EnablePassword = TRUE
PROPERTY
    TabErasesThePrefix
CHECK_DEADLOCK FALSE
