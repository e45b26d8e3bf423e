SPECIFICATION Spec
CONSTANTS
    Numerals <- MCNumerals
    Args <- MCArgs
    Lengths <- MCLengths
    MaxWords = 3
    Starts <- AllStarts
    EnablePassword = TRUE
INVARIANTS
    HelpTellsTruth
    EveryCommandCanBeTyped
PROPERTIES
    TabKeepsMeaning
    OnlyEnableRaises
    ConfigurationIsLeftOnPurpose
CHECK_DEADLOCK FALSE
