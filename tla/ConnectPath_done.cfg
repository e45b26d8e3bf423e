SPECIFICATION Spec
CONSTANTS
    Paths <- DonePath
    Servers <- MCServers
    Credentials <- MCCredentials
    MayTimeout = TRUE
    MayDrop = TRUE
INVARIANTS
    NoPanic
CHECK_DEADLOCK FALSE
