SPECIFICATION Spec
CONSTANTS
    Paths <- MCPaths
    Servers <- MCServers
    Credentials <- MCCredentials
    MayTimeout = TRUE
    MayDrop = TRUE
INVARIANTS
    ConnectedIsLoggedIn
    HandOverIsClean
    NoMutualWait
    ErrorIsRefusal
CHECK_DEADLOCK FALSE
