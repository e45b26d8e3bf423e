SPECIFICATION FairSpec
CONSTANTS
    Kind <- MCKind
    Asks <- MCAsks
    Prompt = "prompt"
    Scripts <- ChatScripts
    Template <- ChatOrError
    Start <- MCStart
    MaxCmds = 3
    Stale = 0
    MayTimeout = TRUE
    MayDrop = TRUE
INVARIANTS
    OwnOutput
    QuietWhenIdle
    NoCrossAnswer
    NoMutualWait
PROPERTIES
    RunCmdReturns
    RpcSpec
