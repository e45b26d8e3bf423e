SPECIFICATION Spec
CONSTANTS
    Kind <- MCKind
    Asks <- MCAsks
    Prompt = "prompt"
    Scripts <- ConfirmScripts
    Template <- CiscoIosPrompt
    Start <- MCStart
    MaxCmds = 2
    Stale = 0
    MayTimeout = FALSE
    MayDrop = FALSE
INVARIANTS
    NoMutualWait
