SPECIFICATION FairSpec
CONSTANTS
    MaxCalls = 1
    MaxAttempts = 3
    Safety <- EitherSafety
    Stale = 0
    MayTimeout = TRUE
    MayCut = TRUE
    MayRejectReload = FALSE
    MayRejectApply = TRUE
INVARIANTS
    NeverStranded
    AppliedIsVerified
    ServersStop
PROPERTIES
    GuardSpec
    ConfigAtomicReturns
    BadChangeIsUndone
