SPECIFICATION Spec
CONSTANTS
    MaxCalls = 2
    MaxAttempts = 3
    Safety <- EitherSafety
    Stale = 0
    MayTimeout = TRUE
    MayCut = FALSE
    MayRejectReload = FALSE
    MayRejectApply = FALSE
INVARIANTS
    AppliedIsVerified
