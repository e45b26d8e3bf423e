SPECIFICATION Spec
CONSTANTS
    MaxCalls = 2
    MaxAttempts = 2
    Safety <- WithReload
    Stale = 0
    MayTimeout = FALSE
    MayCut = FALSE
    MayRejectReload = TRUE
    MayRejectApply = FALSE
INVARIANTS
    OkMeansApplied
