SPECIFICATION Spec
CONSTANTS
    MaxCalls = 1
    MaxAttempts = 2
    Safety <- WithReload
    Stale = 0
    MayTimeout = FALSE
    MayCut = FALSE
    MayRejectReload = FALSE
    MayRejectApply = TRUE
INVARIANTS
    OkMeansApplied
