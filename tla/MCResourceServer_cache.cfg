SPECIFICATION Spec
CONSTANTS
    Requests = {r1, r2}
    Scopes = {read, write}
    Cache = 2
    Zone = 0
    MaxTime = 6
INVARIANTS
    IndInv
    RevokedStopsAfterCache
    ServedBeforeExpiry
    RefusedOnlyWithReason
SYMMETRY Interchangeable
CHECK_DEADLOCK FALSE
