SPECIFICATION Spec
CONSTANTS
    Requests = {r1, r2}
    Scopes = {read}
    Cache = 3
    Zone <- West
    MaxTime = 5
INVARIANT
    ServedBeforeExpiry
CHECK_DEADLOCK FALSE
