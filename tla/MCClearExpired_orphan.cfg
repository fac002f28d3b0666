SPECIFICATION ClearSpec
CONSTANTS
    Requests = {r1}
    Revocations = {v1}
    Scopes = {read}
    Rotate = TRUE
    Grace = 0
    AccessLife = 0
    MaxTime = 3
    MaxIssued = 1
    RefreshExpire = 1
    BatchSize = 1
CHECK_DEADLOCK FALSE
INVARIANT
    RemovesEveryOldRefresh
