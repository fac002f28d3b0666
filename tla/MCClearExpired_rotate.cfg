SPECIFICATION ClearFairSpec
CONSTANTS
    Requests = {r1}
    Revocations = {v1}
    Scopes = {}
    Rotate = TRUE
    Grace = 1
    AccessLife = 0
    MaxTime = 5
    MaxIssued = 1
    RefreshExpire = 1
    BatchSize = 1
CHECK_DEADLOCK FALSE
INVARIANTS
    ClearTypeOK
    FailsOnlyIfOvertaken
PROPERTIES
    KeepsRefreshOfCurrent
    KeepsUsableAccess
    CommandEnds
