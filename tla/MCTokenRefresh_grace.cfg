SPECIFICATION FairSpec
CONSTANTS
    Requests = {r1, r2}
    Revocations = {v1}
    Scopes = {read}
    Rotate = TRUE
    Grace = 1
    AccessLife = 1
    MaxTime = 2
    MaxIssued = 1
INVARIANTS
    OneRowPerString
    LiveAnswersAgree
    AnsweredPairHolds
PROPERTIES
    EveryRequestAnswered
    KeepsPromise
CHECK_DEADLOCK FALSE
