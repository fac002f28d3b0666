SPECIFICATION Spec
CONSTANTS
    Requests = {r1, r2, r3}
    Revocations = {v1}
    Scopes = {read, write}
    Rotate = FALSE
    Grace = 0
    AccessLife = 2
    MaxTime = 2
    MaxIssued = 1
CHECK_DEADLOCK FALSE
SYMMETRY Interchangeable
INVARIANTS
    OneSuccessor
    IndInv
    RevokedBuysNothing
    ScopeWithinGrant
PROPERTY
    RevocationIsFinal
