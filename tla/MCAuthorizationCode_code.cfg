SPECIFICATION Spec
CONSTANTS
    Scopes = {read, write}
    Exchanges = {e1, e2}
    CodeLife = 1
    AccessLife = 1
    PkceRequired = TRUE
    SkipAuthorization = FALSE
    MaxTime = 3
    MaxCodes = 2
SYMMETRY Interchangeable
INVARIANTS
    CodeDeadAfterAnswer
    IndInv
    WithinOneConsent
    FailsOnlyIfOvertaken
CHECK_DEADLOCK FALSE
