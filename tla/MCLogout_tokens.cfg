SPECIFICATION LogoutFairSpec
CONSTANTS
    Requests = {r1}
    Logouts = {l1}
    Revocations = {}
    Grantor = g
    Leeway = 1
    Scopes = {read}
    Rotate = FALSE
    Grace = 0
    AccessLife = 1
    MaxTime = 2
    MaxIssued = 1
    Clients <- SomeClients
    Inputs <- SomeInputs
    AlwaysPrompt = FALSE
    StrictUris = TRUE
    AcceptExpired = FALSE
    DeleteTokens = TRUE
    IdLife = 0
    RedirectSchemes = {"http", "https"}
    Lower <- LowerCase
    OriginSchemes = {"https"}
    RsaKey = FALSE
CHECK_DEADLOCK FALSE
INVARIANTS
    LogoutTypeOK
    LogoutKillsTokens
    DeprecatedAgrees
    NoSilentLogoutOfOthers
PROPERTIES
    IdLoopSparesAccess
    LogoutAnswered
    KeepsPromiseCleared
