SPECIFICATION LogoutFairSpec
CONSTANTS
    Requests = {r1}
    Logouts = {l1}
    Revocations = {}
    Grantor = g
    Leeway = 1
    Scopes = {read}
    Rotate = TRUE
    Grace = 0
    AccessLife = 1
    MaxTime = 1
    MaxIssued = 1
    Clients <- SomeClients
    Inputs <- Plainly
    AlwaysPrompt = FALSE
    StrictUris = TRUE
    AcceptExpired = FALSE
    DeleteTokens = TRUE
    IdLife = 0
    RedirectSchemes = {"http", "https"}
    Lower <- LowerCase
    OriginSchemes = {"https"}
    RsaKey = FALSE
CHECK_DEADLOCK FALSE
PROPERTIES
    NoRefreshOutlivesLogout
