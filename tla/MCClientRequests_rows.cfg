SPECIFICATION FairSpec
CONSTANTS
    Visits = {v1}
    Calls = {c1}
    Editors = {e1}
    Secrets = {"s1", "s2"}
    Profiles <- SomeProfiles
    OtherRow <- Stranger
    Uris <- SomeUris
    Listed <- SomeListed
    RedirectSchemes = {"http", "https", "MyApp"}
    Lower <- LowerCase
    OriginSchemes = {"https"}
    RsaKey = FALSE
    MaxRequests = 1
    MaxSaves = 2
INVARIANTS
    TypeOK
    SecretStillWorks
    RegisteredUrisServe
    ServedAsItself
PROPERTIES
    CodeOnlyToRegistered
    LoginEnds
CHECK_DEADLOCK FALSE
