SPECIFICATION Spec
CONSTANTS
    r1 = r1
    r2 = r2
    extra = extra
    Requests = {r1, r2}
    ViewsFor <- SomeViews
    Tokens = {k1}
    READ = READ
    WRITE = WRITE
    Scopes <- SomeScopes
    TokenScopes <- SomeTokenScopes
    Of <- Colon
    Base = {extra}
    Alternates <- SomeAlternates
    AlwaysReload = FALSE
INVARIANTS
    RwAsksWhatItDocuments
CHECK_DEADLOCK FALSE
