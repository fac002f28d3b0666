--------------------------- MODULE ProtectedResource ---------------------------
(***************************************************************************)
(* Views that ask for an access token: the two decorators, the view        *)
(* mixins, REST framework views with each permission class, and a plain    *)
(* view behind OAuth2TokenMiddleware.  Which requests they let through,    *)
(* while threads of one worker process serve them and tokens are revoked   *)
(* and expire.                                                             *)
(*                                                                         *)
(* Two things outlive a request.  The scopes a decorator requires live in  *)
(* one list object per decorated view; rw_protected_resource appends to it *)
(* on every request.  A view class keeps the OAuthLibCore, and with it the *)
(* validator, it was first served with, and its subclasses see it: which   *)
(* validator decides a request depends on the requests before it.          *)
(***************************************************************************)
EXTENDS Naturals, FiniteSets

CONSTANTS
    Requests,           \* the requests, each served once
    ViewsFor,           \* which views a request may go to
    Tokens,             \* the access tokens requests carry
    Scopes,             \* the scope names
    TokenScopes,        \* the scopes a token may have
    READ, WRITE,        \* READ_SCOPE and WRITE_SCOPE
    Of(_, _),           \* the name "scope:read" or "scope:write"
    Base,               \* the scopes the views were given: required_scopes
    Alternates,         \* required_alternate_scopes: method -> sets of scopes
    AlwaysReload        \* ALWAYS_RELOAD_OAUTHLIB_CORE

ASSUME ScopesAssumption ==
    /\ {READ, WRITE} \subseteq Scopes /\ READ # WRITE /\ Base \subseteq Scopes
    /\ TokenScopes \subseteq SUBSET Scopes /\ Tokens # {}

\* View classes: a ReadWriteScopedResourceView, a subclass of it and a stranger, each of
\* the last two with a validator_class of its own.
Classes   == {"mixin", "child", "stranger"}
Validator == [mixin |-> "default", child |-> "strict", stranger |-> "lax"]
Rest      == {"has_scope", "read_write", "resource", "session_or_scope", "oas"}
Views     == {"protected", "rw", "middleware"} \cup Classes \cup Rest
Methods   == {"GET", "OPTIONS", "POST"}
Safe      == {"GET", "OPTIONS"}

VARIABLES
    scopeOf,    \* the scope of each access token
    users,      \* the access tokens that belong to a user
    live,       \* the access tokens in the table
    expired,    \* the access tokens past their expiry
    listed,     \* the scopes in the list object a decorated view closes over
    core,       \* the validator in the _oauthlib_core each class has itself, or "none"
    req         \* the requests

tokens == <<scopeOf, users, live, expired>>
vars   == <<tokens, listed, core, req>>

\* session: somebody is logged in without the token; auth: who request.user comes from;
\* made: this request made the core of its view class.
Request == [phase : {"new", "called", "making", "cored", "loaded", "authenticated", "served", "forbidden"},
            view : Views, method : Methods, token : Tokens, required : SUBSET Scopes,
            session : BOOLEAN, auth : {"none", "session", "token"}, found : BOOLEAN,
            late : BOOLEAN, made : BOOLEAN, validator : {"default", "strict", "lax"}]

NewRequest == [phase |-> "new", view |-> "protected", method |-> "GET",
               token |-> CHOOSE k \in Tokens : TRUE, required |-> {}, session |-> FALSE,
               auth |-> "none", found |-> FALSE, late |-> FALSE, made |-> FALSE,
               validator |-> "default"]

Init ==
    /\ scopeOf \in [Tokens -> TokenScopes] /\ users \in SUBSET Tokens
    /\ live = Tokens /\ expired = {}
    /\ listed = [v \in {"protected", "rw", "mixin"} |-> Base]
    /\ core = [c \in Classes |-> "none"]
    /\ req = [r \in Requests |-> NewRequest]

InForce(k) == k \in live \ expired

-----------------------------------------------------------------------------
\* The scope a request's method asks for.
ReadWriteScope(method) == IF method \in Safe THEN READ ELSE WRITE

Begin(r, phase, v, method, k, required) ==
    /\ req[r].phase = "new" /\ v \in ViewsFor[r]
    /\ req' = [req EXCEPT ![r] = [@ EXCEPT !.phase = phase, !.view = v, !.method = method,
                      !.token = k, !.required = required, !.late = ~InForce(k)]]
    /\ UNCHANGED tokens

Call(r, method, k) ==
    /\ Begin(r, "called", "protected", method, k, {})
    /\ UNCHANGED <<listed, core>>

RwCallRebinds(r, method, k) ==                \* mutant: the list is replaced, not extended
    /\ Begin(r, "called", "rw", method, k, {})
    /\ listed' = [listed EXCEPT !["rw"] = {ReadWriteScope(method)}]
    /\ UNCHANGED core

\* _scopes.append: the list is the closure's, not the request's.
RwCall(r, method, k) ==
    /\ Begin(r, "called", "rw", method, k, {})
    /\ listed' = [listed EXCEPT !["rw"] = @ \cup {ReadWriteScope(method)}]
    /\ UNCHANGED core

CoreOfMixin(c) ==                             \* mutant: the core is kept on OAuthLibMixin itself
    IF \E d \in Classes : core[d] # "none" THEN CHOOSE v \in {core[d] : d \in Classes} : v # "none" ELSE "none"

\* The attribute _oauthlib_core of a class, as hasattr and the return statement look it up:
\* its own, or else that of its base class.
KeptCore(c) == IF core[c] = "none" /\ c = "child" THEN core["mixin"] ELSE core[c]

MixinCallInPlace(r, c, method, k) ==          \* mutant: get_scopes appends to required_scopes
    /\ Begin(r, "called", c, method, k, listed["mixin"] \cup {ReadWriteScope(method)})
    /\ listed' = [listed EXCEPT !["mixin"] = @ \cup {ReadWriteScope(method)}]
    /\ UNCHANGED core

\* dispatch: read_write_scope is an attribute of the view object made for this request,
\* and get_scopes adds it to a copy of the list.
MixinCall(r, c, method, k) ==
    /\ method # "OPTIONS"
    /\ Begin(r, "called", c, method, k, listed["mixin"] \cup {ReadWriteScope(method)})
    /\ UNCHANGED <<listed, core>>

\* "let preflight OPTIONS requests pass"
MixinPreflight(r, c) ==
    /\ \E k \in Tokens : Begin(r, "served", c, "OPTIONS", k, {})
    /\ UNCHANGED <<listed, core>>

\* REST framework authenticates with the first of its classes that answers: the session's,
\* if there is one and it comes first, or the token's.
RestCall(r, v, method, k, session, sessionFirst) ==
    /\ req[r].phase = "new" /\ v \in ViewsFor[r]
    /\ req' = [req EXCEPT ![r] = [@ EXCEPT
         !.phase = IF session /\ sessionFirst THEN "authenticated" ELSE "called",
         !.auth = IF session /\ sessionFirst THEN "session" ELSE "none",
         !.view = v, !.method = method, !.token = k, !.session = session, !.late = ~InForce(k)]]
    /\ UNCHANGED <<tokens, listed, core>>

\* OAuth2TokenMiddleware leaves a user who is logged in alone; the view asks for a user.
MiddlewareCall(r, k, session) ==
    /\ req[r].phase = "new" /\ "middleware" \in ViewsFor[r]
    /\ req' = [req EXCEPT ![r] = [@ EXCEPT
         !.phase = IF session THEN "served" ELSE "called", !.auth = IF session THEN "session" ELSE "none",
         !.view = "middleware", !.token = k, !.session = session, !.late = ~InForce(k)]]
    /\ UNCHANGED <<tokens, listed, core>>

\* get_oauthlib_core, first line: threads of the same class may all find nothing.
FindCore(r) ==
    LET x == req[r]
    IN  /\ x.phase = "called" /\ x.view \in Classes
        /\ req' = [req EXCEPT ![r] = [@ EXCEPT !.phase =
               IF AlwaysReload \/ KeptCore(x.view) = "none" THEN "making" ELSE "cored"]]
        /\ UNCHANGED <<tokens, listed, core>>

MakeCore(r) ==
    /\ req[r].phase = "making"
    /\ core' = [core EXCEPT ![req[r].view] = Validator[req[r].view]]
    /\ req' = [req EXCEPT ![r] = [@ EXCEPT !.phase = "cored", !.made = TRUE]]
    /\ UNCHANGED <<tokens, listed>>

\* get_oauthlib_core returns the attribute as it is by now; then _load_access_token: the
\* row, if there is one, as this statement finds it.  Nothing but this reads both.
Load(r) ==
    LET x == req[r]
    IN  /\ x.phase = IF x.view \in Classes THEN "cored" ELSE "called"
        /\ req' = [req EXCEPT ![r] = [@ EXCEPT !.phase = "loaded", !.found = x.token \in live,
               !.validator = IF x.view \in Classes THEN KeptCore(x.view) ELSE "default"]]
        /\ UNCHANGED <<tokens, listed, core>>

IsValid(x, scopes) == x.found /\ x.token \notin expired /\ scopes \subseteq scopeOf[x.token]

Verdict(r, allowed) ==
    /\ req' = [req EXCEPT ![r] = [@ EXCEPT !.phase = IF allowed THEN "served" ELSE "forbidden"]]
    /\ UNCHANGED <<tokens, listed, core>>

\* is_valid on the row just read, with a decorator's list as it is by now.
Decide(r) ==
    LET x == req[r]
    IN  /\ x.phase = "loaded" /\ x.view \notin Rest
        /\ CASE x.view \in Classes    -> Verdict(r, IsValid(x, x.required))
             [] x.view = "middleware" -> Verdict(r, IsValid(x, {}) /\ x.token \in users)
             [] OTHER                 -> Verdict(r, IsValid(x, listed[x.view]))

\* OAuth2Authentication asks for no scope; the next class is asked if it answers None.
Authenticate(r) ==
    LET x == req[r]
    IN  /\ x.phase = "loaded" /\ x.view \in Rest
        /\ req' = [req EXCEPT ![r] = [@ EXCEPT !.phase = "authenticated",
             !.auth = IF IsValid(x, {}) THEN "token" ELSE IF x.session THEN "session" ELSE "none"]]
        /\ UNCHANGED <<tokens, listed, core>>

-----------------------------------------------------------------------------
(***************************************************************************)
(* The permission classes.                                                 *)
(***************************************************************************)
GetScopes(v, method) ==
    CASE v \in {"has_scope", "session_or_scope"} -> Base
      [] v = "read_write"                        -> Base \cup {ReadWriteScope(method)}
      [] v = "resource"                          -> {Of(s, ReadWriteScope(method)) : s \in Base}

\* request.auth is the row read when the token was authenticated; only time has moved on.
TokenHasScope(x) == x.auth = "token" /\ IsValid(x, GetScopes(x.view, x.method))

IsAuthenticated(x) == x.auth = "session" \/ (x.auth = "token" /\ x.token \in users)

IsAuthenticatedOrToken(x) == IsAuthenticated(x) \/ TokenHasScope(x)    \* mutant: successful_authenticator ignored

IsAuthenticatedOrTokenHasScope(x) == (IsAuthenticated(x) /\ x.auth # "token") \/ TokenHasScope(x)

TokenMatchesOASRequirements(x) ==
    /\ x.auth = "token" /\ x.method \in DOMAIN Alternates
    /\ \E alt \in Alternates[x.method] : IsValid(x, alt)

Permit(r) ==
    LET x == req[r]
    IN  /\ x.phase = "authenticated"
        /\ CASE x.view = "oas"              -> Verdict(r, TokenMatchesOASRequirements(x))
             [] x.view = "session_or_scope" -> Verdict(r, IsAuthenticatedOrTokenHasScope(x))
             [] OTHER                       -> Verdict(r, TokenHasScope(x))

-----------------------------------------------------------------------------
\* The token is revoked or deleted, or it expires.
Revoke(k) ==
    /\ k \in live
    /\ live' = live \ {k}
    /\ UNCHANGED <<scopeOf, users, expired, listed, core, req>>

Expire(k) ==
    /\ k \notin expired
    /\ expired' = expired \cup {k}
    /\ UNCHANGED <<scopeOf, users, live, listed, core, req>>

Serve(r) ==
    \/ \E method \in Methods, k \in Tokens :
        \/ Call(r, method, k) \/ RwCall(r, method, k)
        \/ \E c \in Classes : MixinCall(r, c, method, k)
        \/ \E v \in Rest, session, sessionFirst \in BOOLEAN :
             RestCall(r, v, method, k, session, sessionFirst)
    \/ \E c \in Classes : MixinPreflight(r, c)
    \/ \E k \in Tokens, session \in BOOLEAN : MiddlewareCall(r, k, session)
    \/ FindCore(r) \/ MakeCore(r) \/ Load(r) \/ Decide(r) \/ Authenticate(r) \/ Permit(r)

Next == (\E r \in Requests : Serve(r)) \/ \E k \in Tokens : Revoke(k) \/ Expire(k)

Spec == Init /\ [][Next]_vars

-----------------------------------------------------------------------------
(***************************************************************************)
(* Properties.                                                             *)
(***************************************************************************)
\* The types, and the list of a view never loses a scope it was decorated with.
TypeOK ==
    /\ scopeOf \in [Tokens -> TokenScopes] /\ users \subseteq Tokens
    /\ live \subseteq Tokens /\ expired \subseteq Tokens
    /\ listed \in [{"protected", "rw", "mixin"} -> {L \in SUBSET Scopes : Base \subseteq L}]
    /\ core \in [Classes -> {"none", "default", "strict", "lax"}]
    /\ req \in [Requests -> Request]

\* What the documentation of each kind of view says a token must have been authorized for.
Documented(x) ==
    LET read(s)  == Of(s, READ)
        write(s) == Of(s, WRITE)
        has      == scopeOf[x.token]
    IN  CASE x.view \in {"protected", "has_scope", "session_or_scope"} -> Base \subseteq has
          [] x.view \in {"rw", "read_write"} \cup Classes ->
               Base \cup {IF x.method = "POST" THEN WRITE ELSE READ} \subseteq has
          [] x.view = "resource" ->
               \A s \in Base : (IF x.method = "POST" THEN write(s) ELSE read(s)) \in has
          [] x.view = "oas"        -> x.method \in DOMAIN Alternates /\ \E alt \in Alternates[x.method] : alt \subseteq has
          [] x.view = "middleware" -> x.token \in users

Preflight(x) == x.view \in Classes /\ x.method = "OPTIONS"

\* Where a login counts as much as a token: the documentation of IsAuthenticatedOrTokenHasScope
\* and of the middleware.
LoginCounts(x) == x.view \in {"session_or_scope", "middleware"} /\ x.session /\ x.auth = "session"

\* Whatever other threads append or cache meanwhile, and whichever of REST framework's
\* authentication classes answers, a request that gets through carries a token with every
\* scope its view documents for its method, in force when the request came in; or it is
\* from somebody logged in, who was not authenticated by the token, where that is enough.
NeverLetThroughWithout ==
    \A r \in Requests : req[r].phase = "served" /\ ~Preflight(req[r]) =>
        LoginCounts(req[r]) \/ (Documented(req[r]) /\ ~req[r].late)

RefusedOnlyWithout(x) ==
    x.phase = "forbidden" => ~InForce(x.token) \/ ~Documented(x) \/ x.auth = "session"

\* Every view but rw_protected_resource refuses a request only for what its own token
\* lacks: what it requires does not depend on the requests before it.
OthersDoNotMatter == \A r \in Requests : req[r].view # "rw" => RefusedOnlyWithout(req[r])

Made(c) == \E q \in Requests : req[q].view = c /\ req[q].made

\* Which validator decides: the validator_class of the view class itself, except that a
\* subclass is decided by the validator of its base class from the moment a request of the
\* base class makes a core until one of the subclass, that had looked before, makes its own:
\* for good, if none had.  It is never the validator of an unrelated class.
ValidatorOfClass ==
    [][\A r \in Requests : req[r].phase # "loaded" /\ req'[r].phase = "loaded" /\ req[r].view \in Classes =>
          req'[r].validator = Validator[IF req[r].view = "child" /\ Made("mixin") /\ ~Made("child")
                                        THEN "mixin" ELSE req[r].view]]_vars

\* "GET, HEAD, OPTIONS http methods require "read" scope. Otherwise "write" scope is
\* required": an rw_protected_resource view asks no more of a request than that.
RwAsksWhatItDocuments == \A r \in Requests : req[r].view = "rw" => RefusedOnlyWithout(req[r])

-----------------------------------------------------------------------------
(***************************************************************************)
(* Why: what a request keeps between the statements that serve it, and     *)
(* what the two things that outlive it are at any moment.                  *)
(***************************************************************************)
\* A token out of force stays so: one that was when the request came in is refused,
\* because the row was gone when it was read or has expired since.
LateStaysLate(x) == x.late => ~InForce(x.token) /\ (x.found => x.token \in expired)

\* Nothing has been read for a request before its token is looked up.
NothingRead(x) ==
    /\ x.phase \in {"new", "called", "making", "cored"} => ~x.found
    /\ x.phase \in {"new", "called", "making", "cored", "loaded"} => x.auth = "none"

\* The row was not found because the token had gone.
FoundOrGone(x) ==
    x.phase \in {"loaded", "authenticated"} /\ x.auth # "session" /\ ~x.found => x.token \notin live

\* What will be asked of the token: a copy of its own, or a list that only grows.
AskedFor(x) ==
    x.phase \in {"called", "making", "cored", "loaded"} =>
        /\ x.view \in Classes => x.required = Base \cup {ReadWriteScope(x.method)}
        /\ x.view = "rw" => ReadWriteScope(x.method) \in listed["rw"]

AuthenticatedBy(x) ==
    x.phase = "authenticated" =>
        /\ x.view \in Rest
        /\ x.auth = "session" => x.session
        /\ x.auth = "none" => ~InForce(x.token)

\* A core is looked for only by the view classes, and made by a request that found none.
CoreFirst(x) ==
    /\ x.phase \in {"making", "cored"} => x.view \in Classes
    /\ x.phase \in {"new", "called", "making"} => ~x.made
    /\ x.phase = "cored" => KeptCore(x.view) # "none"

\* Only rw_protected_resource's list changes, and a core is kept where it was made.
OutliveRequests ==
    /\ listed["protected"] = Base /\ listed["mixin"] = Base
    /\ \A c \in Classes : core[c] = IF Made(c) THEN Validator[c] ELSE "none"

RequestInv(r) ==
    LET x == req[r]
    IN  /\ LateStaysLate(x) /\ NothingRead(x) /\ FoundOrGone(x) /\ AskedFor(x) /\ AuthenticatedBy(x)
        /\ CoreFirst(x)

IndInv ==
    /\ TypeOK /\ OutliveRequests /\ \A r \in Requests : RequestInv(r)
    /\ NeverLetThroughWithout /\ OthersDoNotMatter

=============================================================================
