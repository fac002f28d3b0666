----------------------------- MODULE ResourceServer -----------------------------
(***************************************************************************)
(* validate_bearer_token on a resource server of its own, which asks the   *)
(* introspection endpoint of the authorization server about tokens it has  *)
(* no valid row for and keeps the answers as AccessToken rows.  Every      *)
(* statement names one token string, so the module is about one token.     *)
(***************************************************************************)
EXTENDS Integers, FiniteSets

CONSTANTS
    Requests,   \* the requests to the resource server, each served once
    Scopes,     \* the scope names
    Cache,      \* RESOURCE_SERVER_TOKEN_CACHING_SECONDS
    Zone,       \* the resource server's local time minus UTC
    MaxTime     \* bound: the clock stops here

ASSUME CacheAssumption == Cache \in Nat /\ Zone \in Int /\ MaxTime \in Nat \ {0}

NULL == 0

VARIABLES
    now,        \* the clock of both servers, in UTC
    scope,      \* the scope the authorization server answers
    exp,        \* the exp it answers, NULL if its answers have none
    active,     \* the authorization server still has the token
    cached,     \* the resource server's AccessToken rows for the string
    req,        \* the requests
    quiet       \* history: since when the token is revoked and no answer is under way

vars == <<now, scope, exp, active, cached, req, quiet>>

Row == [expires : Int, scope : SUBSET Scopes]

Request == [phase : {"new", "asking", "answered", "served", "refused"}, wanted : SUBSET Scopes,
            start : Nat, decided : Nat, failed : BOOLEAN]

NewRequest == [phase |-> "new", wanted |-> {}, start |-> NULL, decided |-> NULL, failed |-> FALSE]

Init ==
    /\ now = 1
    /\ scope \in SUBSET Scopes /\ exp \in {NULL} \cup 2 .. MaxTime
    /\ active = TRUE /\ cached = {} /\ quiet = NULL
    /\ req = [r \in Requests |-> NewRequest]

-----------------------------------------------------------------------------
IsValid(row, wanted) == row.expires > now /\ wanted \subseteq row.scope

Decide(r, phase) ==
    req' = [req EXCEPT ![r] = [@ EXCEPT !.phase = phase, !.decided = now]]

\* _load_access_token, and whether the row it finds will do.
LoadAccessToken(r) ==
    /\ req[r].phase = "new"
    /\ \E wanted \in SUBSET Scopes :
         LET known == \E row \in cached : IsValid(row, wanted)
         IN  req' = [req EXCEPT ![r] = [@ EXCEPT !.wanted = wanted, !.start = now, !.decided = now,
                               !.phase = IF known THEN "served" ELSE "asking"]]
    /\ UNCHANGED <<now, scope, exp, active, cached, quiet>>

\* The POST fails, is answered with another status than 200 or without JSON.
PostFails(r) ==
    /\ req[r].phase = "asking"
    /\ req' = [req EXCEPT ![r] = [@ EXCEPT !.phase = "refused", !.decided = now, !.failed = TRUE]]
    /\ UNCHANGED <<now, scope, exp, active, cached, quiet>>

\* IntrospectTokenView.get_token_response, the answer being under way afterwards.
Introspect(r) ==
    /\ req[r].phase = "asking"
    /\ Decide(r, IF active /\ (exp = NULL \/ now < exp) THEN "answered" ELSE "refused")
    /\ UNCHANGED <<now, scope, exp, active, cached, quiet>>

ExpiresUncapped == IF exp = NULL THEN now + Cache ELSE exp - Zone    \* mutant: max_caching_time not compared
ExpiresFromNow == now + Cache                                        \* mutant: exp not looked at

\* exp is taken apart in UTC, datetime.now() is local, and make_aware reads
\* whichever is smaller as local time.
Expires ==
    LET maxCachingTime == now + Zone + Cache
        naive == IF exp # NULL /\ exp <= maxCachingTime THEN exp ELSE maxCachingTime
    IN  naive - Zone

\* When the last answer of a revoked token has been stored, none can follow.
Quieter(r) ==
    IF ~active /\ quiet = NULL /\ \A q \in Requests \ {r} : req[q].phase # "answered"
    THEN now ELSE quiet

StoreUnlessThere(r) ==                       \* mutant: get_or_create
    LET row == [expires |-> Expires, scope |-> scope]
    IN  /\ req[r].phase = "answered"
        /\ cached' = IF cached = {} THEN {row} ELSE cached
        /\ Decide(r, IF \E c \in cached' : IsValid(c, req[r].wanted) THEN "served" ELSE "refused")
        /\ quiet' = Quieter(r)
        /\ UNCHANGED <<now, scope, exp, active>>

StoreAnother(r) ==                           \* mutant: create
    LET row == [expires |-> Expires, scope |-> scope]
    IN  /\ req[r].phase = "answered"
        /\ cached' = cached \cup {row}
        /\ Decide(r, IF IsValid(row, req[r].wanted) THEN "served" ELSE "refused")
        /\ quiet' = Quieter(r)
        /\ UNCHANGED <<now, scope, exp, active>>

\* update_or_create, and is_valid on what it returns.
StoreAnswer(r) ==
    LET row == [expires |-> Expires, scope |-> scope]
    IN  /\ req[r].phase = "answered"
        /\ cached' = {row}
        /\ Decide(r, IF IsValid(row, req[r].wanted) THEN "served" ELSE "refused")
        /\ quiet' = Quieter(r)
        /\ UNCHANGED <<now, scope, exp, active>>

\* The token is revoked or deleted at the authorization server.
Revoke ==
    /\ active
    /\ active' = FALSE
    /\ quiet' = IF \E r \in Requests : req[r].phase = "answered" THEN NULL ELSE now
    /\ UNCHANGED <<now, scope, exp, cached, req>>

\* cleartokens on the resource server; no refresh token is bound to such a row.
ClearRow ==
    /\ \E row \in cached : row.expires < now
    /\ cached' = {row \in cached : row.expires >= now}
    /\ UNCHANGED <<now, scope, exp, active, req, quiet>>

Tick ==
    /\ now < MaxTime
    /\ now' = now + 1
    /\ UNCHANGED <<scope, exp, active, cached, req, quiet>>

Serve(r) == LoadAccessToken(r) \/ PostFails(r) \/ Introspect(r) \/ StoreAnswer(r)

Next == (\E r \in Requests : Serve(r)) \/ Revoke \/ ClearRow \/ Tick

Spec == Init /\ [][Next]_vars

-----------------------------------------------------------------------------
(***************************************************************************)
(* Properties.                                                             *)
(***************************************************************************)
\* The types, and one row for the string, which the column's unique constraint asks
\* of concurrent introspections.
TypeOK ==
    /\ now \in 1 .. MaxTime
    /\ scope \in SUBSET Scopes /\ exp \in Nat /\ active \in BOOLEAN
    /\ cached \subseteq Row /\ \A row, other \in cached : row = other
    /\ req \in [Requests -> Request]
    /\ quiet \in 0 .. now

\* A token revoked at the authorization server is accepted for at most
\* RESOURCE_SERVER_TOKEN_CACHING_SECONDS after the last answer under way was stored,
\* however requests with different scopes refreshed the row meanwhile.
RevokedStopsAfterCache ==
    quiet # NULL => \A r \in Requests : req[r].phase = "served" => req[r].start < quiet + Cache

\* "Also cache the access_token up until its expiry time or a configured maximum time":
\* nobody is let in with a token past the exp the authorization server gave it.
ServedBeforeExpiry ==
    exp # NULL => \A r \in Requests : req[r].phase = "served" => req[r].decided < exp

\* A request whose token is good at the authorization server for all it wants is
\* refused only if the server could not be asked, whatever stale row was in the cache.
RefusedOnlyWithReason ==
    Cache > 0 /\ active => \A r \in Requests : req[r].phase = "refused" =>
        \/ req[r].failed
        \/ ~(req[r].wanted \subseteq scope)
        \/ exp # NULL /\ req[r].decided >= exp

-----------------------------------------------------------------------------
(***************************************************************************)
(* Why RevokedStopsAfterCache holds.                                       *)
(***************************************************************************)
\* No row outlives its last storing by more than the caching time.
RowsAreCapped == \A row \in cached : row.expires <= now + Cache

\* Once the token is quiet nothing extends a row.
QuietIsQuiet ==
    quiet # NULL =>
        /\ ~active /\ \A r \in Requests : req[r].phase # "answered"
        /\ \A row \in cached : row.expires <= quiet + Cache

\* Nobody was served with a caching time of 0, or began after now.
ServedWasOpen ==
    \A r \in Requests : req[r].start <= now /\ (req[r].phase = "served" => Cache > 0)

\* The inductive invariant.
IndInv == TypeOK /\ RowsAreCapped /\ QuietIsQuiet /\ ServedWasOpen /\ RevokedStopsAfterCache

=============================================================================
