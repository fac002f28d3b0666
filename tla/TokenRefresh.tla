------------------------------ MODULE TokenRefresh ------------------------------
(***************************************************************************)
(* The refresh_token grant: TokenView requests that exchange a refresh     *)
(* token, interleaved with each other, with tokens being issued, revoked   *)
(* and deleted by other requests, and with the clock.                      *)
(*                                                                         *)
(* A refresh request runs                                                  *)
(*   Validate           validate_refresh_token, its own statement          *)
(*   GetOriginalScopes  a later statement, no lock                         *)
(*   then save_bearer_token in one transaction: either ReuseAccess, or     *)
(*   LockInstance, ReadPrevious and either IssueFresh or ReadPair and      *)
(*   AnswerPrevious;                                                       *)
(*   Respond            TokenView.post looks its access token up again.    *)
(* What the transaction writes others see (READ COMMITTED) when it commits,*)
(* in its last step; what it reads without a lock can change before that.  *)
(* The row lock it holds is the phases "locked", "read" and "paired".      *)
(***************************************************************************)
EXTENDS TokenStore

CONSTANTS
    Requests,       \* the refresh requests, each served once
    Revocations,    \* the requests that revoke a refresh token's string, each served once
    Rotate,         \* ROTATE_REFRESH_TOKEN
    Grace,          \* REFRESH_TOKEN_GRACE_PERIOD_SECONDS
    AccessLife,     \* ACCESS_TOKEN_EXPIRE_SECONDS
    MaxTime,        \* bound: the clock stops here
    MaxIssued       \* bound: tokens issued by grants other than refresh_token

ASSUME RefreshAssumption ==
    Rotate \in BOOLEAN /\ Grace \in Nat /\ AccessLife \in Nat
    /\ MaxTime \in Nat \ {0} /\ MaxIssued \in Nat

VARIABLES
    now,        \* timezone.now()
    db,         \* the two tables
    req,        \* the request objects, one per refresh request
    granted,    \* history: the scope the resource owner granted to each refresh token's family
    rev         \* the revocation requests

vars == <<now, db, req, granted, rev>>

Running   == {"validated", "scoped", "locked", "read", "paired"}
Committed == {"saved", "ok"}
Answered  == {"ok", "invalid_grant", "invalid_scope", "server_error"}

(***************************************************************************)
(* request.refresh_token_instance (instance, access and, before the scopes *)
(* are settled, scope are the row select_related returned), request.scope  *)
(* (wanted, {} when the client sends none), previous_access_token, and the *)
(* token strings of the response.  late is history.                        *)
(***************************************************************************)
Request == [phase : {"new", "saved"} \cup Running \cup Answered, code : Nat,
            instance : Nat, access : Nat, wanted : SUBSET Scopes, scope : SUBSET Scopes,
            expires : Nat, previous : Nat, gotAccess : Nat, gotRefresh : Nat, late : BOOLEAN]

NewRequest == [phase |-> "new", code |-> NULL, instance |-> NULL, access |-> NULL,
               wanted |-> {}, scope |-> {}, expires |-> NULL, previous |-> NULL,
               gotAccess |-> NULL, gotRefresh |-> NULL, late |-> FALSE]

\* code is the token parameter, rows the refresh tokens not revoked yet of those its
\* string named; at and raced are history: when the endpoint answered, and whether a
\* refresh with the string was under way meanwhile or up to the end of its grace period.
Revocation == [phase : {"new", "revoking", "answered"}, code : Nat, rows : SUBSET Nat,
               at : Nat, raced : BOOLEAN]

NewRevocation == [phase |-> "new", code |-> NULL, rows |-> {}, at |-> NULL, raced |-> FALSE]

Init ==
    /\ now = 1
    /\ db = EmptyStore
    /\ req = [r \in Requests |-> NewRequest]
    /\ granted = [t \in {} |-> {}]
    /\ rev = [v \in Revocations |-> NewRevocation]

-----------------------------------------------------------------------------
HoldsAfterError(r, t) ==                     \* mutant: no rollback when the view raises
    req[r].phase \in {"locked", "read", "paired", "server_error"} /\ req[r].instance = t

Holds(r, t)   == req[r].phase \in {"locked", "read", "paired"} /\ req[r].instance = t
Unlocked(t)   == \A r \in Requests : ~Holds(r, t)
BoundTo(S, a) == {t \in DOMAIN S.rt : S.rt[t].access = a}
SourcedBy(S, t) == {a \in DOMAIN S.at : S.at[a].source = t}
First(K)      == {k \in K : \A l \in K : k <= l}      \* .first(): ordered by primary key

\* What a request asked for is of no use once it is answered.
Leave(x, phase) == [x EXCEPT !.phase = phase, !.wanted = {}, !.scope = {}, !.expires = NULL]

Answer(r, outcome) ==
    /\ req' = [req EXCEPT ![r] = Leave(@, outcome)]
    /\ UNCHANGED <<now, db, granted, rev>>

\* save_bearer_token returns: the response will name these strings.
Succeed(r, access, refresh) ==
    req' = [req EXCEPT ![r] = [Leave(@, "saved") EXCEPT !.gotAccess = access, !.gotRefresh = refresh]]

(***************************************************************************)
(* validate_refresh_token.                                                 *)
(***************************************************************************)
UsableInclusive(row) ==                      \* mutant: revoked__gte
    row.revoked = NULL \/ row.revoked + Grace >= now

Usable(row) == row.revoked = NULL \/ row.revoked + Grace > now

Candidates(code) == {t \in DOMAIN db.rt : db.rt[t].token = code /\ Usable(db.rt[t])}

\* No usable row bears the string; a row of another application ends the same way.
Refuse(r) ==
    /\ req[r].phase = "new"
    /\ \E code \in 0 .. db.rtSeq : Candidates(code) = {}
    /\ Answer(r, "invalid_grant")

\* The endpoint answered at least the grace period ago that the string is revoked.
Over(v)    == rev[v].phase = "answered" /\ rev[v].at + Grace <= now
Dead(code) == \E v \in Revocations : Over(v) /\ rev[v].code = code /\ (Rotate \/ ~rev[v].raced)

\* Kept of a refresh: that it overlaps the revocations of its string, see Revocation.
Overlap(code) ==
    rev' = [v \in Revocations |->
              IF rev[v].code = code /\ rev[v].phase # "new" /\ ~Over(v)
              THEN [rev[v] EXCEPT !.raced = TRUE] ELSE rev[v]]

Validate(r) ==
    /\ req[r].phase = "new"
    /\ \E code \in 0 .. db.rtSeq, wanted \in SUBSET Scopes : \E t \in First(Candidates(code)) :
         LET a == db.rt[t].access
         IN  /\ req' = [req EXCEPT ![r] = [@ EXCEPT !.phase = "validated", !.code = code,
                       !.instance = t, !.access = a, !.wanted = wanted,
                       !.scope = IF a = NULL THEN {} ELSE db.at[a].scope,
                       !.late = Dead(code)]]
             /\ Overlap(code)
    /\ UNCHANGED <<now, db, granted>>

(***************************************************************************)
(* get_original_scopes and the grant's comparison with request.scope.      *)
(* expires is computed on entry to save_bearer_token, which follows.       *)
(***************************************************************************)
OriginalScopeUnchecked(r) == Scopes          \* mutant: the grant trusts request.scope

OriginalScope(r) ==
    IF req[r].access = NULL
    THEN UNION {db.at[a].scope : a \in SourcedBy(db, req[r].instance)}
    ELSE req[r].scope

GetOriginalScopes(r) ==
    LET original == OriginalScope(r)
        wanted   == req[r].wanted
    IN  /\ req[r].phase = "validated"
        /\ IF wanted \subseteq original
           THEN /\ req' = [req EXCEPT ![r] = [@ EXCEPT !.phase = "scoped",
                                   !.scope = IF wanted = {} THEN original ELSE wanted,
                                   !.expires = now + AccessLife]]
                /\ UNCHANGED <<now, db, granted, rev>>
           ELSE Answer(r, "invalid_scope")

(***************************************************************************)
(* save_bearer_token.                                                      *)
(***************************************************************************)
Reusing(r) == ~Rotate /\ req[r].access # NULL

\* The access token is locked, read again and given a new string in place.
ReuseAccess(r) ==
    LET a == req[r].access
    IN  /\ req[r].phase = "scoped" /\ Reusing(r)
        /\ IF a \in DOMAIN db.at
           THEN /\ db' = UpdateAccess(db, a, req[r].scope, req[r].expires)
                /\ Succeed(r, db.strings + 1, req[r].code)
                /\ UNCHANGED <<now, granted, rev>>
           ELSE Answer(r, "server_error")               \* AccessToken.DoesNotExist

\* RefreshToken.objects.select_for_update().get: waits for the row lock.
LockNothing(r) ==                            \* mutant: get() without select_for_update()
    /\ req[r].phase = "scoped" /\ ~Reusing(r)
    /\ IF req[r].instance \in DOMAIN db.rt
       THEN /\ req' = [req EXCEPT ![r] = [@ EXCEPT !.phase = "locked"]]
            /\ UNCHANGED <<now, db, granted, rev>>
       ELSE Answer(r, "server_error")

LockUnrevoked(r) ==                          \* mutant: get(revoked__isnull=True) raises for a replay
    /\ req[r].phase = "scoped" /\ ~Reusing(r)
    /\ IF \E t \in DOMAIN db.rt : t = req[r].instance /\ db.rt[t].revoked = NULL
       THEN /\ Unlocked(req[r].instance)
            /\ req' = [req EXCEPT ![r] = [@ EXCEPT !.phase = "locked"]]
            /\ UNCHANGED <<now, db, granted, rev>>
       ELSE Answer(r, "server_error")

LockInstance(r) ==
    /\ req[r].phase = "scoped" /\ ~Reusing(r)
    /\ IF req[r].instance \in DOMAIN db.rt
       THEN /\ Unlocked(req[r].instance)
            /\ req' = [req EXCEPT ![r] = [@ EXCEPT !.phase = "locked"]]
            /\ UNCHANGED <<now, db, granted, rev>>
       ELSE Answer(r, "server_error")               \* RefreshToken.DoesNotExist

\* AccessToken.objects.filter(source_refresh_token=instance).first()
ReadPrevious(r) ==
    LET successors == SourcedBy(db, req[r].instance)
    IN  /\ req[r].phase = "locked"
        /\ \E a \in IF successors = {} THEN {NULL} ELSE First(successors) :
             req' = [req EXCEPT ![r] = [@ EXCEPT !.phase = "read", !.previous = a,
                                  !.gotAccess = IF a = NULL THEN NULL ELSE db.at[a].token]]
        /\ UNCHANGED <<now, db, granted, rev>>

IssueUnderOldString(r) ==                    \* mutant: rotate_refresh_token is not consulted
    LET t == req[r].instance
        A == CreateAccess(RevokeRefresh(db, {t}, now), req[r].scope, req[r].expires, t)
    IN  /\ req[r].phase = "read" /\ req[r].previous = NULL
        /\ db' = CreateRefresh(A, req[r].code, A.atSeq)
        /\ Succeed(r, A.strings, req[r].code)
        /\ granted' = Insert(granted, A.rtSeq + 1, granted[t])
        /\ UNCHANGED <<now, rev>>

\* The refresh token was never exchanged, or what it was exchanged for is gone.
IssueFresh(r) ==
    LET t   == req[r].instance
        R   == RevokeRefresh(db, {t}, now)
        A   == CreateAccess(R, req[r].scope, req[r].expires, t)
        new == A.rtSeq + 1
        refresh == IF Rotate THEN new ELSE req[r].code
    IN  /\ req[r].phase = "read" /\ req[r].previous = NULL
        /\ db' = CreateRefresh(A, refresh, A.atSeq)
        /\ Succeed(r, A.strings, refresh)
        /\ granted' = Insert(granted, new, granted[t])
        /\ UNCHANGED <<now, rev>>

\* It was: the refresh token of the pair it was exchanged for, read without a lock ...
ReadPair(r) ==
    LET bound == BoundTo(RevokeRefresh(db, {req[r].instance}, now), req[r].previous)
    IN  /\ req[r].phase = "read" /\ req[r].previous # NULL
        /\ \/ /\ bound = {}
              /\ Answer(r, "server_error")              \* None has no attribute token
           \/ \E u \in First(bound) :
                 /\ req' = [req EXCEPT ![r] = [@ EXCEPT !.phase = "paired", !.gotRefresh = db.rt[u].token]]
                 /\ UNCHANGED <<now, db, granted, rev>>

AnswerWithConsumed(r) ==                     \* mutant: returns the refresh token just consumed
    /\ req[r].phase = "paired"
    /\ db' = RevokeRefresh(db, {req[r].instance}, now)
    /\ Succeed(r, req[r].gotAccess, req[r].code)
    /\ UNCHANGED <<now, granted, rev>>

\* ... and the commit.
AnswerPrevious(r) ==
    /\ req[r].phase = "paired"
    /\ db' = RevokeRefresh(db, {req[r].instance}, now)
    /\ Succeed(r, req[r].gotAccess, req[r].gotRefresh)
    /\ UNCHANGED <<now, granted, rev>>

-----------------------------------------------------------------------------
(***************************************************************************)
(* TokenView.post: AccessToken.objects.get(token=access_token).            *)
(***************************************************************************)
LiveString(S, s) == \E a \in DOMAIN S.at : S.at[a].token = s

Respond(r) ==
    /\ req[r].phase = "saved"
    /\ Answer(r, IF LiveString(db, req[r].gotAccess) THEN "ok" ELSE "server_error")

-----------------------------------------------------------------------------
(***************************************************************************)
(* The other requests that touch the tables.                               *)
(***************************************************************************)
\* save_bearer_token for a request that carries no refresh_token_instance.
IssueTokens(scope) ==
    LET A == CreateAccess(db, scope, now + AccessLife, NULL)
    IN  /\ db.atSeq < MaxIssued
        /\ \/ /\ db' = CreateRefresh(A, A.rtSeq + 1, A.atSeq)
              /\ granted' = Insert(granted, A.rtSeq + 1, scope)
           \/ /\ db' = A                        \* client credentials, implicit: no refresh token
              /\ UNCHANGED granted
        /\ UNCHANGED <<now, req, rev>>

\* Deleting an access token nulls the key of the row bound to it, so it waits
\* for that row's lock: revoke_token for an access token's string ...
RevokeAccessToken(a) ==
    /\ \A t \in BoundTo(db, a) : Unlocked(t)
    /\ db' = DeleteAccess(db, {a})
    /\ UNCHANGED <<now, req, granted, rev>>

\* ... and AuthorizedTokenDeleteView.
AuthorizedTokenDelete(a) == RevokeAccessToken(a)

(***************************************************************************)
(* revoke_token for a refresh token's string: a SELECT, then RefreshToken. *)
(* revoke on each row it returned, each in a transaction of its own.       *)
(***************************************************************************)
\* With the hint "refresh_token" the row is fetched with get(), which raises if the
\* string names several (a 500 that changes nothing); without it, with filter().
LookUpRefresh(v, code, hint) ==
    LET named == {t \in DOMAIN db.rt : db.rt[t].token = code}
        raced == \E r \in Requests : req[r].phase \in Running /\ req[r].code = code
    IN  /\ rev[v].phase = "new"
        /\ hint = "refresh_token" => Cardinality(named) <= 1
        /\ rev' = [rev EXCEPT ![v] = [@ EXCEPT !.phase = "revoking", !.code = code, !.rows = named,
                                              !.raced = raced]]
        /\ UNCHANGED <<now, db, req, granted>>

\* The row is locked and read again with revoked__isnull; it may be revoked or gone by now.
RevokeRow(v) ==
    /\ rev[v].phase = "revoking"
    /\ \E t \in rev[v].rows :
         /\ t \in DOMAIN db.rt /\ db.rt[t].revoked = NULL => Unlocked(t)
         /\ db' = RevokeRefresh(db, {t}, now)
         /\ rev' = [rev EXCEPT ![v] = [@ EXCEPT !.rows = rev[v].rows \ {t}]]
    /\ UNCHANGED <<now, req, granted>>

AnswerRevocation(v) ==
    /\ rev[v].phase = "revoking" /\ rev[v].rows = {}
    /\ rev' = [rev EXCEPT ![v] = [@ EXCEPT !.phase = "answered", !.at = now]]
    /\ UNCHANGED <<now, db, req, granted>>

RevokeRefreshToken(v) ==
    \/ \E code \in 1 .. db.rtSeq, hint \in {"none", "refresh_token"} : LookUpRefresh(v, code, hint)
    \/ RevokeRow(v)
    \/ AnswerRevocation(v)

Tick ==
    /\ now < MaxTime
    /\ now' = now + 1
    /\ UNCHANGED <<db, req, granted, rev>>

-----------------------------------------------------------------------------
Step(r) ==
    \/ Refuse(r) \/ Validate(r) \/ GetOriginalScopes(r)
    \/ ReuseAccess(r) \/ LockInstance(r)
    \/ ReadPrevious(r) \/ IssueFresh(r) \/ ReadPair(r) \/ AnswerPrevious(r) \/ Respond(r)

Environment ==
    \/ \E scope \in SUBSET Scopes : IssueTokens(scope)
    \/ \E a \in DOMAIN db.at : RevokeAccessToken(a) \/ AuthorizedTokenDelete(a)
    \/ \E v \in Revocations : RevokeRefreshToken(v)
    \/ Tick

Next == (\E r \in Requests : Step(r)) \/ Environment

Spec == Init /\ [][Next]_vars

\* A worker keeps serving a request it has begun; nothing makes clients come.
Serve(r) == req[r].phase \in Running \cup {"saved"} /\ Step(r)

FairSpec == Spec /\ \A r \in Requests : WF_vars(Serve(r))

-----------------------------------------------------------------------------
(***************************************************************************)
(* Properties.                                                             *)
(***************************************************************************)
\* Every variable keeps its type and every key in the tables came from its sequence.
TypeOK ==
    /\ now \in 1 .. MaxTime
    /\ IsStore(db)
    /\ req \in [Requests -> Request]
    /\ granted \in [1 .. db.rtSeq -> SUBSET Scopes]
    /\ rev \in [Revocations -> Revocation]

\* However refreshes of one refresh token interleave, it has at most one live
\* successor: the insert of save_bearer_token never meets the unique constraint of
\* AccessToken.source_refresh_token, which would turn the request into a 500.
OneSuccessor == UniqueSource(db)

\* RefreshToken.revoke takes the access token with it: no revoked refresh token,
\* whichever request revoked it, still has an access token bound to it.
RevokedIsUnbound == RevokedUnbound(db)

\* A row once revoked keeps its timestamp: a replay never restarts its grace period.
RevocationIsFinal ==
    [][\A t \in DOMAIN db.rt \cap DOMAIN db.rt' :
          db.rt[t].revoked # NULL => db'.rt[t].revoked = db.rt[t].revoked]_vars

\* Two successful answers for one refresh token that differ are never both usable:
\* the second client was given other tokens only because the first ones are gone.
LiveAnswersAgree ==
    \A r, q \in Requests :
        /\ req[r].phase = "ok" /\ req[q].phase = "ok" /\ req[r].instance = req[q].instance
        /\ LiveString(db, req[r].gotAccess) /\ LiveString(db, req[q].gotAccess)
        => req[r].gotAccess = req[q].gotAccess

\* The pair of a response belongs together for as long as the access token lives: it can
\* be refreshed, with the refresh token the client was given.  The two strings are read,
\* with no lock on either row, before save_bearer_token commits, and meanwhile the pair
\* may be refreshed, revoked, or reissued under another string.
AnsweredPairHolds ==
    \A r \in Requests : req[r].phase \in Committed =>
        \A a \in DOMAIN db.at : db.at[a].token = req[r].gotAccess =>
            \E t \in BoundTo(db, a) : db.rt[t].token = req[r].gotRefresh /\ db.rt[t].revoked = NULL

\* Along any chain of refreshes and replays the scope of a token stays within what
\* the resource owner granted to the first pair of the chain.
ScopeWithinGrant ==
    \A t \in DOMAIN db.rt :
        db.rt[t].access # NULL => db.at[db.rt[t].access].scope \subseteq granted[t]

\* Once the revocation endpoint has answered for a refresh token's string and the grace
\* period is over, a request that presents the string obtains nothing.  With rotation
\* this holds whatever was under way.  Without, a refresh that overlaps the revocation
\* can put the same string on a new row, after the rows to revoke were looked up: such
\* revocations are left out, and the string does stay usable then.
RevokedBuysNothing == \A r \in Requests : req[r].phase \in Committed => ~req[r].late

\* With rotation a string names one row, so get(token=...) in revoke_token never
\* raises MultipleObjectsReturned.
OneRowPerString ==
    \A t, u \in DOMAIN db.rt : db.rt[t].token = db.rt[u].token => t = u

\* A refresh ends in a 500 only because somebody else took what it had read: its refresh
\* token or its access token is gone, or the pair it would answer with is, or the access
\* token it had obtained is gone or renamed by the time the response is made.
FailsOnlyIfOvertaken ==
    \A r \in Requests : req[r].phase = "server_error" =>
        \/ req[r].instance \notin DOMAIN db.rt
        \/ req[r].access # NULL /\ req[r].access \notin DOMAIN db.at
        \/ req[r].previous # NULL /\ BoundTo(db, req[r].previous) = {}
        \/ req[r].gotAccess # NULL /\ ~LiveString(db, req[r].gotAccess)

\* Every refresh whose token was validated is answered: waiting for the row lock
\* never blocks requests forever, and no outcome of the later statements is left out.
EveryRequestAnswered ==
    \A r \in Requests : req[r].phase = "validated" ~> req[r].phase \in Answered

-----------------------------------------------------------------------------
(***************************************************************************)
(* Why OneSuccessor holds: the row lock makes the reader of "no successor" *)
(* the only request that could create one.                                 *)
(***************************************************************************)
InTransaction(r) == req[r].phase \in {"locked", "read", "paired"}

LockExclusive ==
    \A r, q \in Requests :
        InTransaction(r) /\ InTransaction(q) /\ req[r].instance = req[q].instance => r = q

LockedRowExists == \A r \in Requests : InTransaction(r) => req[r].instance \in DOMAIN db.rt

PreviousStillAbsent ==
    \A r \in Requests : req[r].phase = "read" /\ req[r].previous = NULL
                        => SourcedBy(db, req[r].instance) = {}

\* The inductive invariant: the tables are well formed and whoever read that a
\* refresh token has no successor holds the only lock under which one is created.
IndInv == TypeOK /\ WellFormed(db) /\ LockExclusive /\ LockedRowExists /\ PreviousStillAbsent

-----------------------------------------------------------------------------
(***************************************************************************)
(* Why scopes stay within the grant and answers agree: what a chain of     *)
(* refreshes leaves in the tables and what a request knows of its chain.   *)
(***************************************************************************)
\* A refresh token something was obtained with is spent, and the grant is handed on
\* along the chain.
SourceSpent(S) ==
    \A a \in DOMAIN S.at : S.at[a].source # NULL => S.rt[S.at[a].source].revoked # NULL

WithinGrants(S, G) ==
    \A a \in DOMAIN S.at :
        /\ S.at[a].source # NULL => S.at[a].scope \subseteq G[S.at[a].source]
        /\ \A t \in BoundTo(S, a) :
              /\ S.at[a].scope \subseteq G[t]
              /\ S.at[a].source # NULL => G[S.at[a].source] = G[t]

DistinctStrings(S) ==
    /\ \A a \in DOMAIN S.at : S.at[a].token \in 1 .. S.strings
    /\ \A a, b \in DOMAIN S.at : S.at[a].token = S.at[b].token => a = b

\* What a request has read about refresh token t, its access token a and the scope it
\* may have.  Either row can go meanwhile; while both are there they stay bound.
Attached(S, G, t, a, scope) ==
    /\ t \in DOMAIN G /\ a \in 0 .. S.atSeq /\ scope \subseteq G[t]
    /\ a \in DOMAIN S.at =>
          /\ BoundTo(S, a) = {t} \cap DOMAIN S.rt
          /\ S.at[a].source # NULL => G[S.at[a].source] = G[t]

\* An access token answered for t, or about to be, while both live: obtained with t, or
\* reissued as the one bound to t.
Traced(S, t, string) ==
    /\ t \in 1 .. S.rtSeq /\ string \in 0 .. S.strings
    /\ t \in DOMAIN S.rt =>
          \A a \in DOMAIN S.at :
              S.at[a].token = string => S.at[a].source = t \/ S.rt[t].access = a

RequestOfChain(r) ==
    req[r].phase \in Running =>
        Attached(db, granted, req[r].instance, req[r].access, req[r].scope)

AnswerOfChain(r) ==
    req[r].phase \in Committed \cup {"paired"} \/ (req[r].phase = "read" /\ req[r].previous # NULL) =>
        Traced(db, req[r].instance, req[r].gotAccess)

\* The live access tokens a request has read or has answered with.
Claims(r) ==
    {a \in DOMAIN db.at : \/ req[r].phase \in Running /\ req[r].access = a
                          \/ req[r].phase \in Committed /\ db.at[a].token = req[r].gotAccess}

\* Requests that present one refresh token have to do with one access token, also when
\* the row that relates them is gone.
ClaimsAgree ==
    \A r, q \in Requests : req[r].instance = req[q].instance =>
        \A a \in Claims(r), b \in Claims(q) : a = b

ChainInv ==
    /\ UniqueBinding(db) /\ SourceSpent(db) /\ WithinGrants(db, granted) /\ DistinctStrings(db)
    /\ \A r \in Requests : RequestOfChain(r) /\ AnswerOfChain(r)
    /\ ClaimsAgree

\* No request deletes a refresh token; cleartokens does.
AllRows == DOMAIN db.rt = 1 .. db.rtSeq

\* With rotation a refresh token's string is its row's key.
RotationInv == Rotate => \A t \in DOMAIN db.rt : db.rt[t].token = t

\* What a request x knows of the pair it answers with: a string that named the previous
\* access token names no other, and a row bound to the access token is the one read.
KnowsPair(S, x) ==
    /\ x.phase \in Running /\ x.instance \in DOMAIN S.rt => S.rt[x.instance].token = x.code
    /\ x.phase \in {"read", "paired"} /\ x.previous # NULL =>
          /\ x.previous \in 1 .. S.atSeq /\ x.gotAccess \in 1 .. S.strings
          /\ \A a \in DOMAIN S.at : S.at[a].token = x.gotAccess => a = x.previous
    /\ x.phase = "paired" =>
          x.previous # NULL /\ \A u \in BoundTo(S, x.previous) : S.rt[u].token = x.gotRefresh
    /\ x.phase \in Committed =>
          /\ x.gotAccess \in 1 .. S.strings
          /\ \A a \in DOMAIN S.at : S.at[a].token = x.gotAccess =>
                \A u \in BoundTo(S, a) : S.rt[u].token = x.gotRefresh

\* While no refresh token's row is deleted there is such a row.
KeepsPair(S, x) ==
    /\ x.phase = "paired" /\ x.previous \in DOMAIN S.at => BoundTo(S, x.previous) # {}
    /\ x.phase \in Committed =>
          \A a \in DOMAIN S.at : S.at[a].token = x.gotAccess => BoundTo(S, a) # {}

PairInv == \A r \in Requests : KnowsPair(db, req[r])

PairKept == \A r \in Requests : KeepsPair(db, req[r])

\* After its lookup, a revocation that no refresh raced, or any with rotation, leaves no
\* row of its string unrevoked but those it has still to revoke.
Cancels(v) ==
    /\ rev[v].phase # "new" => rev[v].code \in 1 .. db.rtSeq
    /\ rev[v].at <= now
    /\ rev[v].phase # "new" /\ ~rev[v].raced =>
          \A r \in Requests : req[r].phase \in Running => req[r].code # rev[v].code
    /\ rev[v].phase # "new" /\ (Rotate \/ ~rev[v].raced) =>
          \A t \in DOMAIN db.rt : db.rt[t].token = rev[v].code =>
              \/ rev[v].phase = "revoking" /\ t \in rev[v].rows
              \/ /\ db.rt[t].revoked # NULL
                 /\ rev[v].phase = "answered" => db.rt[t].revoked <= rev[v].at

CancelInv ==
    /\ \A t \in DOMAIN db.rt : db.rt[t].revoked <= now /\ db.rt[t].token \in 1 .. db.rtSeq
    /\ \A v \in Revocations : Cancels(v)
    /\ \A r \in Requests : req[r].phase \in Running \cup Committed => ~req[r].late

=============================================================================
