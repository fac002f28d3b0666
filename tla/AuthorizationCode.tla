--------------------------- MODULE AuthorizationCode ---------------------------
(***************************************************************************)
(* The authorization-code grant of one user and one application: codes     *)
(* issued by AuthorizationView, with the user's consent or silently, and   *)
(* exchanged by TokenView.                                                 *)
(*                                                                         *)
(* An exchange reads the Grant row again at every step oauthlib takes it   *)
(* through, each read a statement of its own; only save_bearer_token is a  *)
(* transaction.  Between any two of them other exchanges run, cleartokens  *)
(* removes expired codes, the user withdraws tokens, or the worker dies.   *)
(***************************************************************************)
EXTENDS TokenStore

CONSTANTS
    Exchanges,          \* the token requests, each served once
    CodeLife,           \* AUTHORIZATION_CODE_EXPIRE_SECONDS
    AccessLife,         \* ACCESS_TOKEN_EXPIRE_SECONDS
    PkceRequired,       \* PKCE_REQUIRED
    SkipAuthorization,  \* Application.skip_authorization
    MaxTime,            \* bound: the clock stops here
    MaxCodes            \* bound: codes issued

ASSUME CodeAssumption ==
    /\ CodeLife \in Nat /\ AccessLife \in Nat /\ MaxTime \in Nat \ {0} /\ MaxCodes \in Nat
    /\ PkceRequired \in BOOLEAN /\ SkipAuthorization \in BOOLEAN

VARIABLES
    now,        \* timezone.now()
    grants,     \* the Grant table: a code is the key of its row
    codes,      \* codes issued so far
    db,         \* the token tables
    asking,     \* the silent approvals in AuthorizationView.get that found the user's earlier grant
    ex,         \* the token requests
    consented,  \* history: the scopes the user approved on the form
    spent       \* history: codes answered with tokens

vars == <<now, grants, codes, db, asking, ex, consented, spent>>

GrantRow == [expires : Nat, scope : SUBSET Scopes, challenged : BOOLEAN]

Running  == {"validated", "challenged", "confirmed", "saved", "fetched", "deleted"}
Finished == {"ok", "invalid_grant", "mismatching_uri", "server_error", "crashed"}

\* late and until, when the code expires, are history.
Exchange == [phase : {"new"} \cup Running \cup Finished, code : Nat, scope : SUBSET Scopes,
             issued : Nat, late : BOOLEAN, until : Nat]

NewExchange == [phase |-> "new", code |-> NULL, scope |-> {}, issued |-> NULL, late |-> FALSE,
                until |-> NULL]

Init ==
    /\ now = 1 /\ codes = 0
    /\ grants = [c \in {} |-> NULL]
    /\ db = EmptyStore
    /\ asking = {} /\ consented = {} /\ spent = {}
    /\ ex = [e \in Exchanges |-> NewExchange]

-----------------------------------------------------------------------------
(***************************************************************************)
(* AuthorizationView.                                                      *)
(***************************************************************************)
\* What a client may ask for; one that names no scope is given the default scopes.
Asked == SUBSET Scopes \ {{}}

\* _create_authorization_code; oauthlib has insisted on a challenge if PKCE is required.
CreateCode(scope) ==
    /\ codes < MaxCodes
    /\ codes' = codes + 1
    /\ \E challenged \in BOOLEAN :
         /\ PkceRequired => challenged
         /\ grants' = Insert(grants, codes + 1, [expires |-> now + CodeLife, scope |-> scope,
                                                 challenged |-> challenged])

\* form_valid with allow; without it nothing changes.
FormValid(scope) ==
    /\ CreateCode(scope)
    /\ consented' = consented \cup {scope}
    /\ UNCHANGED <<now, db, asking, ex, spent>>

ApprovedForAnything(scope) ==              \* mutant: the scopes of the token are not compared
    \E a \in DOMAIN db.at : db.at[a].expires > now

\* An unexpired token of the user for the application allows every scope asked for.
ApprovedBefore(scope) ==
    \E a \in DOMAIN db.at : db.at[a].expires > now /\ scope \subseteq db.at[a].scope

\* get with skip_authorization, or with approval_prompt=auto once the tokens are read.
FindApproval(scope) ==
    /\ SkipAuthorization \/ ApprovedBefore(scope)
    /\ asking' = asking \cup {scope}
    /\ UNCHANGED <<now, grants, codes, db, ex, consented, spent>>

SilentCode(scope) ==
    /\ scope \in asking
    /\ CreateCode(scope)
    /\ asking' = asking \ {scope}
    /\ UNCHANGED <<now, db, ex, consented, spent>>

-----------------------------------------------------------------------------
(***************************************************************************)
(* TokenView with grant_type=authorization_code, in oauthlib's order.      *)
(***************************************************************************)
Move(e, phase) ==
    /\ ex' = [ex EXCEPT ![e] = [@ EXCEPT !.phase = phase]]
    /\ UNCHANGED <<now, grants, codes, db, asking, consented, spent>>

\* The grant is read with get(): DoesNotExist escapes as a 500.
Fetched(e, result) ==
    Move(e, IF ex[e].code \in DOMAIN grants THEN result ELSE "server_error")

ValidateCode(e, c) ==
    LET x == [ex[e] EXCEPT !.code = c, !.late = c \in spent]
    IN  /\ ex[e].phase = "new"
        /\ ex' = [ex EXCEPT ![e] =
                     IF c \in DOMAIN grants /\ now < grants[c].expires
                     THEN [x EXCEPT !.phase = "validated", !.scope = grants[c].scope,
                                    !.until = grants[c].expires]
                     ELSE [x EXCEPT !.phase = "invalid_grant"]]
        /\ UNCHANGED <<now, grants, codes, db, asking, consented, spent>>

\* get_code_challenge, get_code_challenge_method and is_pkce_required: a challenge
\* needs a verifier that matches it; a grant without one passes unless PKCE is required.
CheckChallenge(e) ==
    /\ ex[e].phase = "validated"
    /\ \E verifier \in BOOLEAN :
         Fetched(e, IF ex[e].code \in DOMAIN grants
                       /\ IF grants[ex[e].code].challenged THEN verifier ELSE ~PkceRequired
                    THEN "challenged" ELSE "invalid_grant")

\* redirect: whether the request names the URI the grant was issued for.
ConfirmRedirectUri(e) ==
    /\ ex[e].phase = "challenged"
    /\ \E redirect \in BOOLEAN : Fetched(e, IF redirect THEN "confirmed" ELSE "mismatching_uri")

\* save_bearer_token commits; the request carries no refresh token instance.
SaveBearerToken(e) ==
    LET A == CreateAccess(db, ex[e].scope, now + AccessLife, NULL)
    IN  /\ ex[e].phase = "confirmed"
        /\ db' = CreateRefresh(A, A.rtSeq + 1, A.atSeq)
        /\ ex' = [ex EXCEPT ![e] = [@ EXCEPT !.phase = "saved", !.issued = A.atSeq]]
        /\ UNCHANGED <<now, grants, codes, asking, consented, spent>>

\* invalidate_authorization_code: get, then delete, which ignores a missing row.
FetchGrant(e) == ex[e].phase = "saved" /\ Fetched(e, "fetched")

ForgetDelete(e) == ex[e].phase = "fetched" /\ Move(e, "deleted")      \* mutant: the row stays

DeleteGrant(e) ==
    /\ ex[e].phase = "fetched"
    /\ ex' = [ex EXCEPT ![e] = [@ EXCEPT !.phase = "deleted"]]
    /\ grants' = Restrict(grants, DOMAIN grants \ {ex[e].code})
    /\ UNCHANGED <<now, codes, db, asking, consented, spent>>

\* TokenView.post fetches the access token for app_authorized, then answers.
Respond(e) ==
    /\ ex[e].phase = "deleted"
    /\ IF ex[e].issued \in DOMAIN db.at
       THEN /\ ex' = [ex EXCEPT ![e] = [@ EXCEPT !.phase = "ok"]]
            /\ spent' = spent \cup {ex[e].code}
            /\ UNCHANGED <<now, grants, codes, db, asking, consented>>
       ELSE Move(e, "server_error")

\* The worker process dies; what is committed stays.
Crash(e) == ex[e].phase \in Running /\ Move(e, "crashed")

Serve(e) ==
    \/ CheckChallenge(e) \/ ConfirmRedirectUri(e) \/ SaveBearerToken(e)
    \/ FetchGrant(e) \/ DeleteGrant(e) \/ Respond(e)

-----------------------------------------------------------------------------
ClearGrantsInclusive ==                    \* mutant: expires__lte
    /\ \E G \in SUBSET {c \in DOMAIN grants : grants[c].expires <= now} :
         G # {} /\ grants' = Restrict(grants, DOMAIN grants \ G)
    /\ UNCHANGED <<now, codes, db, asking, ex, consented, spent>>

\* The grants loop of clear_expired: one batch.
ClearGrants ==
    /\ \E G \in SUBSET {c \in DOMAIN grants : grants[c].expires < now} :
         G # {} /\ grants' = Restrict(grants, DOMAIN grants \ G)
    /\ UNCHANGED <<now, codes, db, asking, ex, consented, spent>>

\* The user deletes an authorized token, or the client revokes it.
WithdrawToken(a) ==
    /\ db' = DeleteAccess(db, {a})
    /\ UNCHANGED <<now, grants, codes, asking, ex, consented, spent>>

Tick ==
    /\ now < MaxTime
    /\ now' = now + 1
    /\ UNCHANGED <<grants, codes, db, asking, ex, consented, spent>>

Next ==
    \/ \E scope \in Asked : FormValid(scope) \/ FindApproval(scope) \/ SilentCode(scope)
    \/ \E e \in Exchanges :
         \/ \E c \in 0 .. codes : ValidateCode(e, c)
         \/ Serve(e) \/ Crash(e)
    \/ ClearGrants \/ Tick
    \/ \E a \in DOMAIN db.at : WithdrawToken(a)

Spec == Init /\ [][Next]_vars

-----------------------------------------------------------------------------
(***************************************************************************)
(* Properties.                                                             *)
(***************************************************************************)
\* Every variable keeps its type; a code's key came from the sequence.
TypeOK ==
    /\ now \in 1 .. MaxTime /\ codes \in 0 .. MaxCodes
    /\ DOMAIN grants \subseteq 1 .. codes /\ grants \in [DOMAIN grants -> GrantRow]
    /\ IsStore(db)
    /\ ex \in [Exchanges -> Exchange]
    /\ asking \subseteq SUBSET Scopes /\ consented \subseteq SUBSET Scopes
    /\ spent \subseteq 1 .. codes

Issued(e) == ex[e].issued # NULL

\* Once a client has been answered with tokens its code is dead: no exchange that
\* comes in after the answer gets tokens for it, whatever crashed or raced before.
CodeDeadAfterAnswer == \A e \in Exchanges : Issued(e) => ~ex[e].late

\* Codes and tokens never carry more than the user approved on one form, although a
\* silent approval rests on a token that rests on a code that may itself be silent.
WithinOneConsent ==
    SkipAuthorization \/
    \A scope \in {grants[c].scope : c \in DOMAIN grants} \cup {db.at[a].scope : a \in DOMAIN db.at} :
        \E approved \in consented : scope \subseteq approved

\* A client whose code was accepted gets a 500 only for a reason outside its exchange:
\* another exchange of the code has had its tokens, or the code has expired meanwhile,
\* or what the client was about to be given was withdrawn.  Neither a worker that dies
\* early in another exchange, nor cleartokens, takes a code that is still good.
FailsOnlyIfOvertaken ==
    \A e \in Exchanges : ex[e].phase = "server_error" =>
        \/ \E f \in Exchanges \ {e} : ex[f].code = ex[e].code /\ Issued(f)
        \/ ex[e].until < now
        \/ Issued(e) /\ ex[e].issued \notin DOMAIN db.at

-----------------------------------------------------------------------------
(***************************************************************************)
(* Why CodeDeadAfterAnswer holds: the answer comes after the deletion, and *)
(* a deleted code's string is never drawn again.                           *)
(***************************************************************************)
SpentIsGone == spent \cap DOMAIN grants = {}

DeletedIsGone == \A e \in Exchanges : ex[e].phase = "deleted" => ex[e].code \notin DOMAIN grants

CodeWasIssued == \A e \in Exchanges : ex[e].phase \in Running => ex[e].code \in 1 .. codes

NewIsUnissued == \A e \in Exchanges : ex[e].phase = "new" => ~Issued(e)

LateIsRefused == \A e \in Exchanges : ex[e].late => ex[e].phase = "invalid_grant" /\ ~Issued(e)

\* The inductive invariant: what has been answered has left the table, so an exchange
\* that comes in later is refused at once.
IndInv ==
    /\ TypeOK /\ WellFormed(db)
    /\ SpentIsGone /\ DeletedIsGone /\ CodeWasIssued /\ NewIsUnissued /\ LateIsRefused

\* What is known of a code that was accepted, while its row is there and once it is gone.
CodeKnown ==
    \A e \in Exchanges : ex[e].phase \in {"validated", "challenged", "confirmed", "saved", "fetched"} =>
        IF ex[e].code \in DOMAIN grants THEN ex[e].until = grants[ex[e].code].expires
        ELSE \/ \E f \in Exchanges \ {e} : ex[f].code = ex[e].code /\ Issued(f)
             \/ ex[e].until < now

IssuedWhenSaved ==
    \A e \in Exchanges : /\ ex[e].phase \in {"saved", "fetched", "deleted"} => Issued(e)
                         /\ ex[e].issued \in 0 .. db.atSeq

-----------------------------------------------------------------------------
(***************************************************************************)
(* Why WithinOneConsent holds: a scope stays within a consent on every way *)
(* from the form to a token, the silent approvals found and the exchanges  *)
(* under way included.                                                     *)
(***************************************************************************)
Approved(scope) == \E approved \in consented : scope \subseteq approved

Carried == {grants[c].scope : c \in DOMAIN grants} \cup {db.at[a].scope : a \in DOMAIN db.at} \cup asking
             \cup {ex[e].scope : e \in {e \in Exchanges : ex[e].phase \in {"validated", "challenged", "confirmed"}}}

ConsentInv == SkipAuthorization \/ \A scope \in Carried : Approved(scope)

=============================================================================
