--------------------------------- MODULE Logout ---------------------------------
(***************************************************************************)
(* RP-initiated logout beside the token endpoint.  ID tokens live in a     *)
(* table of their own; an access token may carry one, and deleting an ID   *)
(* token cascades to it.  A logout is validated when it arrives and, if    *)
(* the user is prompted, again when the form comes back; then do_logout    *)
(* deletes the user's tokens statement by statement.  The loop of          *)
(* clear_expired over ID tokens runs between all of this.                  *)
(*                                                                         *)
(* One user's ID tokens and one application's are enough: every check      *)
(* compares a user or an application with the ID token's own.              *)
(***************************************************************************)
EXTENDS RefreshRefinement, Applications

CONSTANTS
    Logouts,        \* the logout requests, each served once
    Clients,        \* client_id -> application; "mine" is the one tokens are issued to
    Inputs,         \* the (client, uri) pairs logout requests send
    AlwaysPrompt, StrictUris, AcceptExpired, DeleteTokens,  \* OIDC_RP_INITIATED_LOGOUT_*
    IdLife,         \* ID_TOKEN_EXPIRE_SECONDS
    Leeway,         \* by how much jwcrypto still accepts an expired JWT: 60 seconds
    Grantor         \* the requests of the other grants, which issue one pair after the other

\* An ID token names an application that exists: its row goes with the application's.
ASSUME LogoutAssumption ==
    IdLife \in Nat /\ Leeway \in Nat /\ "mine" \in DOMAIN Clients /\ Grantor \notin Requests

VARIABLES
    col,        \* what TokenStore leaves out of an access row: its user and its ID token
    draft,      \* the ID tokens saved for an access token that is not saved yet
    idt,        \* the ID-token table: key -> expires
    idSeq,      \* the sequence its keys come from
    idBatch,    \* the batch of clear_expired, {} between two
    lo          \* the logout requests

idVars     == <<col, draft, idt, idSeq, idBatch>>
logoutVars == <<vars, idVars, lo>>

NoUser == "none"        \* client credentials: the access token belongs to nobody
Users  == {"owner", "other", "anonymous"}
NoUri  == [scheme |-> "", host |-> "", port |-> NoPort, path |-> "", query |-> {}, fragment |-> ""]

\* A row is stale if its ID token had expired when it was inserted: history.
AccessColumns == [user : {"owner", NoUser}, id : Nat, stale : BOOLEAN]

\* id is the ID token saved, link what _load_id_token returned once it was loaded.
Draft   == [id : Nat, link : Nat, loaded : BOOLEAN]
NoDraft == [id |-> NULL, link |-> NULL, loaded |-> FALSE]
Issuers == Requests \cup {Grantor}

\* hint, client and uri are the parameters, with hint the key of the ID token: one
\* beyond the sequence stands for a token of another issuer.  refreshes and accesses are
\* the lists still to be deleted, token the element in hand, session the user logged
\* in at the last request; the last three fields are history.
NoToken   == [access |-> NULL, id |-> NULL]
NewLogout == [phase |-> "new", hint |-> NULL, client |-> "", uri |-> NoUri, user |-> NoUser,
              refreshes |-> {}, accesses |-> {}, token |-> NoToken, session |-> "anonymous",
              agreed |-> FALSE, hadRefresh |-> {}, hadAccess |-> {}]

LogoutInit ==
    /\ Init
    /\ col = [a \in {} |-> NULL] /\ draft = [w \in Issuers |-> NoDraft]
    /\ idt = [i \in {} |-> NULL] /\ idSeq = 0 /\ idBatch = {}
    /\ lo = [l \in Logouts |-> NewLogout]

-----------------------------------------------------------------------------
(***************************************************************************)
(* The token endpoint.  finalize_id_token saves the ID token in a          *)
(* transaction of its own, before save_bearer_token; _create_access_token  *)
(* loads it again and then inserts the row that carries it.  A request     *)
(* that reuses an access token or answers with an earlier one links        *)
(* nothing.                                                                *)
(***************************************************************************)
SaveIdToken(w) ==
    /\ draft[w] = NoDraft
    /\ IF w = Grantor THEN db.atSeq < MaxIssued ELSE req[w].phase = "scoped"
    /\ idSeq' = idSeq + 1
    /\ idt' = Insert(idt, idSeq + 1, now + IdLife)
    /\ draft' = [draft EXCEPT ![w] = [id |-> idSeq + 1, link |-> NULL, loaded |-> FALSE]]
    /\ UNCHANGED <<vars, col, idBatch, lo>>

\* A JWT is accepted until the leeway after its exp.
Accepted(id) == id \in DOMAIN idt /\ now <= idt[id] + Leeway

Creating(w) == IF w = Grantor THEN TRUE ELSE req[w].phase = "read" /\ req[w].previous = NULL

\* OAuth2Validator._load_id_token: None if the JWT has expired or its row is gone.
LoadDraft(w) ==
    /\ draft[w] # NoDraft /\ ~draft[w].loaded /\ Creating(w)
    /\ draft' = [draft EXCEPT ![w].loaded = TRUE,
                             ![w].link = IF Accepted(draft[w].id) THEN draft[w].id ELSE NULL]
    /\ UNCHANGED <<vars, col, idt, idSeq, idBatch, lo>>

Linkable(w) == draft[w] = NoDraft \/ (draft[w].loaded /\ draft[w].link \in DOMAIN idt \cup {NULL})

\* What a step of the token endpoint does here: the access token it inserts carries what
\* was loaded, and whoever has answered has no draft.
Carry(w, user) ==
    LET new == DOMAIN db'.at \ DOMAIN db.at
        row == [user |-> user, id |-> draft[w].link,
                stale |-> draft[w].link # NULL /\ idt[draft[w].link] < now]
    IN  /\ new # {} => Linkable(w)
        /\ user = NoUser => /\ new # {} /\ draft[w] = NoDraft
                            /\ \A t \in DOMAIN db'.rt : db'.rt[t].access \notin new
        /\ col' = [a \in DOMAIN db'.at |-> IF a \in new THEN row ELSE col[a]]
        /\ draft' = IF new # {} \/ (w # Grantor /\ req'[w].phase \notin Running)
                    THEN [draft EXCEPT ![w] = NoDraft] ELSE draft
        /\ UNCHANGED <<idt, idSeq, idBatch, lo>>

\* The ID token went after it was loaded: the foreign key fails when save_bearer_token
\* commits, IntegrityError is not caught, and everything is rolled back.
InsertFails(w) ==
    /\ draft[w].loaded /\ draft[w].link \notin DOMAIN idt \cup {NULL} /\ Creating(w)
    /\ draft' = [draft EXCEPT ![w] = NoDraft]
    /\ IF w = Grantor THEN UNCHANGED vars ELSE Answer(w, "server_error")
    /\ UNCHANGED <<col, idt, idSeq, idBatch, lo>>

Served ==
    \/ \E r \in Requests : Step(r) /\ Carry(r, "owner")
    \/ Environment /\ \E user \in {"owner", NoUser} : Carry(Grantor, user)
    \/ \E w \in Issuers : SaveIdToken(w) \/ LoadDraft(w) \/ InsertFails(w)

-----------------------------------------------------------------------------
(***************************************************************************)
(* Validation.                                                             *)
(***************************************************************************)
\* _load_id_token of views/oidc.py: signed by the key of an application, in the table,
\* unexpired if that matters.
Loadable(hint) == hint \in DOMAIN idt /\ (AcceptExpired \/ Accepted(hint))

\* validate_post_logout_redirect_uri.
PostLogoutUriError(app, uri) ==
    \/ uri.scheme = "" \/ uri.scheme \notin RedirectSchemes
    \/ StrictUris /\ uri.scheme = "http" /\ app.type # "confidential"
    \/ ~RedirectToUriAllowed(uri, app.logouts)

RequestApplication(hint, client) ==
    IF client # "" THEN client ELSE IF hint # NULL THEN "mine" ELSE ""

\* What RPInitiatedLogoutView.validate_logout_request raises, or "".
LogoutError(hint, client, uri) ==
    LET app == RequestApplication(hint, client)
    IN  CASE hint # NULL /\ ~Loadable(hint)                  -> "invalid_id_token"
          [] hint # NULL /\ Loadable(hint) /\ client \notin {"", "mine"} -> "client_mismatch"
          [] hint = NULL /\ client # "" /\ client \notin DOMAIN Clients  -> "server_error"
          [] OTHER -> IF uri = NoUri THEN ""
                      ELSE IF app = "" THEN "invalid_client"
                      ELSE IF PostLogoutUriError(Clients[app], uri) THEN "invalid_uri" ELSE ""

PromptWithoutHint(hint, session) == AlwaysPrompt \/ hint = NULL     \* mutant: any hint will do

TokenUser(hint) == IF hint = NULL THEN NoUser ELSE "owner"

MustPrompt(hint, session) == AlwaysPrompt \/ TokenUser(hint) # session

\* The deprecated function of the same name: <<error, prompt, uri, application, user>>.
DeprecatedValidate(hint, client, uri, session) ==
    LET fail(error) == <<error, FALSE, NoUri, "", NoUser>>
        app    == IF client # "" THEN client ELSE IF hint # NULL THEN "mine" ELSE ""
        prompt == ~(hint # NULL /\ session = "owner")
    IN  IF hint # NULL /\ ~Loadable(hint) THEN fail("invalid_id_token")
        ELSE IF hint # NULL /\ client # "" /\ client # "mine" THEN fail("client_mismatch")
        ELSE IF client # "" /\ client \notin DOMAIN Clients THEN fail("server_error")
        ELSE IF uri # NoUri /\ app = "" THEN fail("invalid_client")
        ELSE IF uri # NoUri
                /\ \/ uri.scheme = ""
                   \/ StrictUris /\ uri.scheme = "http" /\ Clients[app].type # "confidential"
                   \/ uri.scheme \notin RedirectSchemes
                   \/ ~RedirectToUriAllowed(uri, Clients[app].logouts)
        THEN fail("invalid_uri")
        ELSE <<"", prompt \/ AlwaysPrompt, uri, app, IF hint # NULL THEN "owner" ELSE NoUser>>

-----------------------------------------------------------------------------
(***************************************************************************)
(* The view.                                                               *)
(***************************************************************************)
LogoutGoes(l, fields) ==
    /\ lo' = [lo EXCEPT ![l] = fields]
    /\ UNCHANGED <<vars, idVars>>

Ends(phase) == [NewLogout EXCEPT !.phase = phase]

\* do_logout: only tokens of somebody logged in, or named by the ID token, are deleted.
Begin(x) ==
    LET user == IF TokenUser(x.hint) = NoUser THEN x.session ELSE TokenUser(x.hint)
    IN  IF DeleteTokens /\ user # "anonymous"
        THEN [x EXCEPT !.user = user, !.phase = "list refresh", !.uri = NoUri, !.client = "", !.hint = NULL]
        ELSE Ends("logged_out")

Get(l, hint, input, session) ==
    LET x     == [lo[l] EXCEPT !.hint = hint, !.client = input[1], !.uri = input[2], !.session = session]
        error == LogoutError(x.hint, x.client, x.uri)
    IN  /\ lo[l].phase = "new"
        /\ LogoutGoes(l, IF error # "" THEN Ends(error)
                         ELSE IF MustPrompt(hint, session) THEN [x EXCEPT !.phase = "prompted"]
                         ELSE Begin(x))

\* form_valid: everything again, for whoever is logged in by now.
FormValid(l, allow, session) ==
    LET x     == [lo[l] EXCEPT !.session = session, !.agreed = allow]
        error == LogoutError(x.hint, x.client, x.uri)
    IN  /\ x.phase = "prompted"
        /\ LogoutGoes(l, IF error # "" THEN Ends(error)
                         ELSE IF MustPrompt(x.hint, session) /\ ~allow THEN Ends("denied")
                         ELSE Begin(x))

AccessOf(user) == {a \in DOMAIN db.at : col[a].user = user}

ListRefreshLazily(l) ==              \* mutant: a queryset, evaluated when the accesses are gone
    /\ lo[l].phase = "list refresh"
    /\ LogoutGoes(l, [lo[l] EXCEPT !.phase = "list access",
         !.hadRefresh = {t \in DOMAIN db.rt : db.rt[t].access \in AccessOf(lo[l].user)}])

ListRefresh(l) ==
    LET bound == {t \in DOMAIN db.rt : db.rt[t].access \in AccessOf(lo[l].user)}
    IN  /\ lo[l].phase = "list refresh"
        /\ LogoutGoes(l, [lo[l] EXCEPT !.phase = "list access", !.refreshes = bound, !.hadRefresh = bound])

\* The loop evaluates access_tokens_to_delete: a second statement.
ListAccess(l) ==
    LET user == AccessOf(lo[l].user)
    IN  /\ lo[l].phase = "list access"
        /\ LogoutGoes(l, [lo[l] EXCEPT !.phase = "deleting", !.hadAccess = user,
                             !.accesses = {[access |-> a, id |-> col[a].id] : a \in user}])

LoadIdTokenSkipping(l) ==            \* mutant: gives up on an ID token that is still there
    /\ lo[l].phase = "deleting"
    /\ \E token \in lo[l].accesses :
         LogoutGoes(l, IF token.id = NULL
                       THEN [lo[l] EXCEPT !.phase = "found", !.token = token, !.accesses = @ \ {token}]
                       ELSE [lo[l] EXCEPT !.phase = "server_error"])

\* token.id_token follows the foreign key the list was read with; another logout, or
\* clear_expired after the access token was revoked, may have deleted the ID token since,
\* and IDToken.DoesNotExist is not caught: the rest of both lists is left as it is.
LoadIdToken(l) ==
    /\ lo[l].phase = "deleting"
    /\ \E token \in lo[l].accesses :
         LogoutGoes(l, IF token.id \in DOMAIN idt \cup {NULL}
                       THEN [lo[l] EXCEPT !.phase = "found", !.token = token, !.accesses = @ \ {token}]
                       ELSE [lo[l] EXCEPT !.phase = "server_error"])

\* Deletions, of access tokens by key and of ID tokens with the access tokens that carry them.
Carrying(ids) == {a \in DOMAIN db.at : col[a].id \in ids \ {NULL}}

DeleteCascading(A, ids) ==
    LET gone == A \cup Carrying(ids)
    IN  /\ \A t \in DOMAIN db.rt : db.rt[t].access \in gone => Unlocked(t)
        /\ db' = DeleteAccess(db, gone)
        /\ col' = Restrict(col, DOMAIN db'.at)
        /\ idt' = Restrict(idt, DOMAIN idt \ ids)
        /\ UNCHANGED <<now, req, granted, rev, draft, idSeq>>

RevokeIdOnly(l) ==                   \* mutant: token.revoke() left to a cascade that is not declared
    /\ lo[l].phase = "found"
    /\ idt' = Restrict(idt, DOMAIN idt \ {lo[l].token.id})
    /\ lo' = [lo EXCEPT ![l] = [@ EXCEPT !.phase = "deleting", !.token = NoToken]]
    /\ UNCHANGED <<vars, col, draft, idSeq, idBatch>>

\* token.id_token.revoke() and token.revoke(), which finds nothing left after a cascade.
RevokeToken(l) ==
    /\ lo[l].phase = "found"
    /\ DeleteCascading({lo[l].token.access}, {lo[l].token.id})
    /\ lo' = [lo EXCEPT ![l] = [@ EXCEPT !.phase = "deleting", !.token = NoToken]]
    /\ UNCHANGED idBatch

RevokeListed(l) ==
    /\ lo[l].phase = "deleting" /\ lo[l].accesses = {}
    /\ \E t \in lo[l].refreshes :
         /\ t \in DOMAIN db.rt /\ db.rt[t].revoked = NULL => Unlocked(t)
         /\ db' = RevokeRefresh(db, {t}, now)
         /\ lo' = [lo EXCEPT ![l].refreshes = @ \ {t}]
         /\ col' = Restrict(col, DOMAIN db'.at)
    /\ UNCHANGED <<now, req, granted, rev, draft, idt, idSeq, idBatch>>

\* logout(request) and the redirect.
Finish(l) ==
    /\ lo[l].phase = "deleting" /\ lo[l].accesses = {} /\ lo[l].refreshes = {}
    /\ LogoutGoes(l, [lo[l] EXCEPT !.phase = "logged_out"])

DoLogout(l) ==
    ListRefresh(l) \/ ListAccess(l) \/ LoadIdToken(l) \/ RevokeToken(l) \/ RevokeListed(l) \/ Finish(l)

-----------------------------------------------------------------------------
(***************************************************************************)
(* The ID-token loop of clear_expired.                                     *)
(***************************************************************************)
ExpiredIds     == {i \in DOMAIN idt : idt[i] < now}                  \* mutant: access_token__isnull dropped
ExpiredIdQuery == {i \in DOMAIN idt : idt[i] < now /\ Carrying({i}) = {}}

ReadIds ==
    /\ idBatch = {} /\ idBatch' \in SUBSET ExpiredIdQuery \ {{}}
    /\ UNCHANGED <<vars, col, draft, idt, idSeq, lo>>

DeleteIds ==
    /\ idBatch # {}
    /\ DeleteCascading({}, idBatch)
    /\ idBatch' = {}
    /\ UNCHANGED lo

-----------------------------------------------------------------------------
LogoutNext ==
    \/ Served
    \/ \E l \in Logouts :
        \/ \E hint \in 0 .. idSeq + 1, input \in Inputs, session \in Users : Get(l, hint, input, session)
        \/ \E allow \in BOOLEAN, session \in Users : FormValid(l, allow, session)
        \/ DoLogout(l)
    \/ ReadIds \/ DeleteIds

LogoutSpec == LogoutInit /\ [][LogoutNext]_logoutVars

\* Workers finish the requests they serve, refreshes and logouts.
ServeRefresh(r) == (Serve(r) /\ Carry(r, "owner")) \/ LoadDraft(r) \/ InsertFails(r)

LogoutFairSpec ==
    /\ LogoutSpec
    /\ \A r \in Requests : WF_logoutVars(ServeRefresh(r))
    /\ \A l \in Logouts : WF_logoutVars(DoLogout(l))

-----------------------------------------------------------------------------
(***************************************************************************)
(* Properties.                                                             *)
(***************************************************************************)
Ended == {"logged_out", "denied", "server_error", "invalid_id_token", "client_mismatch",
          "invalid_client", "invalid_uri"}

\* The tables stay well formed, an ID token is carried by at most one access token, and
\* no access token carries one that is gone.
LogoutTypeOK ==
    /\ IsStore(db) /\ ForeignKeys(db)
    /\ col \in [DOMAIN db.at -> AccessColumns] /\ draft \in [Issuers -> Draft]
    /\ DOMAIN idt \subseteq 1 .. idSeq /\ idBatch \subseteq 1 .. idSeq
    /\ \A a \in DOMAIN col : col[a].id \in DOMAIN idt \cup {NULL}
    /\ \A a, b \in DOMAIN col : col[a].id = col[b].id /\ col[a].id # NULL => a = b
    /\ \A l \in Logouts : lo[l].phase \in Ended \cup
         {"new", "prompted", "list refresh", "list access", "deleting", "found"}

\* Whoever is told that they are logged out has lost every token do_logout found, the
\* refresh tokens too, although deleting the access tokens first takes away what the
\* refresh tokens were selected by, and although they were being exchanged meanwhile.
\* Whoever gets a 500 instead has lost an ID token of the list, and the access token that
\* carried it, to somebody else.
LogoutKillsTokens ==
    \A l \in Logouts :
        /\ lo[l].phase = "logged_out" =>
              /\ lo[l].hadAccess \cap DOMAIN db.at = {}
              /\ \A t \in lo[l].hadRefresh \cap DOMAIN db.rt : db.rt[t].revoked # NULL
        /\ lo[l].phase = "server_error" /\ lo[l].user # NoUser =>
              \E k \in lo[l].accesses : k.id \notin DOMAIN idt \cup {NULL} /\ k.access \notin DOMAIN db.at

\* A logout deletes tokens of nobody but the user logged in when it starts deleting or,
\* once whoever is logged in by then has agreed, the user an ID token names: an ID token
\* alone ends nobody else's sessions, however logins change between page and form.
NoSilentLogoutOfOthers ==
    \A l \in Logouts : lo[l].user \notin {NoUser, lo[l].session} => lo[l].agreed

\* The ID-token loop of cleartokens deletes in a later statement, with a cascade: it takes
\* an access token with an ID token only if that had expired before the access token was
\* saved, which the leeway lets happen.  No access token that carried a current ID token
\* is lost, whenever it was saved.
IdLoopSparesAccess ==
    [][DeleteIds => \A a \in DOMAIN db.at \ DOMAIN db'.at : col[a].stale]_logoutVars

\* The deprecated function and the methods that replace it decide alike, when the page is
\* asked for and when its form comes back: the same error, or the same prompt and
\* application, whatever the request and whoever is logged in.
DeprecatedAgrees ==
    (\E l \in Logouts : lo[l].phase \in {"new", "prompted"}) =>
    \A hint \in 0 .. idSeq + 1, input \in Inputs, session \in Users :
        LET old   == DeprecatedValidate(hint, input[1], input[2], session)
            error == LogoutError(hint, input[1], input[2])
        IN  /\ old[1] = error
            /\ error = "" => old = <<"", MustPrompt(hint, session), input[2],
                                    RequestApplication(hint, input[1]), TokenUser(hint)>>

\* A logout that has begun ends with a response: neither the row locks of refreshes nor
\* the tokens and ID tokens of its lists vanishing under it leave it hanging.
LogoutAnswered ==
    \A l \in Logouts : lo[l].phase = "list refresh" ~> lo[l].phase \in Ended

\* "Whether to delete the access, refresh and ID tokens of the user that is being logged
\* out": no refresh token that was there before the logout came in outlives it.
NoRefreshOutlivesLogout ==
    \A l \in Logouts, t \in 1 .. MaxIssued + Cardinality(Requests) :
        [](lo[l].phase = "new" /\ t \in DOMAIN db.rt =>
             [](lo[l].phase = "logged_out" /\ lo[l].user = "owner" /\ t \in DOMAIN db.rt =>
                  db.rt[t].revoked # NULL))

-----------------------------------------------------------------------------
(***************************************************************************)
(* Why: what a logout still owes, and what it knows of the ID tokens it    *)
(* listed, while the tables change under it.                               *)
(***************************************************************************)
Listed == [access : Nat, id : Nat]
LogoutRequest ==
    [phase : Ended \cup {"new", "prompted", "list refresh", "list access", "deleting", "found"},
     hint : Nat, client : {""} \cup {input[1] : input \in Inputs},
     uri : {NoUri} \cup {input[2] : input \in Inputs}, user : Users \cup {NoUser},
     refreshes : SUBSET Nat, accesses : SUBSET Listed, token : Listed, session : Users,
     agreed : BOOLEAN, hadRefresh : SUBSET Nat, hadAccess : SUBSET Nat]

\* Nobody is named before do_logout, and who is named then is logged in or agreed to.
Asked(x) ==
    /\ x.phase \in {"new", "prompted"} => x.user = NoUser
    /\ x.user \notin {NoUser, x.session} => x.agreed

\* Whatever a logout found is gone, or still listed, or in hand.
Owed(x, S) ==
    /\ x.phase # "found" => x.token = NoToken
    /\ x.phase = "logged_out" => x.accesses = {} /\ x.refreshes = {}
    /\ x.hadAccess \subseteq 1 .. S.atSeq /\ x.hadRefresh \subseteq 1 .. S.rtSeq
    /\ \A k \in x.accesses \cup {x.token} : k.access <= S.atSeq
    /\ \A a \in x.hadAccess \cap DOMAIN S.at : \E k \in x.accesses \cup {x.token} : k.access = a
    /\ \A t \in (x.hadRefresh \cap DOMAIN S.rt) \ x.refreshes : S.rt[t].revoked # NULL

\* A listed access token keeps its ID token, which no other ever carries or waits for.
Carried(x, linked, waiting, last) ==
    \A k \in x.accesses \cup {x.token} :
        /\ k.access \in DOMAIN linked => linked[k.access].id = k.id
        /\ k.id # NULL => /\ k.id <= last
                          /\ \A a \in DOMAIN linked : linked[a].id = k.id => a = k.access
                          /\ \A w \in DOMAIN waiting : waiting[w].id # k.id

\* A logout that met a 500 while it deleted had lost an ID token of its list.
Deprived(x, ids) ==
    x.phase = "server_error" /\ x.user # NoUser => \E k \in x.accesses : k.id \notin ids \cup {NULL}

LogoutsInv ==
    /\ lo \in [Logouts -> LogoutRequest]
    /\ \A l \in Logouts : /\ Asked(lo[l]) /\ Owed(lo[l], db)
                           /\ Carried(lo[l], col, draft, idSeq) /\ Deprived(lo[l], DOMAIN idt)

\* An ID token waits for one access token, and is carried by it alone.
DraftsInv ==
    /\ draft \in [Issuers -> Draft]
    /\ \A w \in Issuers :
          /\ draft[w].link \in {NULL, draft[w].id}
          /\ draft[w].id <= idSeq
          /\ draft[w].id # NULL =>
                /\ \A a \in DOMAIN col : col[a].id # draft[w].id
                /\ \A v \in Issuers : draft[v].id = draft[w].id => v = w

\* What carries an ID token of the batch of clear_expired was saved after that was picked.
IdsInv ==
    /\ idSeq \in Nat /\ DOMAIN idt \subseteq 1 .. idSeq /\ idBatch \subseteq 1 .. idSeq
    /\ idt \in [DOMAIN idt -> Nat]
    /\ col \in [DOMAIN db.at -> AccessColumns]
    /\ \A a \in DOMAIN col : col[a].id \in DOMAIN idt \cup {NULL}
    /\ \A a, b \in DOMAIN col : col[a].id = col[b].id /\ col[a].id # NULL => a = b
    /\ \A i \in idBatch \cap DOMAIN idt : idt[i] < now
    /\ \A a \in Carrying(idBatch) : col[a].stale

\* The inductive invariant, with that of the token endpoint.
LogoutInv == IndInv /\ ChainInv /\ AllRows /\ IdsInv /\ DraftsInv /\ LogoutsInv

=============================================================================
