------------------------------ MODULE ClientRequests ------------------------------
(***************************************************************************)
(* What requests do with an Application while its owner edits it in        *)
(* several browser tabs: visits to the authorization endpoint, which       *)
(* validate the redirect URI, log the user in, show the consent page and   *)
(* send a code, and calls that authenticate a client (the token, the       *)
(* revocation and the introspection endpoint).                             *)
(*                                                                         *)
(* Every read of the row is a step: the owner may save or delete it        *)
(* between any two.                                                        *)
(***************************************************************************)
EXTENDS Applications

CONSTANTS
    Visits, Calls,      \* the requests of either kind
    Editors,            \* the browser tabs of the application's owner
    Secrets,            \* the secrets owners choose
    Profiles,           \* what an owner may enter in a form besides the secret
    OtherRow,           \* a second application, which nobody edits
    Uris,               \* the redirect URIs visits ask for
    Listed,             \* the URIs and origins owners list
    MaxRequests,        \* bound: visits and calls in a behaviour
    MaxSaves            \* bound: forms saved in a behaviour

ASSUME BoundsAssumption == MaxRequests \in Nat /\ MaxSaves \in Nat

Grants == {CodeGrant, Implicit, Password, Credentials, Hybrid}

Profile == [type : {"confidential", "public"}, grant : Grants, redirects : SUBSET Listed,
            origins : SUBSET Listed, algorithm : {"", "RS256", "HS256"}]
Row     == [type : {"confidential", "public"}, grant : Grants, redirects : SUBSET Listed,
            origins : SUBSET Listed, algorithm : {"", "RS256", "HS256"},
            secret : [of : Secrets, depth : Nat], hash : BOOLEAN]

\* The other application was saved by the same form.
ASSUME RowsAssumption ==
    /\ Profiles \subseteq Profile
    /\ OtherRow \in Row /\ OtherRow.secret.depth <= 1 /\ Clean(OtherRow)

NoUri  == [scheme |-> "", host |-> "", port |-> NoPort, path |-> "", query |-> {}, fragment |-> ""]
NoRow  == [OtherRow EXCEPT !.grant = "none"]
Nobody == "nobody"          \* a client_id that no application has
NoText == Plain("absent")
NoCredentials == [id |-> Nobody, text |-> NoText]
Texts  == {Plain(s) : s \in Secrets}

VARIABLES
    apps,       \* the application table: client_id -> row
    form,       \* the row each tab shows, or NoRow
    saves,      \* forms saved so far
    visit,      \* visits to the authorization endpoint
    call        \* calls that authenticate a client

vars     == <<apps, form, saves, visit, call>>
editing  == <<apps, form, saves>>

NewVisit == [phase |-> "new", uri |-> NoUri, response |-> "code", prompt |-> "", user |-> FALSE]
NewCall  == [phase |-> "new", kind |-> "introspect", basic |-> NoCredentials,
             body |-> NoCredentials, client |-> Nobody, row |-> NoRow]

Init ==
    /\ apps = [i \in {"other"} |-> OtherRow]
    /\ form = [e \in Editors |-> NoRow]
    /\ saves = 0
    /\ visit = [v \in Visits |-> NewVisit]
    /\ call = [c \in Calls |-> NewCall]

Begun == {v \in Visits : visit[v].phase # "new"} \cup {c \in Calls : call[c].phase # "new"}

-----------------------------------------------------------------------------
(***************************************************************************)
(* The owner: ApplicationRegistration, ApplicationUpdate, ApplicationDelete.*)
(***************************************************************************)
WithSecret(profile, text, hash) ==
    [type |-> profile.type, grant |-> profile.grant, redirects |-> profile.redirects,
     origins |-> profile.origins, algorithm |-> profile.algorithm, secret |-> text, hash |-> hash]

Stored(row) == [row EXCEPT !.secret = PreSave(row.secret, row.hash)]

Save(row) ==
    /\ Clean(row) /\ saves < MaxSaves
    /\ apps' = [i \in DOMAIN apps \cup {"mine"} |-> IF i = "mine" THEN Stored(row) ELSE apps[i]]
    /\ saves' = saves + 1
    /\ UNCHANGED <<visit, call>>

Register(profile, s, hash) ==
    /\ "mine" \notin DOMAIN apps
    /\ Save(WithSecret(profile, Plain(s), hash))
    /\ UNCHANGED form

OpenForm(e) ==
    /\ "mine" \in DOMAIN apps /\ form[e] = NoRow
    /\ form' = [form EXCEPT ![e] = apps["mine"]]
    /\ UNCHANGED <<apps, saves, visit, call>>

\* The form posts every field, those the owner did not touch as the page showed them.
SubmitForm(e, row) ==
    /\ "mine" \in DOMAIN apps /\ form[e] # NoRow
    /\ Save(row)
    /\ form' = [form EXCEPT ![e] = NoRow]

Delete ==
    /\ "mine" \in DOMAIN apps
    /\ apps' = [i \in DOMAIN apps \ {"mine"} |-> apps[i]]
    /\ UNCHANGED <<form, saves, visit, call>>

Edit ==
    \/ \E profile \in Profiles, s \in Secrets, hash \in BOOLEAN : Register(profile, s, hash)
    \/ \E e \in Editors :
        \/ OpenForm(e)
        \/ \E profile \in Profiles : SubmitForm(e, WithSecret(profile, form[e].secret, form[e].hash))
        \/ \E s \in Secrets : SubmitForm(e, [form[e] EXCEPT !.secret = Plain(s)])
        \/ \E hash \in BOOLEAN : SubmitForm(e, [form[e] EXCEPT !.hash = hash])
    \/ Delete

-----------------------------------------------------------------------------
(***************************************************************************)
(* AuthorizationView.                                                      *)
(***************************************************************************)
VisitGoes(v, phase) ==
    /\ visit' = [visit EXCEPT ![v] = [@ EXCEPT !.phase = phase]]
    /\ UNCHANGED <<editing, call>>

\* OAuth2ResponseRedirect raises DisallowedRedirect for a scheme the setting does not spell so.
Redirected(uri, outcome) == IF uri # NoUri /\ uri.scheme \in RedirectSchemes THEN outcome ELSE "disallowed"
Redirect(v, uri, outcome) == VisitGoes(v, Redirected(uri, outcome))

Visit(v, uri, response, prompt, user) ==
    /\ visit[v].phase = "new" /\ Cardinality(Begun) < MaxRequests
    /\ visit' = [visit EXCEPT ![v] = [phase |-> "visiting", uri |-> uri, response |-> response,
                                      prompt |-> prompt, user |-> user]]
    /\ UNCHANGED <<editing, call>>

\* LoginRequiredMixin and handle_no_permission: the parameters are not looked at yet.
NotLoggedIn(v) ==
    /\ visit[v].phase = "visiting" /\ ~visit[v].user
    /\ IF visit[v].prompt = "none" /\ visit[v].uri # NoUri
       THEN Redirect(v, visit[v].uri, "login_required")
       ELSE VisitGoes(v, "login")

Login(v) ==
    /\ visit[v].phase = "login"
    /\ visit' = [visit EXCEPT ![v] = [@ EXCEPT !.phase = "visiting", !.user = TRUE]]
    /\ UNCHANGED <<editing, call>>

\* default_redirect_uri: the only one registered, or an error.
Default(row) == IF Cardinality(row.redirects) = 1 THEN CHOOSE u \in row.redirects : TRUE ELSE NoUri
Asked(row, uri) == IF uri = NoUri THEN Default(row) ELSE uri

\* Anything wrong with the client or the URI is answered with a page, never a redirect.
FatalClientError(uri) ==
    \/ "mine" \notin DOMAIN apps
    \/ /\ "mine" \in DOMAIN apps
       /\ IF uri = NoUri THEN Cardinality(apps["mine"].redirects) > 1
          ELSE ~RedirectToUriAllowed(uri, apps["mine"].redirects)

\* How validate_authorization_request ends the visit, or "": with a page or a redirect.
ValidationError(v) ==
    LET uri == Asked(apps["mine"], visit[v].uri)
    IN  CASE FatalClientError(visit[v].uri) -> "error_page"
          [] ~FatalClientError(visit[v].uri) /\ uri = NoUri -> "server_error"       \* assert False
          [] OTHER -> IF ValidateResponseType(apps["mine"], visit[v].response) THEN ""
                      ELSE Redirected(uri, "error_redirect")

PromptKept(prompt) == prompt                   \* mutant: prompt stays in the URL to return to

\* handle_prompt_login: the login page returns to the same URL without its prompt.
HandlePromptLogin(prompt) == ""

ValidateVisit(v) ==
    /\ visit[v].phase = "visiting" /\ visit[v].user
    /\ visit' = [visit EXCEPT ![v] =
           IF ValidationError(v) # "" THEN [@ EXCEPT !.phase = ValidationError(v)]
           ELSE IF visit[v].prompt = "login"
           THEN [@ EXCEPT !.phase = "login", !.prompt = HandlePromptLogin(visit[v].prompt)]
           ELSE [@ EXCEPT !.phase = "validated", !.uri = Asked(apps["mine"], visit[v].uri)]]
    /\ UNCHANGED <<editing, call>>

\* The application is fetched a second time; nothing catches DoesNotExist.
ShowPage(v) ==
    /\ visit[v].phase = "validated"
    /\ VisitGoes(v, IF "mine" \in DOMAIN apps THEN "shown" ELSE "server_error")

\* form_valid fetches it a third time.
PostForm(v, allow) ==
    /\ visit[v].phase = "shown"
    /\ VisitGoes(v, IF "mine" \notin DOMAIN apps THEN "server_error"
                    ELSE IF allow THEN "allowed" ELSE "refused")

\* create_authorization_response validates the form's values like a new request; the code
\* is stored and sent for the row it read.
SendCode(v) ==
    /\ visit[v].phase = "allowed"
    /\ IF ValidationError(v) # "" THEN VisitGoes(v, ValidationError(v))
       ELSE Redirect(v, Asked(apps["mine"], visit[v].uri), "code")

\* AccessDeniedError is raised before anything is validated again.
Deny(v) ==
    /\ visit[v].phase = "refused"
    /\ Redirect(v, visit[v].uri, "error_redirect")

ServeVisit(v) ==
    NotLoggedIn(v) \/ ValidateVisit(v) \/ ShowPage(v) \/ SendCode(v) \/ Deny(v)

-----------------------------------------------------------------------------
(***************************************************************************)
(* Client authentication.  basic and body are what the Authorization       *)
(* header and the request body carry, client and row are request.client.   *)
(***************************************************************************)
CallGoes(c, phase) ==
    /\ call' = [call EXCEPT ![c] = [@ EXCEPT !.phase = phase]]
    /\ UNCHANGED <<editing, visit>>

\* Only client_credentials and the introspection endpoint always authenticate.
Receive(c, kind, basic, body) ==
    /\ call[c].phase = "new" /\ Cardinality(Begun) < MaxRequests
    /\ call' = [call EXCEPT ![c] = [@ EXCEPT !.kind = kind, !.basic = basic, !.body = body,
                 !.phase = IF kind \in {"client_credentials", "introspect"} THEN "basic" ELSE "received"]]
    /\ UNCHANGED <<editing, visit>>

LoadedOrNamed(c, id) ==                        \* mutant: request.client is set before the lookup
    IF call[c].client # Nobody THEN <<call[c].client, call[c].row>>
    ELSE IF id \in DOMAIN apps THEN <<id, apps[id]>> ELSE <<id, NoRow>>

\* _load_application: request.client, once it is set, whatever client_id says.
Loaded(c, id) ==
    IF call[c].client # Nobody THEN <<call[c].client, call[c].row>>
    ELSE IF id \in DOMAIN apps THEN <<id, apps[id]>> ELSE <<Nobody, NoRow>>

LoadThen(c, loaded, phase) ==
    /\ call' = [call EXCEPT ![c] = [@ EXCEPT !.client = loaded[1], !.row = loaded[2], !.phase = phase]]
    /\ UNCHANGED <<editing, visit>>

ClientAuthenticationRequired(c) ==
    LET x      == call[c]
        loaded == Loaded(c, x.body.id)
    IN  /\ x.phase = "received"
        /\ IF x.basic # NoCredentials \/ (x.body.id # Nobody /\ x.body.text # NoText)
           THEN CallGoes(c, "basic")
           ELSE LoadThen(c, loaded, IF loaded[1] # Nobody /\ loaded[2].type # "confidential"
                                    THEN "by client_id" ELSE "basic")

AuthenticateBasicAuth(c) ==
    LET x      == call[c]
        loaded == Loaded(c, x.basic.id)
    IN  /\ x.phase = "basic"
        /\ IF x.basic = NoCredentials THEN CallGoes(c, "body")
           ELSE LoadThen(c, loaded, IF loaded[1] = x.basic.id /\ x.basic.id # Nobody
                                       /\ CheckSecret(x.basic.text, loaded[2].secret)
                                    THEN "authenticated" ELSE "body")

\* A client that did not authenticate; the introspection view takes an access token instead.
Rejected(c) == IF call[c].kind = "introspect" THEN {"served by token", "forbidden"} ELSE {"invalid_client"}

PublicNeedsNoSecret(c) ==                      \* mutant: a public client passes wherever it is named
    LET x      == call[c]
        loaded == Loaded(c, x.body.id)
    IN  /\ x.phase = "body"
        /\ \E phase \in IF /\ loaded[1] # Nobody
                          /\ \/ loaded[2].type = "public"
                             \/ x.body.text # NoText /\ CheckSecret(x.body.text, loaded[2].secret)
                       THEN {"authenticated"} ELSE Rejected(c) :
             LoadThen(c, loaded, phase)

AuthenticateRequestBody(c) ==
    LET x      == call[c]
        loaded == Loaded(c, x.body.id)
    IN  /\ x.phase = "body"
        /\ \E phase \in IF /\ loaded[1] # Nobody
                          /\ x.body.text # NoText /\ CheckSecret(x.body.text, loaded[2].secret)
                       THEN {"authenticated"} ELSE Rejected(c) :
             LoadThen(c, loaded, phase)

AuthenticateClientId(c) ==
    LET loaded == Loaded(c, call[c].body.id)
    IN  /\ call[c].phase = "by client_id"
        /\ LoadThen(c, loaded, IF loaded[1] # Nobody /\ loaded[2].type # "confidential"
                               THEN "authenticated" ELSE "invalid_client")

\* validate_grant_type for the token endpoint; the introspection view is entered.
Proceed(c) ==
    LET x == call[c]
    IN  /\ x.phase = "authenticated"
        /\ CallGoes(c, IF x.kind = "introspect" \/ ValidateGrantType(x.row, x.kind)
                       THEN "served" ELSE "unauthorized_client")

ServeCall(c) ==
    \/ ClientAuthenticationRequired(c) \/ AuthenticateBasicAuth(c) \/ AuthenticateRequestBody(c)
    \/ AuthenticateClientId(c) \/ Proceed(c)

-----------------------------------------------------------------------------
Kinds     == {"authorization_code", "client_credentials", "introspect"}
Responses == {"code", "token"}
Prompts   == {"", "none", "login"}
Presented == [id : {"mine", "other", Nobody}, text : Texts]
Bodies    == [id : {"mine", "other", Nobody}, text : Texts \cup {NoText}]

Next ==
    \/ Edit
    \/ \E v \in Visits :
        \/ \E uri \in Uris \cup {NoUri}, response \in Responses, prompt \in Prompts, user \in BOOLEAN :
             Visit(v, uri, response, prompt, user)
        \/ ServeVisit(v) \/ Login(v)
        \/ \E allow \in BOOLEAN : PostForm(v, allow)
    \/ \E c \in Calls :
        \/ \E kind \in Kinds, basic \in Presented \cup {NoCredentials}, body \in Bodies :
             Receive(c, kind, basic, body)
        \/ ServeCall(c)

Spec == Init /\ [][Next]_vars

\* Workers finish what they serve, and a user asked to log in does.
FairSpec == Spec /\ \A v \in Visits : WF_vars(ServeVisit(v)) /\ WF_vars(Login(v))

-----------------------------------------------------------------------------
(***************************************************************************)
(* Properties.                                                             *)
(***************************************************************************)
Visited == [phase : {"new", "visiting", "login", "validated", "shown", "allowed", "refused"} \cup
                     {"code", "error_redirect", "login_required", "disallowed", "error_page", "server_error"},
            uri : Uris \cup Listed \cup {NoUri}, response : Responses, prompt : Prompts, user : BOOLEAN]
Called  == [phase : {"new", "received", "basic", "body", "by client_id", "authenticated", "served"} \cup
                     {"served by token", "forbidden", "invalid_client", "unauthorized_client"},
            kind : Kinds, basic : Presented \cup {NoCredentials}, body : Bodies,
            client : {"mine", "other", Nobody}, row : Row \cup {NoRow}]

\* The rows of the table are rows forms can produce, no tab shows another kind of row,
\* and request.client is set exactly when an application was loaded.
TypeOK ==
    /\ DOMAIN apps \subseteq {"mine", "other"} /\ apps \in [DOMAIN apps -> Row]
    /\ form \in [Editors -> Row \cup {NoRow}] /\ saves \in 0 .. MaxSaves
    /\ visit \in [Visits -> Visited]
    /\ call \in [Calls -> Called]
    /\ \A c \in Calls : (call[c].client = Nobody) = (call[c].row = NoRow)

\* Whatever sequence of saves a row went through (the stored hash posted back by a tab
\* that did not touch it, hash_client_secret switched off and on again), the secret its
\* owner typed still authenticates the client.
SecretStillWorks ==
    \A i \in DOMAIN apps : CheckSecret(Plain(apps[i].secret.of), apps[i].secret)

\* DisallowedRedirect, for a user who is logged in: the setting spells the scheme of the URI
\* with capitals, which clean accepts.
RefusedForCapitals(x) ==
    x.phase = "disallowed" /\ x.user /\ x.uri # NoUri => x.uri.scheme \in LoweredSchemes \ RedirectSchemes

\* A form that was saved leaves an application that works: a logged-in user's visit ends
\* in DisallowedRedirect only for such a scheme, however the row was edited since the URI
\* was matched with it, and each registered URI and origin matches the list it is in.
RegisteredUrisServe ==
    /\ \A v \in Visits : RefusedForCapitals(visit[v])
    /\ \A i \in DOMAIN apps :
          /\ \A uri \in apps[i].redirects : RedirectToUriAllowed(uri, apps[i].redirects)
          /\ \A origin \in apps[i].origins : IsOriginAllowed(origin, apps[i].origins)

\* A code goes only where the row, as the request that posts the form reads it to validate
\* the form's values, allows: to a registered URI, give or take further parameters and the
\* port of a loopback address, however the owner edited it since the page was shown.
CodeOnlyToRegistered ==
    [][\A v \in Visits : visit[v].phase # "code" /\ visit'[v].phase = "code" =>
          "mine" \in DOMAIN apps /\ \E reg \in apps["mine"].redirects :
              LET uri == visit'[v].uri
              IN  /\ <<uri.scheme, uri.host, uri.path>> = <<reg.scheme, reg.host, reg.path>>
                  /\ reg.query \subseteq uri.query
                  /\ uri.port # reg.port => reg.host \in {"127.0.0.1", "::1"}]_vars

\* Whoever is served as a client named that client and, unless it is a public client
\* at the token endpoint or came with an access token, presented its secret: a mixture of header
\* and body credentials of different clients never adds up to anything else.
ServedAsItself ==
    \A c \in Calls :
        LET x == call[c]
            texts == (IF x.basic = NoCredentials THEN {} ELSE {x.basic.text}) \cup ({x.body.text} \ {NoText})
            ids   == (IF x.basic = NoCredentials THEN {} ELSE {x.basic.id}) \cup {x.body.id}
        IN  x.phase = "served" =>
              /\ x.client \in ids \ {Nobody}
              /\ \/ \E text \in texts : CheckSecret(text, x.row.secret)
                 \/ x.kind = "authorization_code" /\ x.row.type = "public" /\ texts = {}

\* A visit is not sent to the login page over and over: whatever prompt it came with,
\* it is answered with a page or a redirect.
LoginEnds ==
    \A v \in Visits : visit[v].phase = "visiting" ~> visit[v].phase \notin {"visiting", "login"}

-----------------------------------------------------------------------------
(***************************************************************************)
(* Why: what the forms keep true of rows, and what a request has been      *)
(* found to be by the time its next statement runs.                        *)
(***************************************************************************)
\* A row passed Application.clean and its secret is hashed at most once; a tab shows a row
\* of the table as it was at some time.
FromForm(row)  == Clean(row) /\ row.secret.depth <= 1
SavedRows      == \A i \in DOMAIN apps : FromForm(apps[i])
ShownRows      == \A e \in Editors : form[e] # NoRow => form[e].secret.depth <= 1

\* A visit is shown nothing, and posts nothing, before a redirect URI has been settled, one
\* that a row which passed clean listed.
KnownUri(x) ==
    /\ x.phase \in {"validated", "shown", "allowed", "refused"} =>
          x.uri # NoUri /\ x.uri.scheme \in LoweredSchemes
    /\ RefusedForCapitals(x)

UriSettled == \A v \in Visits : KnownUri(visit[v])

GivenTexts(x) == (IF x.basic = NoCredentials THEN {} ELSE {x.basic.text}) \cup ({x.body.text} \ {NoText})
GivenIds(x)   == (IF x.basic = NoCredentials THEN {} ELSE {x.basic.id}) \cup {x.body.id}

PassesAs(x) == \/ \E text \in GivenTexts(x) : CheckSecret(text, x.row.secret)
               \/ x.kind = "authorization_code" /\ x.row.type = "public" /\ GivenTexts(x) = {}

\* request.client is an application the call named, and by the time it counts as
\* authenticated the call has shown what it takes to be that application.
CallInv(x) ==
    /\ x.client # Nobody => x.client \in GivenIds(x)
    /\ x.phase \in {"new", "received"} => x.client = Nobody
    /\ x.phase = "received" => x.kind = "authorization_code"
    /\ x.phase = "by client_id" => x.kind = "authorization_code" /\ GivenTexts(x) = {} /\ x.client # Nobody
    /\ x.phase \in {"authenticated", "served"} => x.client # Nobody /\ PassesAs(x)

IndInv ==
    /\ TypeOK /\ SavedRows /\ ShownRows /\ UriSettled
    /\ \A c \in Calls : CallInv(call[c])

=============================================================================
