------------------------ MODULE ClientRequests_proofs ------------------------
(***************************************************************************)
(* Proofs about ClientRequests: the applications of the table are what     *)
(* their forms promise, a code goes only where the row allows, and a call  *)
(* is served as the client whose secret it presented, for any number of    *)
(* visits, calls and editors, and any rows the forms accept.               *)
(***************************************************************************)
EXTENDS ClientRequests, FiniteSetTheorems, TLAPS

-----------------------------------------------------------------------------
(***************************************************************************)
(* Rows.                                                                   *)
(***************************************************************************)
\* The rows that stand for nothing are no rows of the table.
LEMMA Placeholders ==
    /\ NoRow \notin Row /\ OtherRow # NoRow
    /\ NewVisit \in Visited
    /\ NewCall.client = Nobody /\ NewCall.row = NoRow /\ NewCall \in Called
<1>1. NoRow.grant = "none"
  BY RowsAssumption DEF NoRow, Row
<1>2. NoRow \notin Row
  <2>1. "none" \notin Grants
    BY DEF Grants, CodeGrant, Implicit, Password, Credentials, Hybrid
  <2> QED
    BY <1>1, <2>1 DEF Row
<1>4. NewVisit \in Visited
  BY DEF NewVisit, Visited, Responses, Prompts
<1>5. NoCredentials \in Bodies
  BY DEF NoCredentials, Bodies
<1>6. NewCall.client = Nobody /\ NewCall.row = NoRow /\ NewCall \in Called
  BY <1>5 DEF NewCall, Called, Kinds
<1> QED
  BY <1>2, <1>4, <1>6, RowsAssumption

\* ClientSecretField.pre_save hashes a secret once: what it stores is of the same secret,
\* and hashed at most once whether the form posted a new secret or the stored hash.
LEMMA SavedRow ==
    ASSUME NEW row \in Row, Clean(row), row.secret.depth <= 1
    PROVE  Stored(row) \in Row /\ FromForm(Stored(row))
<1> DEFINE text == PreSave(row.secret, row.hash)
<1>1. row.secret \in [of : Secrets, depth : Nat]
  BY DEF Row
<1>2. text \in [of : Secrets, depth : Nat] /\ text.depth <= 1
  <2>1. CASE row.hash /\ ~IsHash(row.secret)
    <3>1. text = [row.secret EXCEPT !.depth = @ + 1] /\ row.secret.depth = 0
      BY <1>1, <2>1 DEF PreSave, Hash, IsHash
    <3> QED
      BY <1>1, <3>1
  <2>2. CASE ~(row.hash /\ ~IsHash(row.secret))
    BY <1>1, <2>2 DEF PreSave
  <2> QED
    BY <2>1, <2>2
<1>3. Stored(row) = [row EXCEPT !.secret = text]
  BY DEF Stored
<1> HIDE DEF text
<1>4. Stored(row) \in Row /\ Stored(row).secret = text
  BY <1>2, <1>3 DEF Row
<1>5. /\ Stored(row).type = row.type /\ Stored(row).grant = row.grant
      /\ Stored(row).redirects = row.redirects /\ Stored(row).origins = row.origins
      /\ Stored(row).algorithm = row.algorithm
  BY <1>3 DEF Row
<1>6. Clean(Stored(row))
  BY <1>5 DEF Clean
<1> QED
  BY <1>2, <1>4, <1>6 DEF FromForm

\* The secret an owner typed checks against what the row holds of it.
LEMMA SecretChecks ==
    ASSUME NEW row \in Row, FromForm(row)
    PROVE  CheckSecret(Plain(row.secret.of), row.secret)
<1>1. row.secret \in [of : Secrets, depth : Nat] /\ row.secret.depth <= 1
  BY DEF Row, FromForm
<1>2. row.secret = [of |-> row.secret.of, depth |-> row.secret.depth]
  BY <1>1
<1>3. CASE row.secret.depth = 0
  BY <1>2, <1>3 DEF CheckSecret, IsHash, Plain
<1>4. CASE row.secret.depth = 1
  BY <1>2, <1>4 DEF CheckSecret, IsHash, Plain, Hash
<1> QED
  BY <1>1, <1>3, <1>4

\* What Application.clean accepts serves the URIs and the origins it lists.
LEMMA CleanRowServes ==
    ASSUME NEW row \in Row, Clean(row)
    PROVE  /\ \A uri \in row.redirects :
                RedirectToUriAllowed(uri, row.redirects) /\ uri.scheme \in LoweredSchemes
           /\ \A origin \in row.origins : IsOriginAllowed(origin, row.origins)
<1>2. ASSUME NEW uri \in row.redirects
      PROVE  RedirectToUriAllowed(uri, row.redirects) /\ uri.scheme \in LoweredSchemes
  <2>1. SameEndpoint(uri, uri) /\ uri.query \subseteq uri.query
    BY DEF SameEndpoint
  <2> QED
    BY <2>1 DEF RedirectToUriAllowed, Clean, ValidUri
<1>3. ASSUME NEW origin \in row.origins
      PROVE  IsOriginAllowed(origin, row.origins)
  BY DEF IsOriginAllowed, Clean, ValidUri
<1> QED
  BY <1>2, <1>3

\* A requested URI that matches is a registered one, but for parameters added to it and
\* the port of a loopback address.
LEMMA AllowedIsRegistered ==
    ASSUME NEW uri, NEW allowed, RedirectToUriAllowed(uri, allowed)
    PROVE  \E reg \in allowed :
              /\ <<uri.scheme, uri.host, uri.path>> = <<reg.scheme, reg.host, reg.path>>
              /\ reg.query \subseteq uri.query
              /\ uri.port # reg.port => reg.host \in {"127.0.0.1", "::1"}
  BY DEF RedirectToUriAllowed, SameEndpoint, AnyPort

-----------------------------------------------------------------------------
(***************************************************************************)
(* The owner's steps.                                                      *)
(***************************************************************************)
\* What IndInv says of the requests: it holds on whatever the owner does to the rows.
RequestsOK ==
    /\ visit \in [Visits -> Visited] /\ UriSettled
    /\ call \in [Calls -> Called]
    /\ \A c \in Calls : (call[c].client = Nobody) = (call[c].row = NoRow)
    /\ \A c \in Calls : CallInv(call[c])

\* What IndInv says of the rows: it holds on whatever a request does.
RowsOK ==
    /\ DOMAIN apps \subseteq {"mine", "other"} /\ apps \in [DOMAIN apps -> Row]
    /\ form \in [Editors -> Row \cup {NoRow}] /\ saves \in 0 .. MaxSaves
    /\ SavedRows /\ ShownRows

\* The two halves of the inductive invariant, which no step mixes.
LEMMA Halves == IndInv <=> RowsOK /\ RequestsOK
  BY DEF IndInv, TypeOK, RowsOK, RequestsOK

\* The same in the next state.
LEMMA HalvesNext == IndInv' <=> RowsOK' /\ RequestsOK'
  BY DEF IndInv, TypeOK, RowsOK, RequestsOK

\* Steps of the owner leave the requests as they are.
LEMMA RequestsStand ==
    ASSUME RequestsOK, UNCHANGED <<visit, call>>
    PROVE  RequestsOK'
  BY DEF RequestsOK, UriSettled

\* Steps of requests leave the rows as they are.
LEMMA RowsStand ==
    ASSUME RowsOK, UNCHANGED editing
    PROVE  RowsOK'
  BY DEF RowsOK, SavedRows, ShownRows, editing

\* No row, nothing shown, no request.
LEMMA InitInv == Init => IndInv
<1> SUFFICES ASSUME Init PROVE IndInv
  OBVIOUS
<1>1. apps \in [DOMAIN apps -> Row] /\ DOMAIN apps = {"other"} /\ apps["other"] = OtherRow
  BY RowsAssumption DEF Init
<1>2. form \in [Editors -> Row \cup {NoRow}] /\ saves \in 0 .. MaxSaves
  BY BoundsAssumption DEF Init
<1>3. RowsOK
  BY <1>1, <1>2, RowsAssumption DEF RowsOK, SavedRows, ShownRows, FromForm, Init
<1>4. visit \in [Visits -> Visited] /\ UriSettled
  <2>1. NewVisit.phase = "new"
    BY DEF NewVisit
  <2> QED
    BY <2>1, Placeholders DEF Init, UriSettled, KnownUri, RefusedForCapitals
<1>5. \A c \in Calls : call[c].client = Nobody /\ call[c].row = NoRow /\ CallInv(call[c])
  <2>1. NewCall.phase = "new"
    BY DEF NewCall
  <2> QED
    BY <2>1, Placeholders DEF Init, CallInv
<1>6. call \in [Calls -> Called]
  BY Placeholders DEF Init
<1>7. RequestsOK
  BY <1>4, <1>5, <1>6 DEF RequestsOK
<1> QED
  BY <1>3, <1>7, Halves

\* A form that passes clean leaves a row that passed it.
LEMMA SaveRows ==
    ASSUME RowsOK, NEW row \in Row, row.secret.depth <= 1, Save(row),
           form' \in [Editors -> Row \cup {NoRow}],
           \A e \in Editors : form'[e] # NoRow => form'[e] = form[e]
    PROVE  RowsOK'
<1> DEFINE kept == Stored(row)
<1>1. kept \in Row /\ FromForm(kept)
  BY SavedRow DEF Save
<1> HIDE DEF kept
<1>2. apps' = [i \in DOMAIN apps \cup {"mine"} |-> IF i = "mine" THEN kept ELSE apps[i]]
  BY DEF Save, kept
<1>3. DOMAIN apps' = DOMAIN apps \cup {"mine"} /\ apps' \in [DOMAIN apps' -> Row]
  BY <1>1, <1>2 DEF RowsOK
<1>4. SavedRows'
  BY <1>1, <1>2, <1>3 DEF RowsOK, SavedRows
<1>5. saves' \in 0 .. MaxSaves
  BY BoundsAssumption DEF Save, RowsOK
<1>6. ShownRows'
  BY DEF RowsOK, ShownRows
<1> QED
  BY <1>3, <1>4, <1>5, <1>6 DEF RowsOK

\* What an owner types is not hashed.
LEMMA TypedSecret ==
    ASSUME NEW s \in Secrets
    PROVE  Plain(s) \in [of : Secrets, depth : Nat] /\ Plain(s).depth = 0
  BY DEF Plain

\* A row is made of the fields of a form and a secret.
LEMMA FormRow ==
    ASSUME NEW profile \in Profiles, NEW text \in [of : Secrets, depth : Nat], NEW hash \in BOOLEAN
    PROVE  WithSecret(profile, text, hash) \in Row /\ WithSecret(profile, text, hash).secret = text
<1>1. profile \in Profile
  BY RowsAssumption
<1> QED
  BY <1>1 DEF WithSecret, Profile, Row

\* Registering: the secret comes plain from the form.
LEMMA RegisterRows ==
    ASSUME RowsOK, NEW profile \in Profiles, NEW s \in Secrets, NEW hash \in BOOLEAN,
           Register(profile, s, hash)
    PROVE  RowsOK'
<1>1. PICK row : row = WithSecret(profile, Plain(s), hash)
  OBVIOUS
<1>2. Plain(s) \in [of : Secrets, depth : Nat] /\ Plain(s).depth = 0
  BY TypedSecret
<1>3. row \in Row /\ row.secret.depth <= 1
  BY <1>1, <1>2, FormRow
<1>4. Save(row) /\ form' = form
  BY <1>1 DEF Register
<1> QED
  BY <1>3, <1>4, SaveRows DEF RowsOK

\* The form of a tab is saved, with what it showed or what its editor typed.
LEMMA SubmitRows ==
    ASSUME RowsOK, NEW e \in Editors, NEW row,
           form[e] # NoRow => row \in Row /\ row.secret.depth <= 1,
           SubmitForm(e, row)
    PROVE  RowsOK'
<1>1. row \in Row /\ row.secret.depth <= 1 /\ Save(row) /\ form' = [form EXCEPT ![e] = NoRow]
  BY DEF SubmitForm
<1>2. /\ form' \in [Editors -> Row \cup {NoRow}]
      /\ \A f \in Editors : form'[f] # NoRow => form'[f] = form[f]
  BY <1>1 DEF RowsOK
<1> QED
  BY <1>1, <1>2, SaveRows

\* The rows a tab can post: the form's fields rewritten around the secret it was shown, the
\* secret retyped, or the checkbox changed.
LEMMA PostedRow ==
    ASSUME RowsOK, NEW e \in Editors, form[e] # NoRow
    PROVE  /\ \A profile \in Profiles :
                WithSecret(profile, form[e].secret, form[e].hash) \in Row
                /\ WithSecret(profile, form[e].secret, form[e].hash).secret.depth <= 1
           /\ \A s \in Secrets :
                [form[e] EXCEPT !.secret = Plain(s)] \in Row
                /\ [form[e] EXCEPT !.secret = Plain(s)].secret.depth <= 1
           /\ \A hash \in BOOLEAN :
                [form[e] EXCEPT !.hash = hash] \in Row
                /\ [form[e] EXCEPT !.hash = hash].secret.depth <= 1
<1>1. PICK shown \in Row : shown = form[e] /\ shown.secret.depth <= 1
  BY DEF RowsOK, ShownRows
<1>2. shown.secret \in [of : Secrets, depth : Nat] /\ shown.hash \in BOOLEAN
  BY DEF Row
<1>3. ASSUME NEW profile \in Profiles
      PROVE  /\ WithSecret(profile, shown.secret, shown.hash) \in Row
             /\ WithSecret(profile, shown.secret, shown.hash).secret.depth <= 1
  BY <1>1, <1>2, FormRow
<1>4. ASSUME NEW s \in Secrets
      PROVE  /\ [shown EXCEPT !.secret = Plain(s)] \in Row
             /\ [shown EXCEPT !.secret = Plain(s)].secret.depth <= 1
  <2>1. PICK text \in [of : Secrets, depth : Nat] : text = Plain(s) /\ text.depth = 0
    BY TypedSecret
  <2>2. [shown EXCEPT !.secret = text] \in Row /\ [shown EXCEPT !.secret = text].secret = text
    BY <1>1, <2>1 DEF Row
  <2> QED
    BY <2>1, <2>2
<1>5. ASSUME NEW hash \in BOOLEAN
      PROVE  /\ [shown EXCEPT !.hash = hash] \in Row
             /\ [shown EXCEPT !.hash = hash].secret.depth <= 1
  BY <1>1 DEF Row
<1> QED
  BY <1>1, <1>3, <1>4, <1>5

\* Whatever the owner does in however many tabs.
LEMMA EditStep ==
    ASSUME IndInv, Edit
    PROVE  IndInv'
<1>1. RowsOK /\ RequestsOK
  BY Halves
<1>2. UNCHANGED <<visit, call>>
  <2>1. \A row : Save(row) => UNCHANGED <<visit, call>>
    BY DEF Save
  <2> QED
    BY <2>1 DEF Edit, Register, OpenForm, SubmitForm, Delete
<1>3. ASSUME NEW profile \in Profiles, NEW s \in Secrets, NEW hash \in BOOLEAN,
             Register(profile, s, hash)
      PROVE  RowsOK'
  BY <1>1, <1>3, RegisterRows, Zenon
<1>4. ASSUME NEW e \in Editors, OpenForm(e)
      PROVE  RowsOK'
  <2>1. "mine" \in DOMAIN apps /\ form' = [form EXCEPT ![e] = apps["mine"]] /\ UNCHANGED <<apps, saves>>
    BY <1>4 DEF OpenForm
  <2>2. form' \in [Editors -> Row \cup {NoRow}]
    BY <1>1, <2>1 DEF RowsOK
  <2>3. ShownRows'
    BY <1>1, <2>1 DEF RowsOK, ShownRows, SavedRows, FromForm
  <2>4. SavedRows'
    BY <1>1, <2>1 DEF RowsOK, SavedRows
  <2> QED
    BY <1>1, <2>1, <2>2, <2>3, <2>4 DEF RowsOK
<1>5. ASSUME NEW e \in Editors,
             \/ \E profile \in Profiles : SubmitForm(e, WithSecret(profile, form[e].secret, form[e].hash))
             \/ \E s \in Secrets : SubmitForm(e, [form[e] EXCEPT !.secret = Plain(s)])
             \/ \E hash \in BOOLEAN : SubmitForm(e, [form[e] EXCEPT !.hash = hash])
      PROVE  RowsOK'
  <2>1. form[e] # NoRow
    BY <1>5 DEF SubmitForm
  <2>2. PICK row : SubmitForm(e, row) /\ row \in Row /\ row.secret.depth <= 1
    BY <1>1, <1>5, <2>1, PostedRow
  <2> QED
    BY <1>1, <2>2, SubmitRows
<1>6. ASSUME Delete PROVE RowsOK'
  <2>1. apps' = [i \in DOMAIN apps \ {"mine"} |-> apps[i]] /\ UNCHANGED <<form, saves>>
    BY <1>6 DEF Delete
  <2>2. DOMAIN apps' = DOMAIN apps \ {"mine"} /\ apps' \in [DOMAIN apps' -> Row]
    BY <1>1, <2>1 DEF RowsOK
  <2>3. SavedRows' /\ ShownRows'
    BY <1>1, <2>1, <2>2 DEF RowsOK, SavedRows, ShownRows
  <2>4. DOMAIN apps' \subseteq {"mine", "other"}
    BY <1>1, <2>2 DEF RowsOK
  <2>5. form' \in [Editors -> Row \cup {NoRow}] /\ saves' \in 0 .. MaxSaves
    BY <1>1, <2>1 DEF RowsOK
  <2> QED
    BY <2>2, <2>3, <2>4, <2>5 DEF RowsOK
<1>7. RowsOK'
  BY <1>3, <1>4, <1>5, <1>6 DEF Edit
<1> QED
  BY <1>1, <1>2, <1>7, RequestsStand, HalvesNext

-----------------------------------------------------------------------------
(***************************************************************************)
(* Visits.                                                                 *)
(***************************************************************************)
AnyUri  == Uris \cup Listed \cup {NoUri}
Settled == {"validated", "shown", "allowed", "refused"}
Ended   == {"code", "error_redirect", "login_required", "disallowed", "error_page", "server_error"}

\* A visit becomes x, and nothing else changes.
LEMMA VisitStep ==
    ASSUME IndInv, NEW v \in Visits, NEW x \in Visited, KnownUri(x),
           visit' = [visit EXCEPT ![v] = x], UNCHANGED <<editing, call>>
    PROVE  IndInv'
<1>1. RowsOK /\ RequestsOK
  BY Halves
<1>2. RowsOK'
  BY <1>1, RowsStand
<1>3. visit' \in [Visits -> Visited] /\ UriSettled'
  BY <1>1 DEF RequestsOK, UriSettled
<1>4. RequestsOK'
  BY <1>1, <1>3 DEF RequestsOK
<1> QED
  BY <1>2, <1>4, HalvesNext

\* A visit moves on, with what it asked for.
LEMMA GoesStep ==
    ASSUME IndInv, NEW v \in Visits, NEW phase \in Settled \cup Ended \cup {"login"}, VisitGoes(v, phase),
           phase \in Settled => visit[v].phase \in Settled,
           phase = "disallowed" => RefusedForCapitals([visit[v] EXCEPT !.phase = phase])
    PROVE  IndInv'
<1>1. visit \in [Visits -> Visited] /\ KnownUri(visit[v])
  BY Halves DEF RequestsOK, UriSettled
<1>2. PICK x : x = [visit[v] EXCEPT !.phase = phase]
  OBVIOUS
<1>3. x \in Visited /\ x.phase = phase /\ x.uri = visit[v].uri
  BY <1>1, <1>2 DEF Visited, Settled, Ended
<1>4. visit' = [visit EXCEPT ![v] = x] /\ UNCHANGED <<editing, call>>
  BY <1>2 DEF VisitGoes
<1>5. KnownUri(x)
  BY <1>1, <1>2, <1>3 DEF KnownUri, Settled, RefusedForCapitals
<1> QED
  BY <1>1, <1>3, <1>4, <1>5, VisitStep

\* A redirect ends the visit, as meant or because the scheme is not allowed.
LEMMA RedirectedEnds ==
    ASSUME NEW uri, NEW outcome \in Ended
    PROVE  /\ Redirected(uri, outcome) \in {outcome, "disallowed"} /\ Redirected(uri, outcome) \in Ended
           /\ outcome # "disallowed" /\ Redirected(uri, outcome) = "disallowed" =>
                uri = NoUri \/ uri.scheme \notin RedirectSchemes
  BY DEF Redirected, Ended

\* So does a step that redirects.
LEMMA RedirectStep ==
    ASSUME IndInv, NEW v \in Visits, NEW uri, NEW outcome \in Ended \ {"disallowed"},
           Redirect(v, uri, outcome),
           visit[v].user /\ visit[v].uri # NoUri => uri = visit[v].uri /\ uri.scheme \in LoweredSchemes
    PROVE  IndInv'
<1>1. PICK phase : phase = Redirected(uri, outcome)
  OBVIOUS
<1>2. phase \in Ended /\ phase \notin Settled
  BY <1>1, RedirectedEnds DEF Ended, Settled
<1>3. VisitGoes(v, phase)
  BY <1>1 DEF Redirect
<1>4. visit[v] \in Visited
  BY Halves DEF RequestsOK
<1>5. PICK x : x = [visit[v] EXCEPT !.phase = phase]
  OBVIOUS
<1>6. x.uri = visit[v].uri /\ x.user = visit[v].user
  BY <1>4, <1>5 DEF Visited
<1>7. phase = "disallowed" => uri = NoUri \/ uri.scheme \notin RedirectSchemes
  BY <1>1, RedirectedEnds
<1>8. phase = "disallowed" => RefusedForCapitals(x)
  BY <1>6, <1>7 DEF RefusedForCapitals
<1> QED
  BY <1>2, <1>3, <1>5, <1>8, GoesStep

\* validate_authorization_request ends the visit without a code, or finds an application
\* and a URI that matches what it registers.
LEMMA ValidationOutcome ==
    ASSUME NEW v \in Visits
    PROVE  /\ ValidationError(v) \in {"", "error_page", "server_error", "error_redirect", "disallowed"}
           /\ ValidationError(v) = "" =>
                /\ ~FatalClientError(visit[v].uri)
                /\ Asked(apps["mine"], visit[v].uri) # NoUri
           /\ ValidationError(v) = "disallowed" =>
                /\ ~FatalClientError(visit[v].uri)
                /\ Asked(apps["mine"], visit[v].uri).scheme \notin RedirectSchemes
<1> DEFINE uri   == Asked(apps["mine"], visit[v].uri)
           fatal == FatalClientError(visit[v].uri)
           fine  == ValidateResponseType(apps["mine"], visit[v].response)
<1>1. ValidationError(v) = CASE fatal -> "error_page"
                             [] ~fatal /\ uri = NoUri -> "server_error"
                             [] OTHER -> IF fine THEN "" ELSE Redirected(uri, "error_redirect")
  BY DEF ValidationError
<1>2. /\ Redirected(uri, "error_redirect") \in {"error_redirect", "disallowed"}
      /\ Redirected(uri, "error_redirect") = "disallowed" => uri = NoUri \/ uri.scheme \notin RedirectSchemes
  BY DEF Redirected
<1> HIDE DEF uri, fatal, fine
<1>3. CASE fatal
  <2>1. ValidationError(v) = "error_page"
    BY <1>1, <1>3
  <2> QED
    BY <2>1
<1>4. CASE ~fatal /\ uri = NoUri
  <2>1. ValidationError(v) = "server_error"
    BY <1>1, <1>4
  <2> QED
    BY <2>1
<1>5. CASE ~fatal /\ uri # NoUri
  <2>1. ValidationError(v) = IF fine THEN "" ELSE Redirected(uri, "error_redirect")
    BY <1>1, <1>5
  <2>2. ValidationError(v) \in {"", "error_page", "server_error", "error_redirect", "disallowed"}
    BY <1>2, <2>1
  <2> QED
    BY <1>2, <1>5, <2>1, <2>2 DEF uri, fatal
<1> QED
  BY <1>3, <1>4, <1>5

\* The URI asked for is the request's, or the only one registered.
LEMMA AskedUri ==
    ASSUME RowsOK, "mine" \in DOMAIN apps, NEW uri \in AnyUri
    PROVE  Asked(apps["mine"], uri) \in AnyUri
<1>1. apps["mine"].redirects \subseteq Listed
  BY DEF RowsOK, Row
<1>2. Default(apps["mine"]) \in AnyUri
  <2>1. CASE Cardinality(apps["mine"].redirects) = 1
    <3>1. apps["mine"].redirects # {}
      BY <2>1, FS_EmptySet
    <3> QED
      BY <1>1, <2>1, <3>1 DEF Default, AnyUri
  <2>2. CASE Cardinality(apps["mine"].redirects) # 1
    BY <2>2 DEF Default, AnyUri
  <2> QED
    BY <2>1, <2>2
<1> QED
  BY <1>2 DEF Asked

\* A URI that is fatal with no application is fatal whatever it is.
LEMMA NotFatal ==
    ASSUME NEW uri, ~FatalClientError(uri)
    PROVE  /\ "mine" \in DOMAIN apps
           /\ uri # NoUri => RedirectToUriAllowed(uri, apps["mine"].redirects)
  BY DEF FatalClientError

\* The URI a visit goes on with has a scheme that clean let pass.
LEMMA AskedLowered ==
    ASSUME RowsOK, NEW uri, ~FatalClientError(uri), Asked(apps["mine"], uri) # NoUri
    PROVE  Asked(apps["mine"], uri).scheme \in LoweredSchemes
<1>1. "mine" \in DOMAIN apps /\ apps["mine"] \in Row /\ Clean(apps["mine"])
  BY NotFatal DEF RowsOK, SavedRows, FromForm
<1>2. \A reg \in apps["mine"].redirects : reg.scheme \in LoweredSchemes
  BY <1>1 DEF Clean, ValidUri
<1>3. CASE uri # NoUri
  <2>1. PICK reg \in apps["mine"].redirects : uri.scheme = reg.scheme
    BY <1>3, NotFatal DEF RedirectToUriAllowed, SameEndpoint
  <2> QED
    BY <1>2, <1>3, <2>1 DEF Asked
<1>4. CASE uri = NoUri
  <2>1. Default(apps["mine"]) # NoUri
    BY <1>4 DEF Asked
  <2>2. Cardinality(apps["mine"].redirects) = 1
    BY <2>1 DEF Default
  <2>3. apps["mine"].redirects # {}
    BY <2>2, FS_EmptySet
  <2>4. Default(apps["mine"]) \in apps["mine"].redirects
    BY <2>2, <2>3 DEF Default
  <2> QED
    BY <1>2, <1>4, <2>4 DEF Asked
<1> QED
  BY <1>3, <1>4

\* Validation: the visit ends, is sent to the login page, or is known to ask for a URI.
LEMMA ValidateStep ==
    ASSUME IndInv, NEW v \in Visits, ValidateVisit(v)
    PROVE  IndInv'
<1> DEFINE old == visit[v]
           uri == Asked(apps["mine"], old.uri)
<1>1. old \in Visited /\ RowsOK /\ UNCHANGED <<editing, call>>
  BY Halves DEF RequestsOK, ValidateVisit
<1>2. CASE ValidationError(v) # ""
  <2>1. PICK phase : phase = ValidationError(v)
    OBVIOUS
  <2>2. PICK x : x = [old EXCEPT !.phase = phase]
    OBVIOUS
  <2>3. phase \in Ended /\ phase \notin Settled
    BY <1>2, <2>1, ValidationOutcome DEF Ended, Settled
  <2>4. x \in Visited /\ x.phase = phase /\ x.uri = old.uri
    BY <1>1, <2>2, <2>3 DEF Visited, Ended
  <2>5. visit' = [visit EXCEPT ![v] = x]
    BY <1>2, <2>1, <2>2 DEF ValidateVisit
  <2>6. phase = "disallowed" /\ old.uri # NoUri => old.uri.scheme \in LoweredSchemes \ RedirectSchemes
    <3>1. old.uri # NoUri => Asked(apps["mine"], old.uri) = old.uri
      BY DEF Asked
    <3> QED
      BY <1>1, <2>1, <3>1, ValidationOutcome, AskedLowered
  <2>7. KnownUri(x)
    BY <2>3, <2>4, <2>6 DEF KnownUri, Settled, RefusedForCapitals
  <2> QED
    BY <1>1, <2>4, <2>5, <2>7, VisitStep
<1>3. CASE ValidationError(v) = "" /\ old.prompt = "login"
  <2>1. PICK x : x = [old EXCEPT !.phase = "login", !.prompt = ""]
    OBVIOUS
  <2>2. x \in Visited /\ x.phase = "login"
    BY <1>1, <2>1 DEF Visited, Prompts
  <2>3. visit' = [visit EXCEPT ![v] = x]
    BY <1>3, <2>1 DEF ValidateVisit, HandlePromptLogin
  <2> QED
    BY <1>1, <2>2, <2>3, VisitStep DEF KnownUri, RefusedForCapitals
<1>4. CASE ValidationError(v) = "" /\ old.prompt # "login"
  <2>1. uri # NoUri /\ uri \in AnyUri /\ uri.scheme \in LoweredSchemes
    <3>1. old.uri \in AnyUri
      BY <1>1 DEF Visited, AnyUri
    <3> QED
      BY <1>1, <1>4, <3>1, ValidationOutcome, NotFatal, AskedUri, AskedLowered
  <2>2. PICK x : x = [old EXCEPT !.phase = "validated", !.uri = uri]
    OBVIOUS
  <2>3. x \in Visited /\ KnownUri(x)
    BY <1>1, <2>1, <2>2 DEF Visited, AnyUri, KnownUri, RefusedForCapitals
  <2>4. visit' = [visit EXCEPT ![v] = x]
    BY <1>4, <2>2 DEF ValidateVisit
  <2> QED
    BY <1>1, <2>3, <2>4, VisitStep
<1> QED
  BY <1>2, <1>3, <1>4

\* A visit comes in, or its user has logged in.
LEMMA VisitBegins ==
    ASSUME IndInv, NEW v \in Visits,
           \/ Login(v)
           \/ \E uri \in Uris \cup {NoUri}, response \in Responses, prompt \in Prompts, user \in BOOLEAN :
                Visit(v, uri, response, prompt, user)
    PROVE  IndInv'
<1>1. visit[v] \in Visited
  BY Halves DEF RequestsOK
<1>2. CASE Login(v)
  <2>1. PICK x : x = [visit[v] EXCEPT !.phase = "visiting", !.user = TRUE]
    OBVIOUS
  <2>2. x \in Visited /\ x.phase = "visiting"
    BY <1>1, <2>1 DEF Visited
  <2>3. visit' = [visit EXCEPT ![v] = x] /\ UNCHANGED <<editing, call>>
    BY <1>2, <2>1 DEF Login
  <2> QED
    BY <2>2, <2>3, VisitStep DEF KnownUri, RefusedForCapitals
<1>3. ASSUME NEW uri \in Uris \cup {NoUri}, NEW response \in Responses, NEW prompt \in Prompts,
             NEW user \in BOOLEAN, Visit(v, uri, response, prompt, user)
      PROVE  IndInv'
  <2>1. PICK x : x = [phase |-> "visiting", uri |-> uri, response |-> response, prompt |-> prompt, user |-> user]
    OBVIOUS
  <2>2. x \in Visited /\ x.phase = "visiting"
    BY <2>1 DEF Visited
  <2>3. visit' = [visit EXCEPT ![v] = x] /\ UNCHANGED <<editing, call>>
    BY <1>3, <2>1 DEF Visit
  <2> QED
    BY <2>2, <2>3, VisitStep DEF KnownUri, RefusedForCapitals
<1> QED
  BY <1>2, <1>3

\* The other steps of a visit move it on, or end it with a page or a redirect.
LEMMA VisitMoves ==
    ASSUME IndInv, NEW v \in Visits,
           NotLoggedIn(v) \/ ShowPage(v) \/ SendCode(v) \/ Deny(v) \/ \E allow \in BOOLEAN : PostForm(v, allow)
    PROVE  IndInv'
<1>1. CASE NotLoggedIn(v)
  <2>1. Redirect(v, visit[v].uri, "login_required") \/ VisitGoes(v, "login")
    BY <1>1 DEF NotLoggedIn
  <2>2. CASE Redirect(v, visit[v].uri, "login_required")
    <3>1. "login_required" \in Ended \ {"disallowed"}
      BY DEF Ended
    <3> QED
      BY <1>1, <2>2, <3>1, RedirectStep DEF NotLoggedIn
  <2>3. CASE VisitGoes(v, "login")
    BY <2>3, GoesStep DEF Settled
  <2> QED
    BY <2>1, <2>2, <2>3
<1>2. CASE ShowPage(v)
  <2>1. PICK phase \in {"shown", "server_error"} : VisitGoes(v, phase)
    BY <1>2 DEF ShowPage
  <2>2. visit[v].phase \in Settled /\ phase \in Settled \cup Ended
    BY <1>2, <2>1 DEF ShowPage, Settled, Ended
  <2> QED
    BY <2>1, <2>2, GoesStep
<1>7. visit[v] \in Visited /\ KnownUri(visit[v])
  BY Halves DEF RequestsOK, UriSettled
<1>6. visit[v].phase \in {"allowed", "refused"} => visit[v].uri # NoUri /\ visit[v].uri.scheme \in LoweredSchemes
  BY <1>7 DEF KnownUri
<1>3. CASE SendCode(v)
  <2>1. CASE ValidationError(v) # ""
    <3>1. PICK phase : phase = ValidationError(v) /\ VisitGoes(v, phase)
      BY <1>3, <2>1 DEF SendCode
    <3>2. phase \in Ended /\ phase \notin Settled
      BY <2>1, <3>1, ValidationOutcome DEF Ended, Settled
    <3>3. phase = "disallowed" => visit[v].uri.scheme \notin RedirectSchemes
      BY <1>3, <1>6, <3>1, ValidationOutcome DEF Asked, SendCode
    <3>4. PICK x : x = [visit[v] EXCEPT !.phase = phase]
      OBVIOUS
    <3>5. x.uri = visit[v].uri
      BY <1>7, <3>4 DEF Visited
    <3>6. phase = "disallowed" => RefusedForCapitals(x)
      BY <1>3, <1>6, <3>3, <3>5 DEF RefusedForCapitals, SendCode
    <3> QED
      BY <3>1, <3>2, <3>4, <3>6, GoesStep
  <2>2. CASE ValidationError(v) = ""
    <3>1. Redirect(v, visit[v].uri, "code") /\ "code" \in Ended \ {"disallowed"}
      BY <1>3, <1>6, <2>2 DEF SendCode, Ended, Asked
    <3> QED
      BY <1>3, <1>6, <3>1, RedirectStep DEF SendCode
  <2> QED
    BY <2>1, <2>2
<1>4. CASE Deny(v)
  <2>1. Redirect(v, visit[v].uri, "error_redirect") /\ "error_redirect" \in Ended \ {"disallowed"}
    BY <1>4 DEF Deny, Ended
  <2> QED
    BY <1>4, <1>6, <2>1, RedirectStep DEF Deny
<1>5. ASSUME NEW allow \in BOOLEAN, PostForm(v, allow)
      PROVE  IndInv'
  <2>1. PICK phase \in {"allowed", "refused", "server_error"} : VisitGoes(v, phase)
    BY <1>5 DEF PostForm
  <2>2. visit[v].phase \in Settled /\ phase \in Settled \cup Ended
    BY <1>5, <2>1 DEF PostForm, Settled, Ended
  <2> QED
    BY <2>1, <2>2, GoesStep
<1> QED
  BY <1>1, <1>2, <1>3, <1>4, <1>5

-----------------------------------------------------------------------------
(***************************************************************************)
(* Calls.                                                                  *)
(***************************************************************************)
\* A call becomes x, and nothing else changes.
LEMMA CallStep ==
    ASSUME IndInv, NEW c \in Calls, NEW x \in Called, (x.client = Nobody) = (x.row = NoRow), CallInv(x),
           call' = [call EXCEPT ![c] = x], UNCHANGED <<editing, visit>>
    PROVE  IndInv'
<1>1. RowsOK /\ RequestsOK
  BY Halves
<1>2. RowsOK'
  BY <1>1, RowsStand
<1>3. UriSettled'
  BY <1>1 DEF RequestsOK, UriSettled
<1>4. \A d \in Calls : call'[d] = IF d = c THEN x ELSE call[d]
  BY <1>1 DEF RequestsOK
<1>5. /\ call' \in [Calls -> Called]
      /\ \A d \in Calls : (call'[d].client = Nobody) = (call'[d].row = NoRow)
  BY <1>1, <1>4 DEF RequestsOK
<1>6. \A d \in Calls : CallInv(call'[d])
  BY <1>1, <1>4 DEF RequestsOK
<1>7. RequestsOK'
  BY <1>1, <1>3, <1>5, <1>6 DEF RequestsOK
<1> QED
  BY <1>2, <1>7, HalvesNext

\* The phases of a call past the question whether it must authenticate.
Authenticating == {"basic", "body", "by client_id", "authenticated", "served"} \cup
                    {"served by token", "forbidden", "invalid_client", "unauthorized_client"}

\* A call moves on, with the client it has.
LEMMA CallGoesStep ==
    ASSUME IndInv, NEW c \in Calls, NEW phase \in Authenticating \ {"by client_id", "authenticated"},
           CallGoes(c, phase), phase = "served" => call[c].phase = "authenticated"
    PROVE  IndInv'
<1> DEFINE old == call[c]
<1>1. old \in Called /\ (old.client = Nobody) = (old.row = NoRow) /\ CallInv(old)
  BY Halves DEF RequestsOK
<1>2. PICK x : x = [old EXCEPT !.phase = phase]
  OBVIOUS
<1>3. x \in Called /\ x.phase = phase
  BY <1>1, <1>2 DEF Called, Authenticating
<1>4. /\ x.kind = old.kind /\ x.basic = old.basic /\ x.body = old.body
      /\ x.client = old.client /\ x.row = old.row
  BY <1>1, <1>2 DEF Called
<1>5. GivenIds(x) = GivenIds(old) /\ (PassesAs(x) <=> PassesAs(old))
  BY <1>4 DEF GivenIds, PassesAs, GivenTexts
<1>6. CallInv(x)
  BY <1>1, <1>3, <1>4, <1>5 DEF CallInv, Authenticating
<1>7. call' = [call EXCEPT ![c] = x] /\ UNCHANGED <<editing, visit>>
  BY <1>2 DEF CallGoes
<1> QED
  BY <1>1, <1>3, <1>4, <1>6, <1>7, CallStep

\* _load_application: the client the call has, or the one it names here.
LEMMA LoadedClient ==
    ASSUME IndInv, NEW c \in Calls, NEW id
    PROVE  LET loaded == Loaded(c, id) IN
           /\ loaded[1] \in {"mine", "other", Nobody} /\ loaded[2] \in Row \cup {NoRow}
           /\ (loaded[1] = Nobody) = (loaded[2] = NoRow)
           /\ loaded[1] = call[c].client \/ loaded[1] = id \/ loaded[1] = Nobody
           /\ call[c].client # Nobody => loaded = <<call[c].client, call[c].row>>
           /\ call[c].client = Nobody /\ loaded[1] # Nobody => loaded[1] = id
<1> DEFINE loaded == Loaded(c, id)
<1>1. /\ call[c] \in Called /\ (call[c].client = Nobody) = (call[c].row = NoRow)
      /\ RowsOK
  BY Halves DEF RequestsOK
<1>2. CASE call[c].client # Nobody
  <2>1. loaded = <<call[c].client, call[c].row>>
    BY <1>2 DEF Loaded
  <2>2. loaded[1] = call[c].client /\ loaded[2] = call[c].row
    BY <2>1
  <2>3. call[c].client \in {"mine", "other", Nobody} /\ call[c].row \in Row \cup {NoRow}
    BY <1>1 DEF Called
  <2> QED
    BY <1>1, <1>2, <2>1, <2>2, <2>3
<1>3. CASE call[c].client = Nobody /\ id \in DOMAIN apps
  <2>1. loaded = <<id, apps[id]>>
    BY <1>3 DEF Loaded
  <2>2. id \in {"mine", "other"} /\ id # Nobody /\ apps[id] \in Row
    BY <1>1, <1>3 DEF RowsOK, Nobody
  <2>3. apps[id] # NoRow
    BY <2>2, Placeholders
  <2> QED
    BY <1>3, <2>1, <2>2, <2>3
<1>4. CASE call[c].client = Nobody /\ id \notin DOMAIN apps
  <2>1. loaded = <<Nobody, NoRow>>
    BY <1>4 DEF Loaded
  <2> QED
    BY <1>4, <2>1
<1> QED
  BY <1>2, <1>3, <1>4

\* A call looks an application up under an id it gave and moves on; it counts as
\* authenticated only if it passes as what it found.
LEMMA LoadStep ==
    ASSUME IndInv, NEW c \in Calls, NEW id \in GivenIds(call[c]), NEW phase \in Authenticating,
           LoadThen(c, Loaded(c, id), phase),
           phase # "served",
           phase = "by client_id" => /\ call[c].kind = "authorization_code" /\ GivenTexts(call[c]) = {}
                                     /\ Loaded(c, id)[1] # Nobody,
           phase = "authenticated" =>
               /\ Loaded(c, id)[1] # Nobody
               /\ \/ \E text \in GivenTexts(call[c]) : CheckSecret(text, Loaded(c, id)[2].secret)
                  \/ /\ call[c].kind = "authorization_code" /\ GivenTexts(call[c]) = {}
                     /\ Loaded(c, id)[2].type = "public"
    PROVE  IndInv'
<1> DEFINE old == call[c]
<1>1. PICK loaded : loaded = Loaded(c, id)
  OBVIOUS
<1>2. old \in Called /\ CallInv(old)
  BY Halves DEF RequestsOK
<1>3. /\ loaded[1] \in {"mine", "other", Nobody} /\ loaded[2] \in Row \cup {NoRow}
      /\ (loaded[1] = Nobody) = (loaded[2] = NoRow)
      /\ loaded[1] # Nobody => loaded[1] \in GivenIds(old)
  BY <1>1, <1>2, LoadedClient DEF CallInv
<1>4. PICK x : x = [old EXCEPT !.client = loaded[1], !.row = loaded[2], !.phase = phase]
  OBVIOUS
<1>5. x \in Called /\ x.phase = phase /\ x.client = loaded[1] /\ x.row = loaded[2]
  BY <1>2, <1>3, <1>4 DEF Called, Authenticating
<1>6. x.kind = old.kind /\ x.basic = old.basic /\ x.body = old.body
  BY <1>2, <1>4 DEF Called
<1>7. GivenIds(x) = GivenIds(old) /\ GivenTexts(x) = GivenTexts(old)
  BY <1>6 DEF GivenIds, GivenTexts
<1>8. phase = "authenticated" => PassesAs(x)
  BY <1>1, <1>5, <1>6, <1>7 DEF PassesAs
<1>9. CallInv(x)
  BY <1>1, <1>3, <1>5, <1>6, <1>7, <1>8 DEF CallInv, Authenticating
<1>10. call' = [call EXCEPT ![c] = x] /\ UNCHANGED <<editing, visit>>
  BY <1>1, <1>4 DEF LoadThen
<1> QED
  BY <1>3, <1>5, <1>9, <1>10, CallStep

\* A call comes in.
LEMMA ReceiveStep ==
    ASSUME IndInv, NEW c \in Calls, NEW kind \in Kinds, NEW basic \in Presented \cup {NoCredentials},
           NEW body \in Bodies, Receive(c, kind, basic, body)
    PROVE  IndInv'
<1> DEFINE old == call[c]
<1>1. old \in Called /\ CallInv(old) /\ (old.client = Nobody) = (old.row = NoRow) /\ old.phase = "new"
  BY Halves DEF RequestsOK, Receive
<1>2. PICK phase \in {"basic", "received"} :
        /\ phase = IF kind \in {"client_credentials", "introspect"} THEN "basic" ELSE "received"
        /\ phase = "received" => kind = "authorization_code"
  BY DEF Kinds
<1>3. PICK x : x = [old EXCEPT !.kind = kind, !.basic = basic, !.body = body, !.phase = phase]
  OBVIOUS
<1>4. /\ x \in Called /\ x.phase = phase /\ x.kind = kind
      /\ x.client = old.client /\ x.row = old.row
  BY <1>1, <1>3 DEF Called
<1>5. old.client = Nobody
  BY <1>1 DEF CallInv
<1>6. CallInv(x)
  BY <1>2, <1>4, <1>5 DEF CallInv
<1>7. call' = [call EXCEPT ![c] = x] /\ UNCHANGED <<editing, visit>>
  BY <1>2, <1>3 DEF Receive
<1> QED
  BY <1>1, <1>4, <1>6, <1>7, CallStep

\* client_authentication_required: a public client that is only named may do without.
LEMMA RequiredStep ==
    ASSUME IndInv, NEW c \in Calls, ClientAuthenticationRequired(c)
    PROVE  IndInv'
<1> DEFINE x == call[c]
<1>1. x \in Called /\ CallInv(x) /\ x.phase = "received"
  BY Halves DEF RequestsOK, ClientAuthenticationRequired
<1>2. x.kind = "authorization_code" /\ x.client = Nobody /\ x.body.id \in GivenIds(x)
  BY <1>1 DEF CallInv, GivenIds
<1>3. CASE x.basic # NoCredentials \/ (x.body.id # Nobody /\ x.body.text # NoText)
  <2>1. CallGoes(c, "basic")
    BY <1>3 DEF ClientAuthenticationRequired
  <2> QED
    BY <2>1, CallGoesStep DEF Authenticating
<1>4. CASE ~(x.basic # NoCredentials \/ (x.body.id # Nobody /\ x.body.text # NoText))
  <2>1. PICK phase \in {"by client_id", "basic"} :
          /\ LoadThen(c, Loaded(c, x.body.id), phase)
          /\ phase = "by client_id" => Loaded(c, x.body.id)[1] # Nobody
    BY <1>4 DEF ClientAuthenticationRequired
  <2>2. Loaded(c, x.body.id)[1] # Nobody => GivenTexts(x) = {}
    <3>1. Loaded(c, x.body.id)[1] # Nobody => x.body.id # Nobody
      BY <1>2, LoadedClient
    <3> QED
      BY <1>4, <3>1 DEF GivenTexts
  <2>3. phase \in Authenticating /\ phase # "served" /\ phase # "authenticated"
    BY DEF Authenticating
  <2> QED
    BY <1>2, <2>1, <2>2, <2>3, LoadStep
<1> QED
  BY <1>3, <1>4

\* authenticate_client, the Authorization header first.
LEMMA BasicStep ==
    ASSUME IndInv, NEW c \in Calls, AuthenticateBasicAuth(c)
    PROVE  IndInv'
<1> DEFINE x == call[c]
<1>1. CASE x.basic = NoCredentials
  <2>1. CallGoes(c, "body")
    BY <1>1 DEF AuthenticateBasicAuth
  <2> QED
    BY <2>1, CallGoesStep DEF Authenticating
<1>2. CASE x.basic # NoCredentials
  <2>1. x.basic.id \in GivenIds(x) /\ x.basic.text \in GivenTexts(x)
    BY <1>2 DEF GivenIds, GivenTexts
  <2>2. PICK phase \in {"authenticated", "body"} :
          /\ LoadThen(c, Loaded(c, x.basic.id), phase)
          /\ phase = "authenticated" => /\ Loaded(c, x.basic.id)[1] # Nobody
                                        /\ CheckSecret(x.basic.text, Loaded(c, x.basic.id)[2].secret)
    BY <1>2 DEF AuthenticateBasicAuth
  <2>3. phase \in Authenticating /\ phase # "served" /\ phase # "by client_id"
    BY DEF Authenticating
  <2> QED
    BY <2>1, <2>2, <2>3, LoadStep
<1> QED
  BY <1>1, <1>2

\* authenticate_client, then the body.
LEMMA BodyStep ==
    ASSUME IndInv, NEW c \in Calls, AuthenticateRequestBody(c)
    PROVE  IndInv'
<1> DEFINE x == call[c]
<1>1. x.body.id \in GivenIds(x)
  BY DEF GivenIds
<1>2. PICK phase \in {"authenticated"} \cup Rejected(c) :
        /\ LoadThen(c, Loaded(c, x.body.id), phase)
        /\ phase = "authenticated" => /\ Loaded(c, x.body.id)[1] # Nobody /\ x.body.text # NoText
                                      /\ CheckSecret(x.body.text, Loaded(c, x.body.id)[2].secret)
  BY DEF AuthenticateRequestBody, Rejected
<1>3. phase \in Authenticating /\ phase # "served" /\ phase # "by client_id"
  BY DEF Authenticating, Rejected
<1>4. x.body.text # NoText => x.body.text \in GivenTexts(x)
  BY DEF GivenTexts
<1> QED
  BY <1>1, <1>2, <1>3, <1>4, LoadStep

\* authenticate_client_id: a client that is not confidential is taken at its word.
LEMMA ClientIdStep ==
    ASSUME IndInv, NEW c \in Calls, AuthenticateClientId(c)
    PROVE  IndInv'
<1> DEFINE x == call[c]
<1>1. /\ x.kind = "authorization_code" /\ GivenTexts(x) = {} /\ x.body.id \in GivenIds(x)
  BY Halves DEF RequestsOK, CallInv, AuthenticateClientId, GivenIds
<1>2. PICK loaded : loaded = Loaded(c, x.body.id) /\ loaded[2] \in Row \cup {NoRow}
                    /\ (loaded[1] = Nobody) = (loaded[2] = NoRow)
  BY LoadedClient
<1>3. PICK phase \in {"authenticated", "invalid_client"} :
        /\ LoadThen(c, loaded, phase)
        /\ phase = "authenticated" => loaded[1] # Nobody /\ loaded[2].type # "confidential"
  BY <1>2 DEF AuthenticateClientId
<1>4. phase = "authenticated" => loaded[2].type = "public"
  <2>1. loaded[1] # Nobody => loaded[2] \in Row
    BY <1>2
  <2>2. loaded[2] \in Row => loaded[2].type \in {"confidential", "public"}
    BY DEF Row
  <2> QED
    BY <1>3, <2>1, <2>2
<1>5. phase \in Authenticating /\ phase # "served" /\ phase # "by client_id"
  BY DEF Authenticating
<1> QED
  BY <1>1, <1>2, <1>3, <1>4, <1>5, LoadStep

\* The call is served, or its client may not use the grant.
LEMMA ProceedStep ==
    ASSUME IndInv, NEW c \in Calls, Proceed(c)
    PROVE  IndInv'
<1>1. PICK phase \in {"served", "unauthorized_client"} : CallGoes(c, phase) /\ call[c].phase = "authenticated"
  BY DEF Proceed
<1>2. phase \in Authenticating \ {"by client_id", "authenticated"}
  BY DEF Authenticating
<1> QED
  BY <1>1, <1>2, CallGoesStep

-----------------------------------------------------------------------------
(***************************************************************************)
(* The theorems.                                                           *)
(***************************************************************************)
\* Every step keeps the invariant.
LEMMA NextInv == IndInv /\ [Next]_vars => IndInv'
<1> SUFFICES ASSUME IndInv, [Next]_vars PROVE IndInv'
  OBVIOUS
<1>1. CASE Edit
  BY <1>1, EditStep
<1>2. ASSUME NEW v \in Visits,
             \/ \E uri \in Uris \cup {NoUri}, response \in Responses, prompt \in Prompts, user \in BOOLEAN :
                  Visit(v, uri, response, prompt, user)
             \/ ServeVisit(v) \/ Login(v)
             \/ \E allow \in BOOLEAN : PostForm(v, allow)
      PROVE  IndInv'
  BY <1>2, VisitBegins, VisitMoves, ValidateStep, Zenon DEF ServeVisit
<1>3. ASSUME NEW c \in Calls,
             \/ \E kind \in Kinds, basic \in Presented \cup {NoCredentials}, body \in Bodies :
                  Receive(c, kind, basic, body)
             \/ ServeCall(c)
      PROVE  IndInv'
  BY <1>3, ReceiveStep, RequiredStep, BasicStep, BodyStep, ClientIdStep, ProceedStep DEF ServeCall
<1>4. CASE UNCHANGED vars
  <2>1. RowsOK /\ RequestsOK /\ UNCHANGED editing /\ UNCHANGED <<visit, call>>
    BY <1>4, Halves DEF vars, editing
  <2> QED
    BY <2>1, RowsStand, RequestsStand, HalvesNext
<1> QED
  BY <1>1, <1>2, <1>3, <1>4 DEF Next

\* The inductive invariant holds in every reachable state.
THEOREM Invariance == Spec => []IndInv
<1> QED
  BY InitInv, NextInv, PTL DEF Spec

\* The types hold in every reachable state: rows are rows forms can produce, and
\* request.client is set exactly when an application was loaded.
THEOREM TypeCorrect == Spec => []TypeOK
<1>1. IndInv => TypeOK
  BY DEF IndInv
<1> QED
  BY <1>1, Invariance, PTL

\* Whatever sequence of saves a row went through, its owner's secret still checks.
THEOREM SecretKept == Spec => []SecretStillWorks
<1>1. IndInv => SecretStillWorks
  BY SecretChecks DEF IndInv, TypeOK, SavedRows, SecretStillWorks
<1> QED
  BY <1>1, Invariance, PTL

\* A logged-in user's visit ends in DisallowedRedirect only for a scheme that the setting
\* spells with capitals, whatever happened to the row meanwhile; and every row matches the
\* URIs and the origins it lists.
THEOREM RowsServe == Spec => []RegisteredUrisServe
<1>1. IndInv => RegisteredUrisServe
  <2> SUFFICES ASSUME IndInv PROVE RegisteredUrisServe
    OBVIOUS
  <2>1. \A v \in Visits : RefusedForCapitals(visit[v])
    BY DEF IndInv, UriSettled, KnownUri
  <2>2. ASSUME NEW i \in DOMAIN apps
        PROVE  /\ \A uri \in apps[i].redirects : RedirectToUriAllowed(uri, apps[i].redirects)
               /\ \A origin \in apps[i].origins : IsOriginAllowed(origin, apps[i].origins)
    <3>1. apps[i] \in Row /\ Clean(apps[i])
      BY DEF IndInv, TypeOK, SavedRows, FromForm
    <3> QED
      BY <3>1, CleanRowServes
  <2> QED
    BY <2>1, <2>2 DEF RegisteredUrisServe
<1> QED
  BY <1>1, Invariance, PTL

\* However header and body credentials are mixed, a call is served only as a client it
\* named, and with that client's secret unless none is asked of it.
THEOREM CallsServedAsThemselves == Spec => []ServedAsItself
<1>1. IndInv => ServedAsItself
  BY DEF IndInv, ServedAsItself, CallInv, PassesAs, GivenIds, GivenTexts
<1> QED
  BY <1>1, Invariance, PTL

-----------------------------------------------------------------------------
(***************************************************************************)
(* Where a code goes.                                                      *)
(***************************************************************************)
\* A step that moves one visit on to another phase sends nobody a code.
LEMMA GoesWithoutCode ==
    ASSUME visit \in [Visits -> Visited], NEW v \in Visits, NEW w \in Visits, NEW x,
           visit' = [visit EXCEPT ![w] = x], x.phase # "code", visit[v].phase # "code"
    PROVE  visit'[v].phase # "code"
  OBVIOUS

\* The same, when only the phase changes.
LEMMA PhaseWithoutCode ==
    ASSUME visit \in [Visits -> Visited], NEW v \in Visits, NEW w \in Visits, NEW phase,
           VisitGoes(w, phase), phase # "code", visit[v].phase # "code"
    PROVE  visit'[v].phase # "code"
<1>1. PICK x : x = [visit[w] EXCEPT !.phase = phase]
  OBVIOUS
<1>2. x.phase = phase
  BY <1>1 DEF Visited
<1> QED
  BY <1>1, <1>2, GoesWithoutCode DEF VisitGoes

\* The same, when it ends with another redirect.
LEMMA RedirectWithoutCode ==
    ASSUME visit \in [Visits -> Visited], NEW v \in Visits, NEW w \in Visits, NEW uri, NEW outcome,
           Redirect(w, uri, outcome), outcome # "code", visit[v].phase # "code"
    PROVE  visit'[v].phase # "code"
<1>1. Redirected(uri, outcome) # "code"
  BY DEF Redirected
<1> QED
  BY <1>1, PhaseWithoutCode DEF Redirect

\* Only create_authorization_response sends a code.
LEMMA OthersSendNoCode ==
    ASSUME visit \in [Visits -> Visited], NEW v \in Visits, NEW w \in Visits, visit[v].phase # "code",
           \/ NotLoggedIn(w) \/ ValidateVisit(w) \/ ShowPage(w) \/ Deny(w) \/ Login(w)
           \/ \E allow \in BOOLEAN : PostForm(w, allow)
           \/ \E uri \in Uris \cup {NoUri}, response \in Responses, prompt \in Prompts, user \in BOOLEAN :
                Visit(w, uri, response, prompt, user)
    PROVE  visit'[v].phase # "code"
<1>1. CASE NotLoggedIn(w)
  BY <1>1, PhaseWithoutCode, RedirectWithoutCode DEF NotLoggedIn
<1>2. CASE ValidateVisit(w)
  <2>1. visit[w] \in Visited
    OBVIOUS
  <2>2. PICK error : error = ValidationError(w) /\ error # "code"
    BY ValidationOutcome
  <2>3. PICK uri : uri = Asked(apps["mine"], visit[w].uri)
    OBVIOUS
  <2>4. CASE error # ""
    <3>1. PICK x : x = [visit[w] EXCEPT !.phase = error]
      OBVIOUS
    <3>2. visit' = [visit EXCEPT ![w] = x]
      BY <1>2, <2>2, <2>4, <3>1 DEF ValidateVisit
    <3>3. x.phase = error
      BY <2>1, <3>1 DEF Visited
    <3> QED
      BY <2>2, <3>2, <3>3, GoesWithoutCode
  <2>5. CASE error = "" /\ visit[w].prompt = "login"
    <3>1. PICK x : x = [visit[w] EXCEPT !.phase = "login", !.prompt = ""]
      OBVIOUS
    <3>2. visit' = [visit EXCEPT ![w] = x]
      BY <1>2, <2>2, <2>5, <3>1 DEF ValidateVisit, HandlePromptLogin
    <3>3. x.phase = "login"
      BY <2>1, <3>1 DEF Visited
    <3> QED
      BY <3>2, <3>3, GoesWithoutCode
  <2>6. CASE error = "" /\ visit[w].prompt # "login"
    <3>1. PICK x : x = [visit[w] EXCEPT !.phase = "validated", !.uri = uri]
      OBVIOUS
    <3>2. visit' = [visit EXCEPT ![w] = x]
      BY <1>2, <2>2, <2>3, <2>6, <3>1 DEF ValidateVisit
    <3>3. x.phase = "validated"
      BY <2>1, <3>1 DEF Visited
    <3> QED
      BY <3>2, <3>3, GoesWithoutCode
  <2> QED
    BY <2>4, <2>5, <2>6
<1>3. CASE ShowPage(w)
  <2>1. PICK phase \in {"shown", "server_error"} : VisitGoes(w, phase)
    BY <1>3 DEF ShowPage
  <2> QED
    BY <2>1, PhaseWithoutCode
<1>4. CASE Deny(w)
  BY <1>4, RedirectWithoutCode DEF Deny
<1>5. CASE Login(w)
  <2>1. PICK x : x = [visit[w] EXCEPT !.phase = "visiting", !.user = TRUE]
    OBVIOUS
  <2>2. visit' = [visit EXCEPT ![w] = x]
    BY <1>5, <2>1 DEF Login
  <2>3. x.phase = "visiting"
    BY <2>1 DEF Visited
  <2> QED
    BY <2>2, <2>3, GoesWithoutCode
<1>6. ASSUME NEW allow \in BOOLEAN, PostForm(w, allow)
      PROVE  visit'[v].phase # "code"
  <2>1. PICK phase \in {"allowed", "refused", "server_error"} : VisitGoes(w, phase)
    BY <1>6 DEF PostForm
  <2> QED
    BY <2>1, PhaseWithoutCode
<1>7. ASSUME NEW uri \in Uris \cup {NoUri}, NEW response \in Responses, NEW prompt \in Prompts,
             NEW user \in BOOLEAN, Visit(w, uri, response, prompt, user)
      PROVE  visit'[v].phase # "code"
  <2>1. PICK x : x = [phase |-> "visiting", uri |-> uri, response |-> response, prompt |-> prompt, user |-> user]
    OBVIOUS
  <2>2. visit' = [visit EXCEPT ![w] = x]
    BY <1>7, <2>1 DEF Visit
  <2>3. x.phase = "visiting"
    BY <2>1
  <2> QED
    BY <2>2, <2>3, GoesWithoutCode
<1> QED
  BY <1>1, <1>2, <1>3, <1>4, <1>5, <1>6, <1>7, Zenon

\* The step that does sends it to the URI the visit settled on, having validated it once
\* more against the row as it is now.
LEMMA CodeSent ==
    ASSUME IndInv, NEW v \in Visits, NEW w \in Visits, SendCode(w),
           visit[v].phase # "code", visit'[v].phase = "code"
    PROVE  /\ visit'[v].uri = visit[v].uri /\ visit[v].uri # NoUri
           /\ ~FatalClientError(visit[v].uri)
<1>1. visit \in [Visits -> Visited] /\ (visit[w].phase \in Settled => visit[w].uri # NoUri)
  BY Halves DEF RequestsOK, UriSettled, KnownUri, Settled
<1>2. ValidationError(w) = ""
  <2> SUFFICES ASSUME ValidationError(w) # "" PROVE FALSE
    OBVIOUS
  <2>1. PICK phase : phase = ValidationError(w) /\ VisitGoes(w, phase)
    BY DEF SendCode
  <2>2. phase # "code"
    BY <2>1, ValidationOutcome
  <2> QED
    BY <1>1, <2>1, <2>2, PhaseWithoutCode
<1>3. PICK phase : VisitGoes(w, phase)
  BY <1>2 DEF SendCode, Redirect
<1>4. PICK x : x = [visit[w] EXCEPT !.phase = phase]
  OBVIOUS
<1>5. visit' = [visit EXCEPT ![w] = x] /\ x.uri = visit[w].uri
  BY <1>1, <1>3, <1>4 DEF VisitGoes, Visited
<1>6. w = v
  BY <1>1, <1>5
<1>7. visit[w].phase \in Settled
  BY DEF SendCode, Settled
<1> QED
  BY <1>1, <1>2, <1>4, <1>5, <1>6, <1>7, ValidationOutcome

\* A code goes only where the row, as the request that posts the form reads it, allows: to a registered
\* URI, give or take further parameters and the port of a loopback address.
THEOREM CodesStayHome == Spec => CodeOnlyToRegistered
<1> DEFINE Goes(v) == "mine" \in DOMAIN apps /\ \E reg \in apps["mine"].redirects :
              LET uri == visit'[v].uri
              IN  /\ <<uri.scheme, uri.host, uri.path>> = <<reg.scheme, reg.host, reg.path>>
                  /\ reg.query \subseteq uri.query
                  /\ uri.port # reg.port => reg.host \in {"127.0.0.1", "::1"}
           Sent(v) == visit[v].phase # "code" /\ visit'[v].phase = "code"
<1>1. ASSUME IndInv, [Next]_vars, NEW v \in Visits, Sent(v)
      PROVE  Goes(v)
  <2>1. visit \in [Visits -> Visited]
    BY <1>1 DEF IndInv, TypeOK
  <2>2. visit' # visit
    BY <1>1
  <2>3. PICK w \in Visits : SendCode(w)
    <3>1. ~Edit
      BY <2>2 DEF Edit, Register, OpenForm, SubmitForm, Delete, Save
    <3>2. \A c \in Calls : ~ServeCall(c) /\ \A kind, basic, body : ~Receive(c, kind, basic, body)
      BY <2>2 DEF ServeCall, Receive, ClientAuthenticationRequired, AuthenticateBasicAuth,
             AuthenticateRequestBody, AuthenticateClientId, Proceed, CallGoes, LoadThen
    <3>3. PICK w \in Visits :
            \/ \E uri \in Uris \cup {NoUri}, response \in Responses, prompt \in Prompts, user \in BOOLEAN :
                 Visit(w, uri, response, prompt, user)
            \/ ServeVisit(w) \/ Login(w)
            \/ \E allow \in BOOLEAN : PostForm(w, allow)
      BY <1>1, <2>2, <3>1, <3>2 DEF Next, vars
    <3> QED
      BY <1>1, <2>1, <3>3, OthersSendNoCode, Zenon DEF ServeVisit
  <2>4. /\ visit'[v].uri = visit[v].uri /\ visit[v].uri # NoUri
        /\ ~FatalClientError(visit[v].uri)
    BY <1>1, <2>3, CodeSent
  <2>5. "mine" \in DOMAIN apps /\ RedirectToUriAllowed(visit'[v].uri, apps["mine"].redirects)
    BY <2>4, NotFatal
  <2> QED
    BY <2>5, AllowedIsRegistered
<1>2. ASSUME IndInv, [Next]_vars
      PROVE  [\A v \in Visits : Sent(v) => Goes(v)]_vars
  BY <1>1, <1>2
<1>3. Spec => [][\A v \in Visits : Sent(v) => Goes(v)]_vars
  BY <1>2, Invariance, PTL DEF Spec
<1> QED
  BY <1>3 DEF CodeOnlyToRegistered

=============================================================================
