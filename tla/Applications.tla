------------------------------ MODULE Applications ------------------------------
(***************************************************************************)
(* The Application row: the URIs it registers and how a requested URI is   *)
(* matched with them, what a form must satisfy to be saved, what a save    *)
(* does to the client secret, and which grants an application may use.     *)
(* Pure operators, used by the modules of the views.                       *)
(*                                                                         *)
(* A URI is the record of its parts.  A query is the set of its            *)
(* parameters, port 0 says that none is written, path and fragment are ""  *)
(* when absent.                                                            *)
(***************************************************************************)
EXTENDS Naturals, FiniteSets

CONSTANTS
    RedirectSchemes,    \* ALLOWED_REDIRECT_URI_SCHEMES, as the setting spells them
    Lower(_),           \* a scheme in lower case, as every parsed URI has it
    OriginSchemes,      \* ALLOWED_SCHEMES
    RsaKey              \* whether OIDC_RSA_PRIVATE_KEY is set

NoPort == 0

-----------------------------------------------------------------------------
(***************************************************************************)
(* Matching.                                                               *)
(***************************************************************************)
\* RFC 8252, section 7.3: the port of a loopback address is the client's to choose.
AnyPort(reg) == reg.scheme = "http" /\ reg.host \in {"127.0.0.1", "::1"} /\ reg.port = NoPort

SameEndpoint(uri, reg) ==
    /\ uri.scheme = reg.scheme /\ uri.host = reg.host /\ uri.path = reg.path
    /\ AnyPort(reg) \/ uri.port = reg.port

QueryIgnored(uri, allowed) ==                  \* mutant: the registered parameters are not required
    \E reg \in allowed : SameEndpoint(uri, reg)

RedirectToUriAllowed(uri, allowed) ==
    \E reg \in allowed : SameEndpoint(uri, reg) /\ reg.query \subseteq uri.query

IsOriginAllowed(origin, allowed) ==
    /\ origin.scheme \in OriginSchemes
    /\ \E o \in allowed : <<o.scheme, o.host, o.port>> = <<origin.scheme, origin.host, origin.port>>

-----------------------------------------------------------------------------
(***************************************************************************)
(* The client secret.  A text is a plain secret (depth 0) or what          *)
(* make_password makes of a text; hashes show that they are hashes.        *)
(***************************************************************************)
Plain(s)     == [of |-> s, depth |-> 0]
IsHash(text) == text.depth > 0
Hash(text)   == [text EXCEPT !.depth = @ + 1]

PreSaveRehash(text, should) ==                 \* mutant: identify_hasher is not asked
    IF should THEN Hash(text) ELSE text

\* ClientSecretField.pre_save.
PreSave(text, should) == IF should /\ ~IsHash(text) THEN Hash(text) ELSE text

CheckSecret(provided, stored) ==
    IF IsHash(stored) THEN Hash(provided) = stored ELSE provided = stored

-----------------------------------------------------------------------------
(***************************************************************************)
(* What Application.clean accepts.                                         *)
(***************************************************************************)
CodeGrant   == "authorization-code"
Implicit    == "implicit"
Password    == "password"
Credentials == "client-credentials"
Hybrid      == "openid-hybrid"

ValidUri(uri, schemes, asOrigin) ==
    /\ uri.scheme \in schemes /\ uri.host # "" /\ uri.fragment = ""
    /\ asOrigin => uri.query = {} /\ uri.path = ""

\* clean lowers the schemes of the setting; what follows a redirect compares them as they are.
LoweredSchemes == {Lower(s) : s \in RedirectSchemes}

CleanAnyScheme(app) ==                         \* mutant: the schemes of redirect_uris are not looked at
    app.redirects = {} => app.grant \notin {CodeGrant, Implicit, Hybrid}

Clean(app) ==
    /\ \A uri \in app.redirects : ValidUri(uri, LoweredSchemes, FALSE)
    /\ app.redirects = {} => app.grant \notin {CodeGrant, Implicit, Hybrid}
    /\ \A uri \in app.origins : ValidUri(uri, OriginSchemes, TRUE)
    /\ app.algorithm = "RS256" => RsaKey
    /\ app.algorithm = "HS256" => app.grant \notin {Implicit, Hybrid} /\ app.type # "public"

-----------------------------------------------------------------------------
(***************************************************************************)
(* What an application may do.                                             *)
(***************************************************************************)
GrantTypeMapping == [authorization_code |-> {CodeGrant, Hybrid},
                     password           |-> {Password},
                     client_credentials |-> {Credentials},
                     refresh_token      |-> {CodeGrant, Password, Credentials, Hybrid}]

ValidateGrantType(app, grant) == app.grant \in GrantTypeMapping[grant]

ValidateResponseType(app, response) ==
    CASE response = "code"                                            -> app.grant = CodeGrant
      [] response \in {"token", "id_token", "id_token token"}           -> app.grant = Implicit
      [] response \in {"code id_token", "code token", "code id_token token"} -> app.grant = Hybrid
      [] OTHER                                                        -> FALSE

=============================================================================
