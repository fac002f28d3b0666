# Verification of django-oauth-toolkit

TLA+ models of django-oauth-toolkit (`oauth2_provider`), TLC runs that check
them on small instances, and TLAPS proofs of the properties that matter most
for every instance. Paths below are relative to the repository; line numbers
are given in `PROJECT.json`, under `map`.

## 1. The system

The toolkit is an OAuth2/OIDC provider made of Django views over a database.
oauthlib drives each protocol request and calls back into `OAuth2Validator`.
There is no process of its own and no in-memory queue: concurrency is that of
the web workers that serve requests, of the `cleartokens` command, and of the
transactions of the database. Only `save_bearer_token` and
`RefreshToken.revoke` are transactions; everything else is a sequence of
statements that commit one by one (`ATOMIC_REQUESTS` is off by default).

| Part | State | Operations | Interacts with | Hard behaviour | Correct when | Status |
|---|---|---|---|---|---|---|
| Token tables (`models.py`) | `AccessToken`, `RefreshToken`: two one-to-one keys, `SET_NULL` both ways | create, update in place, delete, `RefreshToken.revoke` | all other parts | foreign keys that become NULL under a reader | keys valid, one successor per refresh token, revoked means unbound | modelled |
| Refresh grant (`oauth2_validators.py`) | the request object, a row lock | `validate_refresh_token`, `get_original_scopes`, `save_bearer_token` | tables, revocation, `cleartokens`, logout | validation outside the transaction, replays, grace period, rotation on or off | as if each exchange were one step; scopes never grow; every request answered | modelled |
| Revocation (`revoke_token`, `AuthorizedTokenDeleteView`) | none | look up by string and hint, revoke each row, delete | tables | a refresh between the lookup and the rows | final, takes the access token with it, the string buys nothing afterwards | modelled |
| `cleartokens` (`clear_expired`) | ids of a batch | five loops of read a batch / delete it | tables | rows change between the two statements | current tokens survive, old ones go, the command ends | modelled |
| Authorization endpoint (`views/base.py`) | `Grant` rows, the consent page | login, prompts, consent form, silent approval, `skip_authorization` | tables, application rows | approval rests on tokens read earlier; the application changes between page and form | nothing beyond one consent; codes only to registered URIs; no login loop | partly |
| Code exchange | `Grant` rows | `validate_code` ... `invalidate_authorization_code` | tables, `cleartokens` | crash or rival between any two statements | a code is dead once answered | modelled |
| Protected resources (`decorators.py`, `views/mixins.py`) | list of required scopes per view, a kept `OAuthLibCore` per class | verify a request | access tokens | list and core shared between requests and threads | the documented scopes, no more and no less; the validator of the class | modelled |
| Middleware, authentication backend, REST framework | none | authenticate, then a permission class | access tokens, sessions | a session or a token may have authenticated | as above | partly |
| Resource server (introspection) | cached remote tokens | `_get_token_from_authentication_server` | remote server | stale cache, late answers, concurrent `update_or_create`, time zones | a revoked token is served no longer than the cache time, none past its expiry | modelled |
| RP-initiated logout (`views/oidc.py`) | two lists of tokens | validate, prompt, validate again, `do_logout` | tables, ID tokens, logins | lists read at different times, cascades, logins changing between page and form | what it found is dead, nobody else is touched unasked | modelled |
| ID tokens | ID-token rows | save, load again, link to an access token, cascade, expire | refresh grant, logout, `cleartokens` | a deletion cascades to an access token linked meanwhile; the link fails if the row went | no dangling key; no access token with a current ID token is lost | partly |
| Client authentication, secrets | `request.client`, the stored secret | Basic, body, `client_id` alone; hash on save | application rows | which credentials decide; hashing once over many saves | the right client, whatever the way it presents itself | modelled |
| Redirect and origin matching, `Application.clean` | none | pure functions | authorization endpoint, logout | corner cases of URIs | only registered URIs | modelled |
| Application views and forms | application rows, open tabs | register, update, delete | everything that reads the row | stale forms | what was saved works | partly |
| Settings, discovery, JWKS, claims, user info, generators, signals, admin, URLs, migrations, templates, locale | | | | mostly data | | not modelled (section 6) |

## 2. Modules

| Module | Models | Extends |
|---|---|---|
| `TokenStore` | the two tables as functions from keys to rows, and the row operations as operators from store to store | |
| `TokenStore_proofs` | lemmas: what each row operation preserves | `TokenStore` |
| `TokenRefresh` | the refresh grant beside issuing, revocation, deletion and the clock | `TokenStore` |
| `RefreshPromise` | the abstract specification: tokens without requests, statements, locks, strings or time, an exchange in one step; its forms beside `cleartokens` and logouts; what it is worth (`Reliable`) | |
| `RefreshRefinement` | the refinement mapping, `KeepsPromise`, and its forms `KeepsPromiseSwept`, `KeepsPromiseLate` and `KeepsPromiseCleared` | `TokenRefresh` |
| `TokenRefresh_proofs` | theorems about the refresh grant and its refinement | `RefreshRefinement`, `TokenStore_proofs` |
| `ClearExpired` | `clear_expired` over the token tables, beside everything in `TokenRefresh` | `TokenRefresh` |
| `ClearExpired_proofs` | theorems about the command, and about the endpoint and its refinement beside it | `ClearExpired`, `TokenRefresh_proofs` |
| `Applications` | pure operators: URI matching, `clean`, secrets, grant and response types | |
| `Logout` | RP-initiated logout, ID tokens and their clearing, beside everything in `TokenRefresh` | `RefreshRefinement`, `Applications` |
| `Logout_proofs` | theorems about logouts, and about the endpoint and its refinement beside them | `Logout`, `TokenRefresh_proofs` |
| `ClientRequests` | visits to the authorization endpoint and client authentication, beside an owner editing the application | `Applications` |
| `ClientRequests_proofs` | theorems about rows, forms, visits and calls | `ClientRequests` |
| `AuthorizationCode` | codes issued by consent or silently, their exchange, crashes | `TokenStore` |
| `AuthorizationCode_proofs` | its inductive invariants and theorems | `AuthorizationCode`, `TokenStore_proofs` |
| `ProtectedResource` | decorators, mixins, middleware and REST framework views deciding on requests | |
| `ProtectedResource_proofs` | its inductive invariant and theorems | `ProtectedResource` |
| `ResourceServer` | `validate_bearer_token` with an introspection server: the cached row of one token, the POST, the answer of `IntrospectTokenView` | |
| `ResourceServer_proofs` | its inductive invariant and theorems | `ResourceServer` |
| `MC*` | symmetry sets and the constants a `.cfg` cannot write | |

**State.** A token string is a number: a fresh random string is one never used
before, and the string of a new refresh token is the key of its first row.
`NULL` is 0; keys and the clock start at 1. `expires` and `revoked` are clock
values. Except in `Logout` and `ClientRequests`, users and applications are not
distinguished: each model is about the tokens of one user with one application, and
a refresh token of another client is refused like an unknown one.

**Steps.** One action is one database statement (or one transaction, for
`RefreshToken.revoke`, `_create_*` and deletions with `SET_NULL`).
`save_bearer_token` makes its writes visible when it commits, so the model puts
them into its last step; what it reads it reads in steps of their own. Between
`LockInstance` and the commit the request holds the row lock (phases `locked`, `read`
and `paired`), and whoever would delete, null or stamp that row waits; the rows of the
earlier pair a replay answers with are not locked, so `ReadPrevious` (its access
token), `ReadPair` (its refresh token) and `AnswerPrevious` (the commit) are three
steps with other requests between them. `Respond` is `TokenView.post` fetching the
access token once more before the client has its answer: it ends in `ok` or in the 500
of `DoesNotExist`. `req[r]` is the request object oauthlib and the validator hand on:
what an earlier statement read stays in it however stale it becomes. `expires`,
computed on entry to `save_bearer_token`, is fixed by the step before. Where the
code lets `DoesNotExist` or an `AttributeError` escape, the request ends as
`server_error`.

`revoke_token` is modelled for the string the client sends: `LookUpRefresh` fetches
the rows the string names (with the hint `refresh_token` by `get()`, which answers 500
and changes nothing if there are several), `RevokeRow` revokes one of them in a
transaction that locks and reads it again, and `AnswerRevocation` answers. Between the
lookup and the answer a refresh may exchange or revoke the row, or, without rotation,
insert another row with the same string, which is not among the rows looked up.

**Assumed of the database.** READ COMMITTED isolation and row locks that work.
SQLite ignores `select_for_update`, so nothing is claimed for it.

**Code exchange.** oauthlib calls `validate_code`, `get_code_challenge` (and
`_method`), `confirm_redirect_uri`, then `save_bearer_token`, then
`invalidate_authorization_code` (`get`, `delete`), after which
`TokenView.post` fetches the access token and answers. Each is an action and
each reads the grant again. Whether the verifier and the redirect URI match is
chosen when it is looked at. The two reads of the challenge are one action:
either fails with the same answer. `Crash` may end a request between any two
steps.

**The promise of the refresh grant.** `RefreshPromise` knows living access tokens
(what they were exchanged for, their scope), refresh tokens (what is bound to them,
whether they are spent) and grants. Its `Exchange` spends a refresh token, removes
its access token and makes a new pair in one step, only if nothing the same refresh
token was exchanged for is alive. `RefreshRefinement` maps the tables onto it and
forgets requests, strings, timestamps and sequences; the commit of
`save_bearer_token` is the exchange, and all the statements before it are stutters.
`Reissue` is the refresh without rotation, `Revoke` and `Drop` what the revocation
endpoint, deletions and logouts do.

`cleartokens` takes rows away, and its promise has two forms. With rotation
(`KeepsPromiseSwept`) it forgets refresh tokens, whose successors then come from nowhere
(`Forget`), and takes access tokens nothing can refresh (`SweepUnbound`). Without
(`KeepsPromiseLate`) an access token can be reissued in place after the command read it,
so it takes any (`SweepAny`); and a request that read its refresh token before the
command deleted that one still reissues the access token (`ReissueLeft`), within the
grant of its chain. Beside logouts (`KeepsPromiseCleared`) no refresh token is forgotten,
but a batch of ID tokens takes the access tokens that carry them, several in one step
(`SweepAny`). All four forms imply `Reliable`: of what a refresh token was
exchanged for one access token lives at most, and no access token outgrows its grant.

**Logout.** An ID token is a key with an expiry, `col` is what `TokenStore` leaves
out of an access row: its user and its ID token. A request whose answer will hold an ID
token takes three statements over it, apart in time: `SaveIdToken` inserts the ID token
in a transaction of its own before `save_bearer_token` begins; `LoadDraft` loads it
again when `_create_access_token` is reached (None if the JWT has expired beyond
jwcrypto's leeway or its row is gone); the step of `TokenRefresh` that inserts the access
token links what was loaded (`Carry`). `draft` holds what a request is between. An ID
token may expire, or be picked and deleted by the ID-token loop, in either gap. If it was
deleted after it was loaded the foreign key fails when the transaction commits: the
`IntegrityError` is caught nowhere, everything is rolled back and the request is a 500
(`InsertFails`). A request that reuses its access token or answers with an earlier pair
leaves its ID token unlinked. The other grants are one requester, `Grantor`, that issues
pair after pair. `Get` and `FormValid`
validate against whoever is logged in at that time (`session`), `Begin` is the
beginning of `do_logout`, and then each statement of it is a step: the list of
refresh tokens, the list of access tokens, for each of them the ID token fetched
through a key read earlier and the two deletions, then each refresh token. If an ID token of the list is gone the
logout is a 500 and both lists stay as they are.
`ReadIds` and `DeleteIds` are the ID-token loop of `clear_expired`.

**Client requests.** The application row is read again in each step that reads it
in the code (validation, page, form, redirect), and the owner may save or delete it
between any two. The last step (`SendCode`) reads the row, stores the code and redirects:
the values of the form are validated against that row and no other is read after it. A
deletion between that read and the INSERT of the grant is not a step of its own; it would
fail the foreign key and end as a 500 in place of the code. A parsed URI has its scheme in lower
case: `clean` compares it with the configured schemes in lower case (`LoweredSchemes`),
the redirect class with the schemes as they are configured. A tab (`form`) posts back what it showed, changed or not. A secret
is the text its owner typed and how often it was hashed, so hashing twice shows. In
`call`, `client` and `row` are `request.client`: set by the first lookup that finds
an application and never replaced. What oauthlib does with the validator's verdicts
(which of them end in a redirect and which in a page) is modelled from how
`AuthorizationView` and `OAuthLibCore` use it.

**Protected resources.** `listed[v]` is the list that the closure of a
decorated view holds. The list is a set here: duplicates do not matter to
`is_valid`. The token row is read (`Load`) before the scopes are compared
(`Decide`), and the comparison uses the list as it is by then. `core[c]` is the
`_oauthlib_core` of a view class itself; a class without one sees its base's, as
`hasattr` does. `FindCore` is the test of `hasattr`, `MakeCore` the assignment, and the
validator that decides is whatever `return cls._oauthlib_core` finds after it; threads
serving the same class, its base or a stranger run between them. REST framework views authenticate first (a session or the token,
in the order the view lists them) and then ask a permission class (`Permit`), with
the row read while authenticating.

**Resource server.** Every statement names one token string, so the module is
about one token: `cached` is the set of rows with that string, `exp`, `scope` and
`active` are what the authorization server knows of it. `LoadAccessToken` reads the
row and judges it; if it will not do, the POST is answered (`Introspect`) or fails
(`PostFails`), and the answer is stored and judged later (`StoreAnswer`), after any
delay, since the POST has no timeout. Times are UTC; `Expires` does the conversions
between UTC and local time that the code does.

**History variables** (no code): `granted`, and of a revocation `at` and `raced`
(TokenRefresh), `issuedAt` (ClearExpired), `quiet` (ResourceServer), `consented`, `spent`
and `until` (AuthorizationCode), `made` (ProtectedResource), `stale` (Logout: the ID
token had expired when the row that carries it was inserted), the last fields of a
logout (`agreed`, `hadRefresh`, `hadAccess`, `before`), and the field `late` of requests, which records whether the
request began after its token was out of force, or its code was answered.

## 3. Runs

| Run | Checks | Instance |
|---|---|---|
| `refresh_reuse` | `OneSuccessor`, `IndInv`, `RevokedBuysNothing`, `ScopeWithinGrant`, `RevocationIsFinal` | 3 requests, 1 revocation by string, 2 scopes, no rotation, no grace |
| `refresh_grace` | `OneRowPerString`, `LiveAnswersAgree`, `AnsweredPairHolds`, `EveryRequestAnswered`, `KeepsPromise` | 2 requests, 1 revocation, 1 scope, rotation, grace 1, fair |
| `clear` | `ClearTypeOK`, `FailsOnlyIfOvertaken`, `KeepsRefreshOfCurrent`, `KeepsUsableAccess`, `CommandEnds` | 1 request, 1 revocation, rotation, grace 1, batches of 1, no scopes (the command reads none), fair |
| `code` | `CodeDeadAfterAnswer`, `IndInv`, `WithinOneConsent`, `FailsOnlyIfOvertaken` | 2 codes, 2 exchanges, 2 scopes, PKCE |
| `introspection` | `IndInv`, `RevokedStopsAfterCache`, `ServedBeforeExpiry`, `RefusedOnlyWithReason` | 2 requests, 2 scopes, caching time 2 of 6, UTC |
| `views` | `TypeOK`, `NeverLetThroughWithout`, `OthersDoNotMatter`, `ValidatorOfClass` | 2 requests, 1 token, 5 scope names, every kind of view |
| `logout` | `LogoutTypeOK`, `LogoutKillsTokens`, `DeprecatedAgrees`, `NoSilentLogoutOfOthers`, `IdLoopSparesAccess`, `LogoutAnswered`, `KeepsPromiseCleared` | 1 logout, 1 refresh, the other grants, no rotation, no grace, a leeway of 1, fair |
| `clients` | `TypeOK`, `SecretStillWorks`, `RegisteredUrisServe`, `ServedAsItself`, `CodeOnlyToRegistered`, `LoginEnds` | 1 visit or call, 1 tab, 2 saves, fair |

Where a run checks `IndInv`, that invariant contains the module's `TypeOK`.

Four runs are expected to fail, each on one statement of the repository:

* `clear_orphan`: an unrevoked refresh token whose access token was deleted is
  matched by no query of `cleartokens`.
* `introspection_zone`: `exp` is decoded as UTC and made aware as local time, so
  west of Greenwich the cached row outlives the token.
* `views_rw`: `rw_protected_resource` appends to a list shared by all requests,
  so after a read and a write it asks both scopes of everybody.
* `logout_survivors`: `do_logout` finds refresh tokens through the user's access
  tokens, so one whose access token was deleted earlier outlives the logout and
  still buys tokens.

What the passing runs show about the same places: answers that are both still
usable always agree (`LiveAnswersAgree`); with rotation a string names one row;
with rotation no current refresh token is swept; the shared list can refuse too
much and never too little; what `do_logout` did list is dead when it answers,
even if a refresh exchanged it in between. Where local time is UTC (run) or ahead of
it (theorem `ExpiryRespected`) the introspection cache never outlives the token.
Without rotation a refresh exchanges its token only once the access token is gone;
`refresh_reuse` covers that path and the reuse in place, `refresh_grace` the rotation.
The promise is checked twice: with rotation and replays (`KeepsPromise`), where it is
about the exchange, and without rotation beside a logout (`KeepsPromiseCleared`), where
an access token changes in place and tokens are deleted from outside the endpoint. The method and
the deprecated function that validate a logout request agree on every input of the
instance, in every state in which one is about to be validated (`DeprecatedAgrees`).

Weaknesses the properties are worded around: without rotation, a refresh between the
two statements of a batch of `cleartokens` extends an access token that is then deleted,
or whose refresh token is (`KeepsUsableAccess` and `KeepsRefreshOfCurrent` are checked
and proved with rotation, and TLC finds both violated without); refreshing when the
access token is gone leaves a revoked and a live row with one string
(`OneRowPerString` is checked with rotation); a refresh token revoked at
the revocation endpoint and never used is still accepted during the grace period
(`RevokedBuysNothing` counts from its end); a replay in the grace period gets a
new pair if the first successor is gone; an answer of the authorization server that is
under way when the token is revoked starts a caching time of its own (`quiet` counts
from when it is stored); and two exchanges of one code that
overlap may both get tokens, one of them with a 500 (`CodeDeadAfterAnswer` speaks
of exchanges that begin after an answer). A logout whose list holds an ID token that
another logout, or `cleartokens` once its access token was revoked, deletes meanwhile ends as a 500 with the rest of its list alive
(`LogoutKillsTokens` says that no other reason stops it), and a pair created after the lists
were read survives. An ID token that expires within jwcrypto's leeway is still linked, and
`cleartokens`, if it had picked the ID token by then, takes the new access token with it
(`IdLoopSparesAccess` says that it takes no other).

Four places where the code does not do what its own documentation suggests have no run
expected to fail; the passing properties state the exception exactly, so that they would
fail if it grew:

* Without rotation a refresh that is under way when its string is revoked, and whose access
  token is gone, inserts a row with the same string after `revoke_token` looked its rows up.
  The endpoint answers 200 and the string goes on buying tokens. `RevokedBuysNothing` leaves
  out the revocations that overlap such a refresh (`raced`), and no others; with rotation it
  leaves out none. Once a string names two rows, `get(token=...)` in `revoke_token` raises
  `MultipleObjectsReturned` and a revocation with the hint `refresh_token` is a 500.
* `OAuthLibMixin` says that its class variables configure the view (`views/mixins.py:21-31`),
  but `hasattr` at line 85 finds what a base class keeps: a subclass with a `validator_class`
  of its own is decided by its base's validator if the base class was served first.
  `ValidatorOfClass` says for every order of requests, overlapping ones included, which of
  the two decides.
* `Application.clean` compares schemes with `ALLOWED_REDIRECT_URI_SCHEMES` in lower case
  (`models.py:202`), the redirect class with the setting as it is (`http.py:31`): with
  "MyApp" in the setting a URI of that scheme is saved, and every response to it is
  refused with `DisallowedRedirect`. `RegisteredUrisServe` allows a refusal for that alone.
* With `CLEAR_EXPIRED_TOKENS_BATCH_SIZE` set to 0 `cleartokens` never ends (the mutant of
  `CommandEnds`).

**Bounds.** `MaxTime` stops the clock, `MaxIssued`, `MaxCodes`, `MaxRequests` and
`MaxSaves` bound what other grants, the authorization endpoint, clients and owners
do; each request is served once. Two requests are enough for every pairwise race, a
third adds a request that comes in after both; revocation and
deletion are unbounded. One revocation request per instance: it is answered once, and what comes after it is other
requests. Clock values 1..2 with a grace of 0 or 1 hit both sides of the
`revoked__gt` comparison; 1..5 with `AccessLife = 0`, `Grace = 1` and `RefreshExpire =
1` let tokens grow old enough to be cleared, and a replay meet a row being cleared.
Clock values 1..6 with a caching time of 2 let a row be stored, outlive a revocation,
end, and be asked for again. Clock values 1..3 with `CodeLife = 1` let a code expire and
then be cleared between two steps of its exchange. Batches of one separate every row from the next.
In `views` one request goes anywhere and the other to the three views that leave
something behind (the appended list, the core of a class and of its subclass); the
others write nothing another request reads. Two are enough for both orders, and for both
finding no core; theorem `WhichValidatorDecides` is about any number. `clients` runs one visit or call at a time:
requests only read application rows, so what they can meet is the owner, who may
save twice (once to change, once to resubmit a stale form) and delete in between. One
allowed scheme is configured with capitals, so that `clean` and the redirect class differ.
`logout` has ID tokens that are issued at the first clock value and expired at the second
(`IdLife = 0`), so that `cleartokens` can take one from under the logout that listed it
(what a second logout would do to it too), and, with a leeway of 1 that stands for
jwcrypto's 60 seconds, both before and after it is linked. It has no revocation by string,
which `refresh_reuse`, `refresh_grace` and `clear` have; access tokens are revoked. It has a client of each type, and URIs that are registered, unregistered,
plain http or missing.
Requests (and scopes, where no action singles one out) are symmetric in
`refresh_reuse`, `code` and `introspection`; runs with liveness use no symmetry. A finished
instance has nothing left to do, so deadlock is not checked; that nothing is stuck
half-way is `EveryRequestAnswered`, `CommandEnds`, `LogoutAnswered` and `LoginEnds`.
Code exchanges take each step once and wait for nobody; what could go wrong with them is
how they end (`FailsOnlyIfOvertaken`).

**Fairness.** Weak fairness on the steps of a request once it has begun: a worker
runs its request to the end. Nothing makes clients send requests, revoke or crash,
nor the clock move. Weak fairness suffices because a row lock is released by the
next steps of its holder and no holder waits for another lock: the mutant of
`EveryRequestAnswered` and `LogoutAnswered` keeps the lock of a request that failed. The command and a
logout are fair as soon as they have begun, and what they wait for are locks that fair
requests release; a user who is sent to the login page logs in, which `LoginEnds`
needs to say anything about coming back.

**Not the case by construction.** Each property of a passing run is violated by
a mutant of a definition (`PROJECT.json`, `mutants`): a lock not taken, a
comparison off by one, a filter dropped, a list rebound. The mutants stand
beside the definitions and are used by nothing else.

## 4. Proofs

Every property of a passing run is a theorem, for all values of the constants that the
hypothesis named with it (`Rotate`, the sign of `Zone`) allows, except
those listed at the end of this section. Each module keeps the inductive
invariant it needs in a section headed "Why", as a conjunction of named parts; TLC
checked each on the runs' instances before it was proved. Every proof has the
same shape: one lemma per action, `Init` and `Next` put together, and one short theorem
per property. Assumptions on the constants are their types, and named where they
are more.

`TokenStore_proofs` states once what each row operation does: it keeps the tables
`WellFormed` (keys valid, `UniqueSource`, revoked means unbound), and which rows it
creates, changes, deletes or spends. All modules about the tables rest on it.

`TokenRefresh_proofs`, from `RefreshAssumption`:

* `Invariance`: `Spec => []IndInv`; from it `TypeCorrect`, `SuccessorUnique`
  (`OneSuccessor`), `RevocationTakesAccess` (`RevokedIsUnbound`) and
  `RevocationFinal` (`RevocationIsFinal`). `OneSuccessor` is not inductive alone: a
  request that read "no successor" creates one in a later step, so `IndInv` adds that
  it is still true then (`PreviousStillAbsent`), because it holds the only lock under
  which one is created (`LockExclusive`) on a row that exists (`LockedRowExists`).
* `ChainInvariance`: `Spec => []ChainInv`; from it `GrantNeverOutgrown`
  (`ScopeWithinGrant`) and `AnswersAgree` (`LiveAnswersAgree`). A request carries a scope
  and a key read several statements ago. What survives every commit of
  another request is that the key names the access token of that refresh token, or that
  one of the two is gone (`Attached`), and that a string answered names, while both live,
  what was obtained with the refresh token or is bound to it (`Traced`). Those two relate
  a request to the tables through the refresh token's row, which `cleartokens` may delete
  under it; so `ClaimsAgree` says without that row that requests presenting one refresh
  token have to do with one access token (`Claims`). `Follows` is the relation
  between the tables before and after any commit that keeps all of it.
* `RotationInvariance` and, under `Rotate`, `StringNamesOneRow` (`OneRowPerString`): a
  string is its row's key.
* `PairInvariance` and `AnsweredPairKept` (`AnsweredPairHolds`). Between the reads of the
  two strings of a replay's answer, and until the client has them, others may revoke, refresh or
  reissue the pair. `KnowsPair` says what the request still knows: the string it read names
  no other access token than the one it was read from, and a row bound to that access token
  is the one that was read; `KeepsPair` that there is one while no refresh token's row is
  deleted. `Moves` is the relation between the tables before and after a commit that keeps
  both, for all requests but those that commit.
* `CancelInvariance` and `RevocationEndsExchange` (`RevokedBuysNothing`). `Cancels` says of a
  revocation whose lookup is over that each row of its string that is not revoked yet is
  still in its list, and of one that was answered that they were all stamped by then. With
  rotation no row of an old string is inserted; without it only a refresh that carries the
  string inserts one, which `Overlap` and the lookup record. No timestamp lies ahead of the
  clock, so what was stamped is not usable once the grace period is over.
* `PromiseKept`: `Spec => KeepsPromise`. Statements that commit nothing map to stutters;
  `IssueFresh` to `Exchange`, whose guards are `PreviousStillAbsent` and `Attached`;
  `ReuseAccess` to `Reissue` (to nothing where it fails), `IssueTokens` to `Grant`,
  revocations and `AnswerPrevious`, which calls `RefreshToken.revoke` too, to `Revoke`,
  and deletions of access tokens to `Drop`. Where nothing deletes refresh tokens every
  one ever issued has its row (`AllRows`), which rules `ReissueLeft` out.
* `PromiseRelied`: each of the four forms of the promise implies `[]Promise!Reliable`. The strengthening
  (`Related`) says that keys name what was issued, that an access token is bound to one
  refresh token, and that a chain of exchanges has one grant.

Where no hypothesis is named, a theorem holds with and without rotation and for any
grace period.

`ClearExpired_proofs`, from `RefreshAssumption` and `ClearAssumption` (any batch size): `ClearInvariance`, `ClearTypeCorrect` (`ClearTypeOK`),
`SuccessorUniqueBesideClear` (`OneSuccessor` although rows and sources go under the
requests) and, under `Rotate`, `UsableAccessKept` (`KeepsUsableAccess`) and
`CurrentRefreshKept` (`KeepsRefreshOfCurrent`). `ClearInv` adds to `IndInv` that what a
batch was picked for is still the case when it is deleted (`PickedRevoked`,
`PickedOld`), which every step of a request preserves because of how it ages the tables
(`Ages`): timestamps stay, with rotation expiries stay, and a new refresh token is bound
to a new access token. `IndInv` survives the deletion because it waits for the row locks.

The endpoint's own promises hold beside the command too. `BesideInvariance` proves
`ChainInv`, `RotationInv`, `PairInv` and `CancelInv` for `ClearSpec`: a step is one of `TokenRefresh`,
and keeps them by the lemmas above, or deletes a batch (`DeletesOrServes`). Of a batch the
proofs use only what it leaves: rows that stay keep their strings, scopes and stamps, and a
source or a binding goes with the row it names. From it follow `GrantNeverOutgrownBesideClear`,
`AnswersAgreeBesideClear`, `RevocationFinalBesideClear`, `RevocationEndsExchangeBesideClear`,
`AnsweredPairMatchesBesideClear` (the two strings of an answer never belong to different
pairs; the refresh token itself the command may take) and, under `Rotate`,
`StringNamesOneRowBesideClear`; and the refinements `PromiseKeptBesideClear` (under
`Rotate`, `KeepsPromiseSwept`) and `LatePromiseKeptBesideClear` (`KeepsPromiseLate`, whatever
the settings), with `ReliableBesideClear`. `KeepsPromise` itself is false beside the command.
The run `clear` has no scope and one refresh request, so these rest on the proofs; the invariants
behind them were model-checked on instances with a scope or two requests, with and without rotation.

`Logout_proofs`, from these and `LogoutAssumption` (the application tokens are issued to
exists): `LogoutInvariance`, `LogoutTypeCorrect` (`LogoutTypeOK`), `LogoutTakesAll`
(`LogoutKillsTokens`), `NobodyElseUnasked` (`NoSilentLogoutOfOthers`),
`IdLoopSparesCurrent` (`IdLoopSparesAccess`), `PromiseKeptBesideLogout`
(`KeepsPromiseCleared`), and `DeprecatedDecidesAlike` (`DeprecatedAgrees`), which
follows from the two validations case by case and needs no invariant. `EndpointBesideLogout`
(`OneSuccessor`, `RevokedIsUnbound`, `ScopeWithinGrant`, `LiveAnswersAgree`),
`RevocationFinalBesideLogout`, `RevocationEndsExchangeBesideLogout` and
`AnsweredPairHoldsBesideLogout` say that logouts leave the endpoint its promises:
what they write only takes access tokens and stamps refresh tokens (`Takes`). `LogoutInv` adds to
`IndInv`, `ChainInv` and `AllRows` what a logout still owes (`Owed`: each token it found is gone, or
still in a list, or in hand), that the ID token it listed with an access token
was never carried by another and waits for none (`Carried`: so deleting it cascades to that
one only), that a logout that ended as a 500 had lost an ID token of its list (`Deprived`), that
nobody is named who is not logged in or did not agree (`Asked`), that an ID token waits for
one access token (`DraftsInv`), and that what carries an ID token of the batch of
`clear_expired` was saved after that had expired (`IdsInv`). A step of the endpoint either leaves
what access tokens carry alone or inserts one row with what was loaded (`LinksKept`).

`ClientRequests_proofs`, from `BoundsAssumption` and `RowsAssumption` (what owners type
are profiles over listed URIs, and the other application passed the same `clean`):
`Invariance`, `TypeCorrect` (`TypeOK`), `SecretKept` (`SecretStillWorks`), `RowsServe`
(`RegisteredUrisServe`), `CallsServedAsThemselves` (`ServedAsItself`) and `CodesStayHome`
(`CodeOnlyToRegistered`). The strengthening: rows and open tabs hold a secret hashed at
most once (`SavedRows`, `ShownRows`), a visit is shown nothing before its redirect URI is
settled, one whose scheme some configured scheme has in lower case (`UriSettled`), and
`request.client` is a client the call named whose secret it
has shown by the time it counts as authenticated (`CallInv`).

`ProtectedResource_proofs`, from `ScopesAssumption`: `Invariance`, `TypeCorrect`
(`TypeOK`), `NobodyLetThroughWithout` (`NeverLetThroughWithout`), `RequestsIndependent`
(`OthersDoNotMatter`) and `WhichValidatorDecides` (`ValidatorOfClass`). The strengthening says
what a request keeps between its statements (`RequestInv`: above all that a token out of
force when it came in is not found later, and that what will be asked of it is a copy of
its own or a list that only grows) and what outlives requests (`OutliveRequests`): above all
that a class keeps a core of its own exactly if one of its requests made it, and that a
request past `FindCore` finds one (`CoreFirst`).

`ResourceServer_proofs`, from `CacheAssumption`: `Invariance`, `TypeCorrect`,
`RevocationReaches` (`RevokedStopsAfterCache`), for `Zone >= 0` `ExpiryRespected`
(`ServedBeforeExpiry`) and for `Zone <= 0` `RefusalHasReason` (`RefusedOnlyWithReason`).
Each is false on the other side of UTC. The strengthening bounds the rows: none
ends later than the caching time from now (`RowsAreCapped`), nor, once the token is
quiet, from then, because no answer is under way to extend it (`QuietIsQuiet`); and
nobody is ever served with a caching time of 0 (`ServedWasOpen`).

`AuthorizationCode_proofs`, from `CodeAssumption`: `Invariance`, `TypeCorrect`,
`AnswerKillsCode` (`CodeDeadAfterAnswer`), `GoodCodesServe` (`FailsOnlyIfOvertaken`) and
`ConsentNeverOutgrown` (`WithinOneConsent`). `IndInv` says that an answered code has left the table
(`SpentIsGone`), because the exchange that answers deleted it one step earlier
(`DeletedIsGone`) and keys are not drawn twice (`CodeWasIssued`). `ConsentInv` follows
a scope through everything that carries it: the page, grants, tokens and exchanges.
For `GoodCodesServe` an exchange's code is in the table until its expiry, or was taken by an
exchange that had saved its tokens (`CodeKnown`); each step leaves the excuses of every other exchange
as they are (`Passage`).

Only model-checked:

* `EveryRequestAnswered`, `CommandEnds`, `LogoutAnswered` and `LoginEnds`: liveness under
  fairness is out of the prover's reach.
* `FailsOnlyIfOvertaken` of `TokenRefresh`, checked in the run `clear`; it is not proved yet.
* That Django's own behaviour (row locks, SET_NULL, unique constraints) is what
  `TokenStore` says: it is modelled from how the code uses it.

## 5. Plan

The modules of section 2, the runs of section 3 and the proofs of section 4 were planned
and are done. Open, and why:

1. `ClearSpec` and `LogoutSpec` are each composed with the token endpoint, not with each
   other. That both at once keep the promise should follow from the same lemmas, since
   each only takes rows; the ID-token loop is already in `LogoutSpec`.
2. Progress. `EveryRequestAnswered` and the others rest on row locks being released,
   which a proof would need `ENABLED` for.
3. Users and applications are told apart only in `Logout` and `ClientRequests`.
4. A theorem for `FailsOnlyIfOvertaken` of the refresh grant.

## 6. Not modelled

* Settings: constants of every module. They are read once per process and nothing
  the code does changes them while requests are served; `reload` serves tests.
* OIDC discovery, JWKS, claims and `UserInfoView`: they render settings, keys and
  the claims a validator subclass returns, keep no state and decide nothing.
  Signing and checking of JWTs is jwcrypto's, the protocol order oauthlib's.
* What the implicit and hybrid response types put into a redirect; the redirect
  itself, its validation and who may ask for which type are in `ClientRequests`.
* `createapplication`, the list and detail views, admin and forms beyond what a form
  posts back: they read, or save through the same `clean` and `pre_save`.
* `OAuth2ExtraTokenMiddleware` attaches a row to the request and decides nothing.
* ID tokens presented as bearer tokens (`validate_jwt_bearer_token`,
  `validate_id_token`: `oauth2_validators.py:865-887`),
  which the OpenID Connect server accepts for an access token: `Decide` judges access tokens.
* Generators (a random string is one never used before), signals (sent after the
  fact to receivers outside the repository), URLs, migrations, templates, locale.
