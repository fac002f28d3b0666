---------------------------- MODULE RefreshRefinement ----------------------------
(***************************************************************************)
(* The refresh grant, statement by statement, implements RefreshPromise:   *)
(* the mapping forgets strings, times, sequences and requests, and the     *)
(* commit of save_bearer_token is the exchange.                            *)
(***************************************************************************)
EXTENDS TokenRefresh

MappedAccess(S) ==
    [a \in DOMAIN S.at |-> [source |-> S.at[a].source, scope |-> S.at[a].scope]]
MappedRefresh(S) ==
    [t \in DOMAIN S.rt |-> [access |-> S.rt[t].access, spent |-> S.rt[t].revoked # NULL]]

Promise == INSTANCE RefreshPromise WITH
    access  <- MappedAccess(db),
    refresh <- MappedRefresh(db),
    granted <- granted

\* However the statements of concurrent refreshes, revocations and deletions interleave,
\* the tables change as if each request had been served in one step, no refresh token is
\* exchanged while what it was exchanged for lives, none spent is spent no longer, and no
\* access token outgrows its grant.
KeepsPromise == Promise!Spec

\* Beside cleartokens the same holds of what is left of the tables: with rotation the
\* command takes refresh tokens, and access tokens no refresh token is bound to; without,
\* a refresh under way may also reissue an access token whose refresh token it took.
KeepsPromiseSwept == Promise!SweptSpec
KeepsPromiseLate  == Promise!LateSpec

\* Beside logouts, where the clearing of ID tokens takes the access tokens that carry them.
KeepsPromiseCleared == Promise!ClearedSpec

=============================================================================
