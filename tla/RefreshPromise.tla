----------------------------- MODULE RefreshPromise -----------------------------
(***************************************************************************)
(* What the token endpoint promises about refresh tokens, without requests,*)
(* statements, locks, strings or time: an exchange is one step, made only  *)
(* while nothing the same refresh token was exchanged for is alive, and    *)
(* never for more than the resource owner granted.                         *)
(***************************************************************************)
EXTENDS Naturals, Functions

CONSTANT Scopes

NoKey == 0      \* no access token, or not obtained by an exchange

VARIABLES
    access,     \* the living access tokens: key -> refresh token it was obtained with, scope
    refresh,    \* the refresh tokens: key -> access token bound to it, whether it is spent
    granted     \* the scope the resource owner granted with each refresh token

vars == <<access, refresh, granted>>

Init ==
    /\ access  = [a \in {} |-> NoKey]
    /\ refresh = [t \in {} |-> NoKey]
    /\ granted = [t \in {} |-> {}]

Exchanged(t) == {a \in DOMAIN access : access[a].source = t}
NewAccess  == DOMAIN access' \ DOMAIN access
NewRefresh == DOMAIN refresh' \ DOMAIN granted

With(f, k, x)     == [y \in DOMAIN f \cup {k} |-> IF y = k THEN x ELSE f[y]]
BoundAccess(T)    == {refresh[t].access : t \in T}
AccessWithout(A)  == Restrict(access, DOMAIN access \ A)
RefreshWithout(A) == [t \in DOMAIN refresh |->
                        IF refresh[t].access \in A THEN [refresh[t] EXCEPT !.access = NoKey] ELSE refresh[t]]
Spent(T)          == [t \in DOMAIN refresh |->
                        IF t \in T THEN [access |-> NoKey, spent |-> TRUE] ELSE refresh[t]]

\* A pair, or an access token alone, for whatever the resource owner agreed to.
Grant ==
    \E a \in NewAccess, scope \in SUBSET Scopes :
        /\ access' = With(access, a, [source |-> NoKey, scope |-> scope])
        /\ \/ \E t \in NewRefresh :
                /\ refresh' = With(refresh, t, [access |-> a, spent |-> FALSE])
                /\ granted' = With(granted, t, scope)
           \/ UNCHANGED <<refresh, granted>>

\* The refresh token and its access token go, a new pair comes.
Exchange ==
    \E t \in DOMAIN refresh, a \in NewAccess, u \in NewRefresh, scope \in SUBSET Scopes :
        /\ Exchanged(t) = {} /\ scope \subseteq granted[t]
        /\ access' = With(AccessWithout(BoundAccess({t})), a, [source |-> t, scope |-> scope])
        /\ refresh' = With(Spent({t}), u, [access |-> a, spent |-> FALSE])
        /\ granted' = With(granted, u, granted[t])

\* The access token stays and changes its scope: a refresh without rotation.
Reissue ==
    \E t \in DOMAIN refresh, scope \in SUBSET Scopes :
        /\ refresh[t].access # NoKey /\ scope \subseteq granted[t]
        /\ access' = [access EXCEPT ![refresh[t].access].scope = scope]
        /\ UNCHANGED <<refresh, granted>>

\* Refresh tokens that are not spent are revoked, by their client or by a replay.
Revoke ==
    \E T \in SUBSET {t \in DOMAIN refresh : ~refresh[t].spent} :
        /\ access' = AccessWithout(BoundAccess(T))
        /\ refresh' = Spent(T)
        /\ UNCHANGED granted

Sweep(A) ==
    /\ access' = AccessWithout(A)
    /\ refresh' = RefreshWithout(A)
    /\ UNCHANGED granted

\* An access token is revoked alone.
Drop == \E a \in DOMAIN access : Sweep({a})

Next == Grant \/ Exchange \/ Reissue \/ Revoke \/ Drop

Spec == Init /\ [][Next]_vars

-----------------------------------------------------------------------------
(***************************************************************************)
(* What becomes of the promise while expired tokens are swept away.        *)
(***************************************************************************)
Unbound(a) == \A t \in DOMAIN refresh : refresh[t].access # a

\* Refresh tokens go for good; what they were exchanged for stays, with its scope.
Forget ==
    \E T \in SUBSET DOMAIN refresh :
        /\ refresh' = Restrict(refresh, DOMAIN refresh \ T)
        /\ access' = [a \in DOMAIN access |->
                        IF access[a].source \in T THEN [access[a] EXCEPT !.source = NoKey] ELSE access[a]]
        /\ UNCHANGED granted

\* An access token whose refresh token went while a refresh was under way is reissued
\* once more, within the grant of its chain.
ReissueLeft ==
    \E a \in DOMAIN access, t \in DOMAIN granted \ DOMAIN refresh : \E scope \in SUBSET granted[t] :
        /\ Unbound(a)
        /\ access[a].source # NoKey => granted[access[a].source] = granted[t]
        /\ access' = [access EXCEPT ![a].scope = scope]
        /\ UNCHANGED <<refresh, granted>>

\* Only access tokens nothing can refresh are swept away, and none is reissued late.
SweepUnbound == \E A \in SUBSET {a \in DOMAIN access : Unbound(a)} : Sweep(A)

SweptSpec == Init /\ [][Next \/ Forget \/ SweepUnbound]_vars

\* Without rotation access tokens are reissued in place, between what a sweep reads and
\* what it deletes, and after.
SweepAny == \E A \in SUBSET DOMAIN access : Sweep(A)

ClearedSpec == Init /\ [][Next \/ SweepAny]_vars

LateSpec == Init /\ [][Next \/ Forget \/ SweepAny \/ ReissueLeft]_vars

-----------------------------------------------------------------------------
(***************************************************************************)
(* What a client and a resource owner can rely on, swept or not.           *)
(***************************************************************************)
\* Of what a refresh token was exchanged for one access token lives, at most.
OneExchange(A) ==
    \A a, b \in DOMAIN A : A[a].source = A[b].source /\ A[a].source # NoKey => a = b

\* No access token outgrows the grant of the refresh token it was obtained with, nor of
\* the one bound to it.
WithinGrant(A, R, G) ==
    /\ \A a \in DOMAIN A : A[a].source # NoKey => A[a].scope \subseteq G[A[a].source]
    /\ \A t \in DOMAIN R : R[t].access # NoKey => A[R[t].access].scope \subseteq G[t]

Reliable == OneExchange(access) /\ WithinGrant(access, refresh, granted)

\* Why: keys name what was issued, and a chain of exchanges has one grant.
Related(A, R, G) ==
    /\ \A a \in DOMAIN A : A[a] = [source |-> A[a].source, scope |-> A[a].scope]
    /\ \A t \in DOMAIN R : R[t] = [access |-> R[t].access, spent |-> R[t].spent]
    /\ DOMAIN R \subseteq DOMAIN G
    /\ \A a \in DOMAIN A : A[a].source # NoKey => A[a].source \in DOMAIN G
    /\ \A t \in DOMAIN R : R[t].access # NoKey =>
          /\ R[t].access \in DOMAIN A
          /\ \A u \in DOMAIN R : R[u].access = R[t].access => u = t
          /\ A[R[t].access].source # NoKey => G[A[R[t].access].source] = G[t]

Kept(A, R, G) == Related(A, R, G) /\ OneExchange(A) /\ WithinGrant(A, R, G)

=============================================================================
