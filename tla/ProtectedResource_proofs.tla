------------------------ MODULE ProtectedResource_proofs ------------------------
(***************************************************************************)
(* Theorems about protected views, for every number of requests and        *)
(* tokens, any scopes and whatever alternatives a view declares.           *)
(***************************************************************************)
EXTENDS ProtectedResource, TLAPS

LetThrough(x) == x.phase = "served" /\ ~Preflight(x) => LoginCounts(x) \/ (Documented(x) /\ ~x.late)

Refused(x) == x.view # "rw" => RefusedOnlyWithout(x)

Settled(x) ==
    /\ LateStaysLate(x) /\ NothingRead(x) /\ FoundOrGone(x) /\ AskedFor(x) /\ AuthenticatedBy(x)
    /\ CoreFirst(x) /\ LetThrough(x) /\ Refused(x)

ListsInv == listed["protected"] = Base /\ listed["mixin"] = Base

CoresInv == \A c \in Classes : core[c] = IF Made(c) THEN Validator[c] ELSE "none"

\* A class that has a core, its own or its base's, keeps one.
CoresStay == \A c \in Classes : KeptCore(c) # "none" => KeptCore(c)' # "none"

\* The invariant, request by request.
LEMMA ByRequest == IndInv <=> TypeOK /\ OutliveRequests /\ \A r \in Requests : Settled(req[r])
BY DEF IndInv, RequestInv, Settled, NeverLetThroughWithout, OthersDoNotMatter,
       LetThrough, Refused

\* The two things that outlive requests.
LEMMA ByThing == OutliveRequests <=> ListsInv /\ CoresInv
BY DEF OutliveRequests, ListsInv, CoresInv

\* Nothing is made by a step of one request that makes nothing.
LEMMA MadeKept ==
    ASSUME req \in [Requests -> Request], NEW r \in Requests, NEW x, req' = [req EXCEPT ![r] = x],
           x.made = req[r].made, x.made => x.view = req[r].view, UNCHANGED core
    PROVE  /\ CoresInv => CoresInv'
           /\ CoresStay
<1>1. req'[r] = x /\ \A q \in Requests : q # r => req'[q] = req[q]
  OBVIOUS
<1>2. ASSUME NEW c \in Classes PROVE Made(c)' <=> Made(c)
  <2>1. \A q \in Requests : (req'[q].view = c /\ req'[q].made) <=> (req[q].view = c /\ req[q].made)
    BY <1>1
  <2> QED
    BY <2>1 DEF Made
<1>3. CoresInv => CoresInv'
  BY <1>2 DEF CoresInv
<1> QED
  BY <1>3 DEF CoresStay, KeptCore

\* ReadWriteScopeMixin and the documentation agree on what a method needs.
LEMMA MethodScope ==
    ASSUME NEW method \in Methods
    PROVE  ReadWriteScope(method) = IF method = "POST" THEN WRITE ELSE READ
BY DEF Methods, ReadWriteScope, Safe

\* The scopes a REST framework permission class computes are those it documents.
LEMMA RestDocumented ==
    ASSUME NEW x \in Request, x.view \in Rest, x.view # "oas"
    PROVE  Documented(x) <=> GetScopes(x.view, x.method) \subseteq scopeOf[x.token]
<1>1. x.method \in Methods
  BY DEF Request
<1>2. ReadWriteScope(x.method) = IF x.method = "POST" THEN WRITE ELSE READ
  BY <1>1, MethodScope
<1>3. CASE x.view \in {"has_scope", "session_or_scope"}
  BY <1>3 DEF Documented, GetScopes, Classes
<1>4. CASE x.view = "read_write"
  BY <1>2, <1>4 DEF Documented, GetScopes, Classes
<1>5. CASE x.view = "resource"
  <2>1. Documented(x) <=> \A s \in Base : Of(s, ReadWriteScope(x.method)) \in scopeOf[x.token]
    BY <1>2, <1>5 DEF Documented, Classes
  <2>2. GetScopes(x.view, x.method) = {Of(s, ReadWriteScope(x.method)) : s \in Base}
    BY <1>5 DEF GetScopes
  <2> QED
    BY <2>1, <2>2
<1> QED
  BY <1>3, <1>4, <1>5 DEF Rest

\* The world moves one way: tokens go and expire, the list of a decorator grows.
LEMMA SettledStays ==
    ASSUME NEW x \in Request, Settled(x), UNCHANGED <<scopeOf, users>>, live' \subseteq live,
           expired \subseteq expired', listed["rw"] \subseteq listed'["rw"], CoresStay
    PROVE  Settled(x)'
<1>1. InForce(x.token)' => InForce(x.token)
  BY DEF InForce
<1>2. LateStaysLate(x)' /\ NothingRead(x)' /\ FoundOrGone(x)'
  BY <1>1 DEF Settled, LateStaysLate, NothingRead, FoundOrGone
<1>3. AskedFor(x)' /\ AuthenticatedBy(x)'
  BY <1>1 DEF Settled, AskedFor, AuthenticatedBy
<1>4. Documented(x)' <=> Documented(x)
  BY DEF Documented
<1>5. LetThrough(x)' /\ Refused(x)'
  BY <1>1, <1>4 DEF Settled, LetThrough, Refused, RefusedOnlyWithout, Preflight, LoginCounts
<1>6. CoreFirst(x)'
  BY DEF Settled, CoreFirst, CoresStay
<1> QED
  BY <1>2, <1>3, <1>5, <1>6 DEF Settled

\* A step of one request, that may extend rw_protected_resource's list or make a core.
LEMMA RequestStep ==
    ASSUME IndInv, NEW r \in Requests, NEW x \in Request, req' = [req EXCEPT ![r] = x],
           UNCHANGED tokens, Settled(x)', OutliveRequests', CoresStay, listed["rw"] \subseteq listed'["rw"],
           listed' \in [{"protected", "rw", "mixin"} -> {L \in SUBSET Scopes : Base \subseteq L}],
           core' \in [Classes -> {"none", "default", "strict", "lax"}]
    PROVE  IndInv'
<1>1. req \in [Requests -> Request] /\ TypeOK
  BY DEF IndInv, TypeOK
<1>2. req' \in [Requests -> Request] /\ req'[r] = x /\ \A q \in Requests : q # r => req'[q] = req[q]
  BY <1>1
<1>3. TypeOK'
  BY <1>1, <1>2 DEF TypeOK, tokens
<1>4. ASSUME NEW q \in Requests PROVE Settled(req[q])'
  <2>1. CASE q = r
    BY <1>2, <2>1
  <2>2. CASE q # r
    <3>1. PICK y : y = req[q]
      OBVIOUS
    <3>2. Settled(y) /\ y \in Request
      BY <1>1, <3>1, ByRequest
    <3>3. Settled(y)'
      BY <3>2, SettledStays DEF tokens
    <3> QED
      BY <1>2, <2>2, <3>1, <3>3
  <2> QED
    BY <2>1, <2>2
<1>5. (TypeOK /\ OutliveRequests /\ \A q \in Requests : Settled(req[q]))'
  BY <1>3, <1>4
<1> QED
  BY <1>5 DEF IndInv, RequestInv, Settled, NeverLetThroughWithout, OthersDoNotMatter,
       LetThrough, Refused

\* One that extends no list and makes no core.
LEMMA QuietStep ==
    ASSUME IndInv, NEW r \in Requests, NEW x \in Request, req' = [req EXCEPT ![r] = x],
           UNCHANGED <<tokens, listed, core>>, Settled(x), x.made = req[r].made,
           x.made => x.view = req[r].view
    PROVE  IndInv'
<1>0. req \in [Requests -> Request] /\ OutliveRequests
  BY DEF IndInv, TypeOK
<1>4. CoresStay /\ (CoresInv => CoresInv')
  BY <1>0, MadeKept
<1>1. Settled(x)'
  BY <1>4, SettledStays DEF tokens
<1>2. OutliveRequests'
  <2>1. ListsInv /\ CoresInv
    BY <1>0, ByThing
  <2>2. ListsInv' /\ CoresInv'
    BY <1>4, <2>1 DEF ListsInv
  <2> QED
    BY <2>2 DEF OutliveRequests, ListsInv, CoresInv
<1>3. /\ listed' \in [{"protected", "rw", "mixin"} -> {L \in SUBSET Scopes : Base \subseteq L}]
      /\ core' \in [Classes -> {"none", "default", "strict", "lax"}]
      /\ listed["rw"] \subseteq listed'["rw"]
  BY DEF IndInv, TypeOK
<1> QED
  BY <1>1, <1>2, <1>3, <1>4, RequestStep

-----------------------------------------------------------------------------
\* A request that a view takes on: nothing is read of its token yet.
LEMMA BeginStep ==
    ASSUME IndInv, NEW r \in Requests, NEW v \in Views, NEW method \in Methods, NEW k \in Tokens,
           NEW required \in SUBSET Scopes, Begin(r, "called", v, method, k, required),
           UNCHANGED core, ListsInv', listed["rw"] \subseteq listed'["rw"],
           listed' \in [{"protected", "rw", "mixin"} -> {L \in SUBSET Scopes : Base \subseteq L}],
           v \in Classes => required = Base \cup {ReadWriteScope(method)},
           v = "rw" => ReadWriteScope(method) \in listed'["rw"]
    PROVE  IndInv'
<1>0. PICK late, x : /\ late = ~InForce(k)
                     /\ x = [req[r] EXCEPT !.phase = "called", !.view = v, !.method = method,
                                !.token = k, !.required = required, !.late = late]
  OBVIOUS
<1>1. req[r] \in Request /\ req[r].phase = "new" /\ Settled(req[r]) /\ late \in BOOLEAN
  BY <1>0, ByRequest DEF IndInv, TypeOK, Begin
<1>2. ~req[r].found /\ req[r].auth = "none" /\ ~req[r].made
  BY <1>1 DEF Settled, NothingRead, CoreFirst
<1>3. req' = [req EXCEPT ![r] = x] /\ UNCHANGED tokens
  BY <1>0 DEF Begin
<1>4. x.late = late /\ x.made = req[r].made
  BY <1>0, <1>1 DEF Request
<1>5. InForce(k)' = InForce(k)
  BY <1>3 DEF InForce, tokens
<1>6. late => ~InForce(k)
  BY <1>0
<1>7. /\ x \in Request /\ x.phase = "called" /\ x.view = v /\ x.method = method /\ x.token = k
      /\ x.required = required /\ x.found = req[r].found /\ x.auth = req[r].auth
  BY <1>0, <1>1 DEF Request
<1>8. Settled(x)'
  <2>1. LateStaysLate(x)' /\ NothingRead(x)' /\ FoundOrGone(x)'
    BY <1>2, <1>4, <1>5, <1>6, <1>7 DEF LateStaysLate, NothingRead, FoundOrGone
  <2>2. AskedFor(x)' /\ AuthenticatedBy(x)'
    BY <1>7 DEF AskedFor, AuthenticatedBy
  <2>3. LetThrough(x)' /\ Refused(x)' /\ CoreFirst(x)'
    BY <1>2, <1>4, <1>7 DEF LetThrough, Refused, RefusedOnlyWithout, CoreFirst
  <2> QED
    BY <2>1, <2>2, <2>3 DEF Settled
<1>9. /\ core' \in [Classes -> {"none", "default", "strict", "lax"}] /\ req \in [Requests -> Request]
      /\ OutliveRequests
  BY DEF IndInv, TypeOK
<1>10. CoresStay /\ (CoresInv => CoresInv')
  BY <1>2, <1>3, <1>4, <1>9, MadeKept
<1>11. OutliveRequests'
  <2>1. CoresInv'
    BY <1>9, <1>10, ByThing
  <2> QED
    BY <2>1 DEF OutliveRequests, ListsInv, CoresInv
<1> QED
  BY <1>3, <1>7, <1>8, <1>9, <1>10, <1>11, RequestStep
\* The decorators: rw_protected_resource's list keeps what it had and gains what the
\* request needs.
LEMMA DecoratorSteps ==
    ASSUME IndInv, NEW r \in Requests, NEW method \in Methods, NEW k \in Tokens,
           Call(r, method, k) \/ RwCall(r, method, k)
    PROVE  IndInv'
<1>0. /\ listed \in [{"protected", "rw", "mixin"} -> {L \in SUBSET Scopes : Base \subseteq L}]
      /\ OutliveRequests /\ {"protected", "rw"} \subseteq Views /\ {} \in SUBSET Scopes
  BY DEF IndInv, TypeOK, Views
<1>1. CASE Call(r, method, k)
  <2>1. Begin(r, "called", "protected", method, k, {}) /\ UNCHANGED <<listed, core>>
    BY <1>1 DEF Call
  <2>2. ListsInv' /\ "protected" \notin Classes
    BY <1>0, <2>1 DEF OutliveRequests, ListsInv, Classes
  <2> QED
    BY <1>0, <2>1, <2>2, BeginStep
<1>2. CASE RwCall(r, method, k)
  <2>1. Begin(r, "called", "rw", method, k, {}) /\ UNCHANGED core
    BY <1>2 DEF RwCall
  <2>2. ReadWriteScope(method) \in Scopes
    BY ScopesAssumption DEF ReadWriteScope
  <2>3. /\ listed' = [listed EXCEPT !["rw"] = listed["rw"] \cup {ReadWriteScope(method)}]
        /\ listed'["rw"] = listed["rw"] \cup {ReadWriteScope(method)}
    BY <1>0, <1>2 DEF RwCall
  <2>4. listed["rw"] \cup {ReadWriteScope(method)} \in {L \in SUBSET Scopes : Base \subseteq L}
    BY <1>0, <2>2
  <2>5. listed' \in [{"protected", "rw", "mixin"} -> {L \in SUBSET Scopes : Base \subseteq L}]
    BY <1>0, <2>3, <2>4
  <2>6. ListsInv' /\ "rw" \notin Classes
    BY <1>0, <2>1, <2>3 DEF OutliveRequests, ListsInv, Classes
  <2> QED
    BY <1>0, <2>1, <2>3, <2>5, <2>6, BeginStep
<1> QED
  BY <1>1, <1>2

\* The mixins compute a list of their own for each request.
LEMMA MixinCallStep ==
    ASSUME IndInv, NEW r \in Requests, NEW c \in Classes, NEW method \in Methods, NEW k \in Tokens,
           MixinCall(r, c, method, k)
    PROVE  IndInv'
<1>1. /\ listed \in [{"protected", "rw", "mixin"} -> {L \in SUBSET Scopes : Base \subseteq L}]
      /\ OutliveRequests /\ c \in Views /\ c # "rw"
  BY DEF IndInv, TypeOK, Views, Classes
<1>2. PICK required : required = Base \cup {ReadWriteScope(method)}
  OBVIOUS
<1>3. required \in SUBSET Scopes
  BY <1>2, ScopesAssumption DEF ReadWriteScope
<1>4. Begin(r, "called", c, method, k, required) /\ UNCHANGED <<listed, core>>
  BY <1>1, <1>2 DEF MixinCall, OutliveRequests
<1>5. ListsInv'
  BY <1>1, <1>4 DEF OutliveRequests, ListsInv
<1> QED
  BY <1>1, <1>2, <1>3, <1>4, <1>5, BeginStep

\* A preflight request is let through unseen.
LEMMA MixinPreflightStep ==
    ASSUME IndInv, NEW r \in Requests, NEW c \in Classes, MixinPreflight(r, c)
    PROVE  IndInv'
<1>1. PICK k \in Tokens : Begin(r, "served", c, "OPTIONS", k, {})
  BY DEF MixinPreflight
<1>0. PICK late, x : /\ late = ~InForce(k)
                     /\ x = [req[r] EXCEPT !.phase = "served", !.view = c, !.method = "OPTIONS",
                                !.token = k, !.required = {}, !.late = late]
  OBVIOUS
<1>2. /\ req[r] \in Request /\ req[r].phase = "new" /\ Settled(req[r]) /\ late \in BOOLEAN
      /\ c \in Views /\ "OPTIONS" \in Methods
  BY <1>0, <1>1, ByRequest DEF IndInv, TypeOK, Begin, Views, Methods
<1>3. ~req[r].found /\ ~req[r].made
  BY <1>2 DEF Settled, NothingRead, CoreFirst
<1>4. req' = [req EXCEPT ![r] = x] /\ UNCHANGED <<tokens, listed, core>>
  BY <1>0, <1>1 DEF Begin, MixinPreflight
<1>5. x.late = late /\ x.made = req[r].made
  BY <1>0, <1>2 DEF Request
<1>6. late => ~InForce(k)
  BY <1>0
<1>7. /\ x \in Request /\ x.phase = "served" /\ x.view = c /\ x.method = "OPTIONS" /\ x.token = k
      /\ x.found = req[r].found
  BY <1>0, <1>2 DEF Request
<1>8. Settled(x)
  <2>1. LateStaysLate(x) /\ NothingRead(x) /\ FoundOrGone(x)
    BY <1>3, <1>5, <1>6, <1>7 DEF LateStaysLate, NothingRead, FoundOrGone
  <2>2. AskedFor(x) /\ AuthenticatedBy(x)
    BY <1>7 DEF AskedFor, AuthenticatedBy
  <2>3. LetThrough(x) /\ Refused(x) /\ CoreFirst(x)
    BY <1>7 DEF LetThrough, Refused, RefusedOnlyWithout, CoreFirst, Preflight
  <2> QED
    BY <2>1, <2>2, <2>3 DEF Settled
<1> QED
  BY <1>3, <1>4, <1>5, <1>7, <1>8, QuietStep

\* REST framework views and the middleware begin with whoever is logged in.
LEMMA SessionSteps ==
    ASSUME IndInv, NEW r \in Requests, NEW v \in Rest, NEW method \in Methods, NEW k \in Tokens,
           NEW session \in BOOLEAN, NEW sessionFirst \in BOOLEAN,
           RestCall(r, v, method, k, session, sessionFirst) \/ MiddlewareCall(r, k, session)
    PROVE  IndInv'
<1>1. req[r] \in Request /\ req[r].phase = "new" /\ Settled(req[r])
  BY ByRequest DEF IndInv, TypeOK, RestCall, MiddlewareCall
<1>2. ~req[r].found /\ ~req[r].made
  BY <1>1 DEF Settled, NothingRead, CoreFirst
<1>3. ASSUME NEW view \in Views, NEW phase, NEW auth, NEW m \in Methods, NEW late \in BOOLEAN, NEW x,
             x = [req[r] EXCEPT !.phase = phase, !.auth = auth, !.view = view, !.method = m,
                     !.token = k, !.session = session, !.late = late],
             late => ~InForce(k), req' = [req EXCEPT ![r] = x], UNCHANGED <<tokens, listed, core>>,
             view \notin Classes, view # "rw",
             \/ phase = "called" /\ auth = "none"
             \/ phase = "authenticated" /\ auth = "session" /\ session /\ view \in Rest
             \/ phase = "served" /\ auth = "session" /\ session /\ view = "middleware"
      PROVE  IndInv'
  <2>1. /\ x \in Request /\ x.phase = phase /\ x.view = view /\ x.token = k /\ x.auth = auth
        /\ x.found = req[r].found
    BY <1>1, <1>3 DEF Request
  <2>2. x.late = late /\ x.session = session /\ x.made = req[r].made
    BY <1>1, <1>3 DEF Request
  <2>3. LateStaysLate(x) /\ NothingRead(x) /\ FoundOrGone(x)
    BY <1>2, <1>3, <2>1, <2>2 DEF LateStaysLate, NothingRead, FoundOrGone
  <2>4. AskedFor(x) /\ AuthenticatedBy(x)
    BY <1>3, <2>1, <2>2 DEF AskedFor, AuthenticatedBy
  <2>5. LetThrough(x) /\ Refused(x) /\ CoreFirst(x)
    BY <1>2, <1>3, <2>1, <2>2 DEF LetThrough, LoginCounts, Refused, RefusedOnlyWithout, CoreFirst
  <2>6. Settled(x)
    BY <2>3, <2>4, <2>5 DEF Settled
  <2> QED
    BY <1>2, <1>3, <2>1, <2>2, <2>6, QuietStep
<1>4. PICK late : late \in BOOLEAN /\ late = ~InForce(k)
  OBVIOUS
<1>5. late => ~InForce(k)
  BY <1>4
<1>6. CASE RestCall(r, v, method, k, session, sessionFirst)
  <2>1. PICK phase, auth : /\ phase = IF session /\ sessionFirst THEN "authenticated" ELSE "called"
                           /\ auth = IF session /\ sessionFirst THEN "session" ELSE "none"
    OBVIOUS
  <2>2. PICK x : x = [req[r] EXCEPT !.phase = phase, !.auth = auth, !.view = v, !.method = method,
                         !.token = k, !.session = session, !.late = late]
    OBVIOUS
  <2>3. req' = [req EXCEPT ![r] = x] /\ UNCHANGED <<tokens, listed, core>>
    BY <1>4, <1>6, <2>1, <2>2 DEF RestCall
  <2>4. v \in Views /\ v \notin Classes /\ v # "rw"
    BY DEF Views, Rest, Classes
  <2>5. \/ phase = "called" /\ auth = "none"
        \/ phase = "authenticated" /\ auth = "session" /\ session
    BY <2>1
  <2> QED
    BY <1>3, <1>4, <1>5, <2>2, <2>3, <2>4, <2>5
<1>7. CASE MiddlewareCall(r, k, session)
  <2>1. PICK phase, auth : /\ phase = IF session THEN "served" ELSE "called"
                           /\ auth = IF session THEN "session" ELSE "none"
    OBVIOUS
  <2>2. PICK x : x = [req[r] EXCEPT !.phase = phase, !.auth = auth, !.view = "middleware",
                         !.method = req[r].method, !.token = k, !.session = session, !.late = late]
    OBVIOUS
  <2>3. req' = [req EXCEPT ![r] = x] /\ UNCHANGED <<tokens, listed, core>>
    BY <1>1, <1>4, <1>7, <2>1, <2>2 DEF MiddlewareCall, Request
  <2>4. "middleware" \in Views /\ "middleware" \notin Classes /\ req[r].method \in Methods
    BY <1>1 DEF Views, Classes, Request
  <2>5. \/ phase = "called" /\ auth = "none"
        \/ phase = "served" /\ auth = "session" /\ session
    BY <2>1
  <2> QED
    BY <1>3, <1>4, <1>5, <2>2, <2>3, <2>4, <2>5
<1> QED
  BY <1>6, <1>7
-----------------------------------------------------------------------------
\* get_oauthlib_core looks for a core.
LEMMA FindCoreStep ==
    ASSUME IndInv, NEW r \in Requests, FindCore(r)
    PROVE  IndInv'
<1> DEFINE y == req[r]
<1>1. PICK phase : phase = IF AlwaysReload \/ KeptCore(y.view) = "none" THEN "making" ELSE "cored"
  OBVIOUS
<1>2. PICK x : x = [y EXCEPT !.phase = phase]
  OBVIOUS
<1>3. y \in Request /\ y.phase = "called" /\ y.view \in Classes /\ Settled(y)
  BY ByRequest DEF IndInv, TypeOK, FindCore
<1>4. req' = [req EXCEPT ![r] = x] /\ UNCHANGED <<tokens, listed, core>>
  BY <1>1, <1>2 DEF FindCore
<1>5. phase \in {"making", "cored"} /\ (phase = "cored" => KeptCore(y.view) # "none")
  BY <1>1
<1>6. /\ x \in Request /\ x.phase = phase /\ x.view = y.view /\ x.method = y.method
      /\ x.token = y.token /\ x.required = y.required /\ x.auth = y.auth
  BY <1>2, <1>3, <1>5 DEF Request
<1>7. x.found = y.found /\ x.late = y.late /\ x.made = y.made
  BY <1>2, <1>3, <1>5 DEF Request
<1> HIDE DEF y
<1>8. LateStaysLate(x) /\ NothingRead(x) /\ FoundOrGone(x) /\ AskedFor(x)
  BY <1>3, <1>5, <1>6, <1>7 DEF Settled, LateStaysLate, NothingRead, FoundOrGone, AskedFor
<1>9. AuthenticatedBy(x) /\ CoreFirst(x) /\ LetThrough(x) /\ Refused(x)
  BY <1>3, <1>5, <1>6, <1>7 DEF Settled, AuthenticatedBy, CoreFirst, LetThrough, Refused, RefusedOnlyWithout
<1>10. Settled(x)
  BY <1>8, <1>9 DEF Settled
<1> QED
  BY <1>4, <1>6, <1>7, <1>10, QuietStep DEF y

\* A core is made: from now on its class has one of its own.
LEMMA MakeCoreStep ==
    ASSUME IndInv, NEW r \in Requests, MakeCore(r)
    PROVE  IndInv'
<1> DEFINE y == req[r]
<1>1. PICK x : x = [y EXCEPT !.phase = "cored", !.made = TRUE]
  OBVIOUS
<1>2. /\ y \in Request /\ y.phase = "making" /\ Settled(y) /\ OutliveRequests
      /\ req \in [Requests -> Request] /\ core \in [Classes -> {"none", "default", "strict", "lax"}]
      /\ listed \in [{"protected", "rw", "mixin"} -> {L \in SUBSET Scopes : Base \subseteq L}]
  BY ByRequest DEF IndInv, TypeOK, MakeCore
<1>3. y.view \in Classes
  BY <1>2 DEF Settled, CoreFirst
<1>4. /\ req' = [req EXCEPT ![r] = x] /\ UNCHANGED <<tokens, listed>>
      /\ core' = [core EXCEPT ![y.view] = Validator[y.view]]
  BY <1>1 DEF MakeCore
<1>5. \A c \in Classes : Validator[c] \in {"default", "strict", "lax"}
  BY DEF Classes, Validator
<1>6. /\ x \in Request /\ x.phase = "cored" /\ x.view = y.view /\ x.method = y.method
      /\ x.token = y.token /\ x.required = y.required /\ x.auth = y.auth
  BY <1>1, <1>2 DEF Request
<1>7. x.found = y.found /\ x.late = y.late /\ x.made
  BY <1>1, <1>2 DEF Request
<1> HIDE DEF y
<1>16. req \in [Requests -> Request] /\ req' = [req EXCEPT ![r] = x]
  BY <1>2, <1>4
<1>17. /\ core \in [Classes -> {"none", "default", "strict", "lax"}]
       /\ core' = [core EXCEPT ![y.view] = Validator[y.view]]
  BY <1>2, <1>4
<1>8. core' \in [Classes -> {"none", "default", "strict", "lax"}] /\ core'[y.view] # "none"
  BY <1>2, <1>3, <1>4, <1>5
<1>9. CoresStay
  <2>1. \A c \in Classes : core[c] # "none" => core'[c] # "none"
    BY <1>2, <1>3, <1>4, <1>5
  <2> QED
    BY <2>1 DEF CoresStay, KeptCore, Classes
<1>10. CoresInv'
  <2>1. CoresInv
    BY <1>2, ByThing
  <2>2. req'[r] = x /\ \A q \in Requests : q # r => req'[q] = req[q]
    BY <1>16
  <2>3. \A c \in Classes : c = y.view => Made(c)'
    BY <1>6, <1>7, <2>2 DEF Made
  <2>4. \A c \in Classes : c # y.view => (Made(c)' <=> Made(c))
    BY <1>6, <2>2 DEF Made, y
  <2>5. core'[y.view] = Validator[y.view] /\ \A c \in Classes : c # y.view => core'[c] = core[c]
    BY <1>3, <1>17
  <2> QED
    BY <2>1, <2>3, <2>4, <2>5 DEF CoresInv
<1>11. OutliveRequests'
  BY <1>2, <1>4, <1>10 DEF OutliveRequests, CoresInv
<1>12. LateStaysLate(x) /\ NothingRead(x) /\ FoundOrGone(x) /\ AskedFor(x)
  BY <1>2, <1>6, <1>7 DEF Settled, LateStaysLate, NothingRead, FoundOrGone, AskedFor
<1>13. AuthenticatedBy(x) /\ LetThrough(x) /\ Refused(x)
  BY <1>6 DEF AuthenticatedBy, LetThrough, Refused, RefusedOnlyWithout
<1>14. Settled(x)'
  <2>1. LateStaysLate(x)' /\ NothingRead(x)' /\ FoundOrGone(x)'
    BY <1>4, <1>12 DEF LateStaysLate, NothingRead, FoundOrGone, InForce, tokens
  <2>2. AskedFor(x)' /\ AuthenticatedBy(x)' /\ LetThrough(x)' /\ Refused(x)'
    BY <1>4, <1>6, <1>12 DEF AskedFor, AuthenticatedBy, LetThrough, Refused, RefusedOnlyWithout
  <2>3. CoreFirst(x)'
    BY <1>3, <1>6, <1>8 DEF CoreFirst, KeptCore
  <2> QED
    BY <2>1, <2>2, <2>3 DEF Settled
<1>15. listed["rw"] \subseteq listed'["rw"] /\ listed' = listed
  BY <1>4
<1> QED
  BY <1>2, <1>4, <1>6, <1>8, <1>9, <1>11, <1>14, <1>15, RequestStep

\* A class that has been asked for a core has one, its own or its base's.
LEMMA CoreKept ==
    ASSUME IndInv, NEW c \in Classes, KeptCore(c) # "none"
    PROVE  KeptCore(c) = Validator[IF c = "child" /\ Made("mixin") /\ ~Made("child") THEN "mixin" ELSE c]
<1>1. \A d \in Classes : core[d] = IF Made(d) THEN Validator[d] ELSE "none"
  BY DEF IndInv, OutliveRequests
<1>2. \A d \in Classes : Validator[d] # "none"
  BY DEF Validator, Classes
<1>3. CASE c = "child"
  <2>1. core["child"] = (IF Made("child") THEN Validator["child"] ELSE "none")
    BY <1>1 DEF Classes
  <2>2. core["mixin"] = (IF Made("mixin") THEN Validator["mixin"] ELSE "none")
    BY <1>1 DEF Classes
  <2>3. Validator["child"] # "none"
    BY DEF Validator, Classes
  <2> QED
    BY <1>3, <2>1, <2>2, <2>3 DEF KeptCore
<1>4. CASE c # "child"
  BY <1>1, <1>4 DEF KeptCore
<1> QED
  BY <1>3, <1>4

\* get_oauthlib_core returns and _load_access_token: a row that is not found is gone for good.
LEMMA LoadStep ==
    ASSUME IndInv, NEW r \in Requests, Load(r)
    PROVE  IndInv'
<1> DEFINE y == req[r]
<1>0. PICK validator : validator = IF y.view \in Classes THEN KeptCore(y.view) ELSE "default"
  OBVIOUS
<1>1. PICK found : found \in BOOLEAN /\ found = (y.token \in live)
  <2>1. (y.token \in live) \in BOOLEAN
    OBVIOUS
  <2> HIDE DEF y
  <2> QED
    BY <2>1, Zenon
<1>2. PICK x : x = [y EXCEPT !.phase = "loaded", !.found = found, !.validator = validator]
  OBVIOUS
<1>3. /\ y \in Request /\ y.phase \in {"called", "cored"} /\ Settled(y)
      /\ y.view \in Classes => y.phase = "cored"
  BY ByRequest DEF IndInv, TypeOK, Load
<1>4. req' = [req EXCEPT ![r] = x] /\ UNCHANGED <<tokens, listed, core>>
  BY <1>0, <1>1, <1>2 DEF Load
<1>5. \A c \in Classes : Validator[c] \in {"default", "strict", "lax"}
  BY DEF Classes, Validator
<1>6. y.view \in Classes => KeptCore(y.view) # "none"
  BY <1>3 DEF Settled, CoreFirst
<1>8. validator \in {"default", "strict", "lax"}
  BY <1>0, <1>5, <1>6, CoreKept DEF Classes
<1>10. /\ x \in Request /\ x.phase = "loaded" /\ x.view = y.view /\ x.method = y.method
       /\ x.token = y.token /\ x.required = y.required /\ x.auth = y.auth /\ x.session = y.session
  BY <1>1, <1>2, <1>3, <1>8 DEF Request
<1>11. x.found = found /\ x.late = y.late /\ x.made = y.made
  BY <1>1, <1>2, <1>3, <1>8 DEF Request
<1>16. x.found => x.token \in live
  BY <1>1, <1>10, <1>11
<1>17. ~x.found => x.token \notin live
  BY <1>1, <1>10, <1>11
<1> HIDE DEF y
<1>13. LateStaysLate(x) /\ NothingRead(x) /\ FoundOrGone(x)
  BY <1>3, <1>10, <1>11, <1>16, <1>17 DEF Settled, LateStaysLate, NothingRead, FoundOrGone, InForce
<1>14. AskedFor(x) /\ AuthenticatedBy(x) /\ CoreFirst(x)
  BY <1>3, <1>10 DEF Settled, AskedFor, AuthenticatedBy, CoreFirst
<1>15. LetThrough(x) /\ Refused(x)
  BY <1>10 DEF LetThrough, Refused, RefusedOnlyWithout
<1>12. Settled(x)
  BY <1>13, <1>14, <1>15 DEF Settled
<1> QED
  BY <1>4, <1>10, <1>11, <1>12, QuietStep DEF y

\* A verdict on what was read: let through with everything documented, refused for a
\* reason of the request's own.
LEMMA VerdictStep ==
    ASSUME IndInv, NEW r \in Requests, NEW phase \in {"served", "forbidden"},
           req' = [req EXCEPT ![r] = [@ EXCEPT !.phase = phase]], UNCHANGED <<tokens, listed, core>>,
           req[r].phase = "loaded" \/ (req[r].phase = "authenticated" /\ req[r].view \in Rest),
           phase = "served" => LoginCounts(req[r])
                               \/ (IsValid(req[r], {}) /\ Documented(req[r])),
           phase = "forbidden" /\ req[r].view # "rw" =>
                ~InForce(req[r].token) \/ ~Documented(req[r]) \/ req[r].auth = "session"
    PROVE  IndInv'
<1> DEFINE y == req[r]
<1>1. y \in Request /\ Settled(y)
  BY ByRequest DEF IndInv, TypeOK
<1>2. PICK x : x = [y EXCEPT !.phase = phase]
  OBVIOUS
<1>3. /\ x \in Request /\ x.phase = phase /\ x.view = y.view /\ x.method = y.method /\ x.token = y.token
      /\ x.required = y.required /\ x.auth = y.auth /\ x.found = y.found
  BY <1>1, <1>2 DEF Request
<1>7. x.late = y.late /\ x.session = y.session /\ x.made = y.made
  BY <1>1, <1>2 DEF Request
<1>4. req' = [req EXCEPT ![r] = x]
  BY <1>2
<1> HIDE DEF y
<1>5. Documented(x) <=> Documented(y)
  BY <1>3 DEF Documented
<1>6. Settled(x)
  <2>1. LateStaysLate(x) /\ NothingRead(x) /\ FoundOrGone(x)
    BY <1>1, <1>3, <1>7 DEF Settled, LateStaysLate, NothingRead, FoundOrGone
  <2>2. AskedFor(x) /\ AuthenticatedBy(x)
    BY <1>3 DEF AskedFor, AuthenticatedBy
  <2>3. LetThrough(x)
    <3>1. phase = "served" => LoginCounts(y) \/ (IsValid(y, {}) /\ Documented(y))
      BY DEF y
    <3>2. IsValid(y, {}) => ~y.late
      BY <1>1 DEF Settled, LateStaysLate, IsValid
    <3> QED
      BY <1>3, <1>5, <1>7, <3>1, <3>2 DEF LetThrough, LoginCounts
  <2>4. Refused(x)
    BY <1>3, <1>5 DEF Refused, RefusedOnlyWithout, y
  <2>5. CoreFirst(x)
    BY <1>3 DEF CoreFirst
  <2> QED
    BY <2>1, <2>2, <2>3, <2>4, <2>5 DEF Settled
<1> QED
  BY <1>3, <1>4, <1>6, <1>7, QuietStep DEF y

\* A verdict is one of two.
LEMMA VerdictPhase ==
    ASSUME NEW r \in Requests, NEW allowed, Verdict(r, allowed)
    PROVE  \E phase \in {"served", "forbidden"} :
              /\ phase = "served" => allowed
              /\ phase = "forbidden" => ~allowed
              /\ req' = [req EXCEPT ![r] = [@ EXCEPT !.phase = phase]]
              /\ UNCHANGED <<tokens, listed, core>>
<1>1. CASE allowed
  BY <1>1 DEF Verdict
<1>2. CASE ~allowed
  BY <1>2 DEF Verdict
<1> QED
  BY <1>1, <1>2
\* is_valid, on the row read and the scopes the view asks for.
LEMMA DecideStep ==
    ASSUME IndInv, NEW r \in Requests, Decide(r)
    PROVE  IndInv'
<1> DEFINE y == req[r]
<1>1. /\ y \in Request /\ y.phase = "loaded" /\ y.view \notin Rest /\ Settled(y) /\ OutliveRequests
      /\ y.method \in Methods
  BY ByRequest DEF IndInv, TypeOK, Decide, Request
<1>2. /\ ~y.found => y.token \notin live
      /\ y.view \in Classes => y.required = Base \cup {ReadWriteScope(y.method)}
      /\ y.view = "rw" => ReadWriteScope(y.method) \in listed["rw"]
      /\ y.auth = "none"
  BY <1>1 DEF Settled, FoundOrGone, AskedFor, NothingRead
<1>3. ReadWriteScope(y.method) = IF y.method = "POST" THEN WRITE ELSE READ
  BY <1>1, MethodScope
<1>4. ASSUME NEW scopes, Verdict(r, IsValid(y, scopes)),
             scopes \subseteq scopeOf[y.token] => Documented(y),
             y.view = "rw" \/ (Documented(y) => scopes \subseteq scopeOf[y.token])
      PROVE  IndInv'
  <2>1. PICK phase \in {"served", "forbidden"} :
              /\ phase = "served" => IsValid(y, scopes)
              /\ phase = "forbidden" => ~IsValid(y, scopes)
              /\ req' = [req EXCEPT ![r] = [@ EXCEPT !.phase = phase]]
              /\ UNCHANGED <<tokens, listed, core>>
    BY <1>4, VerdictPhase
  <2>2. phase = "served" => IsValid(y, {}) /\ Documented(y)
    BY <1>4, <2>1 DEF IsValid
  <2>3. phase = "forbidden" /\ y.view # "rw" => ~InForce(y.token) \/ ~Documented(y)
    BY <1>2, <1>4, <2>1 DEF IsValid, InForce
  <2> QED
    BY <1>1, <2>1, <2>2, <2>3, VerdictStep
<1>5. CASE y.view \in Classes
  <2>1. Verdict(r, IsValid(y, y.required))
    BY <1>5 DEF Decide, Classes
  <2>2. Documented(y) <=> y.required \subseteq scopeOf[y.token]
    BY <1>2, <1>3, <1>5 DEF Documented, Classes
  <2> QED
    BY <1>4, <2>1, <2>2
<1>6. CASE y.view = "middleware"
  <2>1. PICK phase \in {"served", "forbidden"} :
              /\ phase = "served" => IsValid(y, {}) /\ y.token \in users
              /\ phase = "forbidden" => ~(IsValid(y, {}) /\ y.token \in users)
              /\ req' = [req EXCEPT ![r] = [@ EXCEPT !.phase = phase]]
              /\ UNCHANGED <<tokens, listed, core>>
    <3>1. Verdict(r, IsValid(y, {}) /\ y.token \in users)
      BY <1>6 DEF Decide, Classes
    <3> QED
      BY <3>1, VerdictPhase
  <2>2. Documented(y) <=> y.token \in users
    BY <1>6 DEF Documented, Classes
  <2>3. phase = "forbidden" => ~InForce(y.token) \/ ~Documented(y)
    BY <1>2, <2>1, <2>2 DEF IsValid, InForce
  <2> QED
    BY <1>1, <2>1, <2>2, <2>3, VerdictStep
<1>7. CASE y.view \in {"protected", "rw"}
  <2>1. Verdict(r, IsValid(y, listed[y.view]))
    BY <1>7 DEF Decide, Classes
  <2>2. Base \subseteq listed["rw"] /\ listed["protected"] = Base
    BY <1>1 DEF IndInv, TypeOK, OutliveRequests
  <2>3. CASE y.view = "protected"
    <3>1. Documented(y) <=> Base \subseteq scopeOf[y.token]
      BY <2>3 DEF Documented, Classes
    <3>2. listed[y.view] = Base
      BY <2>2, <2>3
    <3> QED
      BY <1>4, <2>1, <3>1, <3>2
  <2>4. CASE y.view = "rw"
    <3>1. Documented(y) <=> Base \cup {ReadWriteScope(y.method)} \subseteq scopeOf[y.token]
      BY <1>3, <2>4 DEF Documented
    <3> QED
      BY <1>2, <1>4, <2>1, <2>2, <2>4, <3>1
  <2> QED
    BY <1>7, <2>3, <2>4
<1> QED
  BY <1>1, <1>5, <1>6, <1>7 DEF Request, Views

\* Authentication asks for no scope; a token that does not authenticate is out of force.
LEMMA AuthenticateStep ==
    ASSUME IndInv, NEW r \in Requests, Authenticate(r)
    PROVE  IndInv'
<1> DEFINE y == req[r]
<1>0. PICK auth : auth = IF IsValid(y, {}) THEN "token" ELSE IF y.session THEN "session" ELSE "none"
  OBVIOUS
<1>1. PICK x : x = [y EXCEPT !.phase = "authenticated", !.auth = auth]
  OBVIOUS
<1>2. /\ y \in Request /\ y.phase = "loaded" /\ y.view \in Rest /\ Settled(y)
  BY ByRequest DEF IndInv, TypeOK, Authenticate
<1>3. req' = [req EXCEPT ![r] = x] /\ UNCHANGED <<tokens, listed, core>>
  BY <1>0, <1>1 DEF Authenticate
<1>4. ~y.found => y.token \notin live
  BY <1>2 DEF Settled, FoundOrGone, NothingRead
<1>5. /\ auth \in {"none", "session", "token"}
      /\ auth = "none" => ~InForce(y.token)
      /\ auth = "session" => y.session
  BY <1>0, <1>4 DEF IsValid, InForce
<1>6. /\ x \in Request /\ x.phase = "authenticated" /\ x.view = y.view /\ x.token = y.token
      /\ x.auth = auth /\ x.session = y.session /\ x.found = y.found
  BY <1>1, <1>2, <1>5 DEF Request
<1>9. x.late = y.late /\ x.made = y.made
  BY <1>1, <1>2 DEF Request
<1> HIDE DEF y
<1>7. LateStaysLate(x) /\ NothingRead(x) /\ FoundOrGone(x)
  BY <1>2, <1>4, <1>6, <1>9 DEF Settled, LateStaysLate, NothingRead, FoundOrGone
<1>10. AskedFor(x) /\ AuthenticatedBy(x)
  BY <1>2, <1>5, <1>6 DEF AskedFor, AuthenticatedBy
<1>11. LetThrough(x) /\ Refused(x) /\ CoreFirst(x)
  BY <1>6 DEF LetThrough, Refused, RefusedOnlyWithout, CoreFirst
<1>8. Settled(x)
  BY <1>7, <1>10, <1>11 DEF Settled
<1> QED
  BY <1>3, <1>6, <1>8, <1>9, QuietStep DEF y

\* The permission classes look at what the token was authorized for, or at the login.
LEMMA PermitStep ==
    ASSUME IndInv, NEW r \in Requests, Permit(r)
    PROVE  IndInv'
<1> DEFINE y == req[r]
<1>1. y \in Request /\ y.phase = "authenticated" /\ Settled(y)
  BY ByRequest DEF IndInv, TypeOK, Permit
<1>2. /\ y.view \in Rest /\ y.auth = "session" => y.session
      /\ y.view \in Rest /\ y.auth = "none" => ~InForce(y.token)
      /\ y.auth = "token" /\ ~y.found => y.token \notin live
      /\ y.view \in Rest /\ y.auth \in {"none", "session", "token"}
  BY <1>1 DEF Settled, AuthenticatedBy, FoundOrGone, Request
<1>3. ASSUME NEW allowed, Verdict(r, allowed),
             allowed => LoginCounts(y) \/ (IsValid(y, {}) /\ Documented(y)),
             ~allowed => y.auth # "token" \/ ~IsValid(y, {}) \/ ~Documented(y)
      PROVE  IndInv'
  <2>1. PICK phase \in {"served", "forbidden"} :
              /\ phase = "served" => allowed
              /\ phase = "forbidden" => ~allowed
              /\ req' = [req EXCEPT ![r] = [@ EXCEPT !.phase = phase]]
              /\ UNCHANGED <<tokens, listed, core>>
    BY <1>3, VerdictPhase
  <2>2. phase = "forbidden" => ~InForce(y.token) \/ ~Documented(y) \/ y.auth = "session"
    <3>1. y.auth = "token" /\ ~IsValid(y, {}) => ~InForce(y.token)
      BY <1>2 DEF IsValid, InForce
    <3> QED
      BY <1>2, <1>3, <2>1, <3>1
  <2> QED
    BY <1>1, <1>2, <1>3, <2>1, <2>2, VerdictStep
<1>4. y.view # "oas" => (TokenHasScope(y) <=> y.auth = "token" /\ IsValid(y, {}) /\ Documented(y))
  BY <1>1, <1>2, RestDocumented DEF TokenHasScope, IsValid
<1>5. CASE y.view = "oas"
  <2>1. Verdict(r, TokenMatchesOASRequirements(y))
    BY <1>5 DEF Permit
  <2>2. Documented(y) <=> y.method \in DOMAIN Alternates
                          /\ \E alt \in Alternates[y.method] : alt \subseteq scopeOf[y.token]
    BY <1>5 DEF Documented, Classes
  <2>3. TokenMatchesOASRequirements(y) <=> y.auth = "token" /\ IsValid(y, {}) /\ Documented(y)
    BY <2>2 DEF TokenMatchesOASRequirements, IsValid
  <2> QED
    BY <1>3, <2>1, <2>3
<1>6. CASE y.view = "session_or_scope"
  <2>1. Verdict(r, IsAuthenticatedOrTokenHasScope(y))
    BY <1>6 DEF Permit
  <2>2. IsAuthenticatedOrTokenHasScope(y) <=> y.auth = "session" \/ TokenHasScope(y)
    BY DEF IsAuthenticatedOrTokenHasScope, IsAuthenticated
  <2>3. y.auth = "session" => LoginCounts(y)
    BY <1>2, <1>6 DEF LoginCounts
  <2> QED
    BY <1>3, <1>4, <1>6, <2>1, <2>2, <2>3
<1>7. CASE y.view \notin {"oas", "session_or_scope"}
  <2>1. Verdict(r, TokenHasScope(y))
    BY <1>7 DEF Permit
  <2> QED
    BY <1>3, <1>4, <1>7, <2>1
<1> QED
  BY <1>5, <1>6, <1>7

\* A token goes or expires: nothing that was settled is undone.
LEMMA RevokeOrExpireStep ==
    ASSUME IndInv, NEW k \in Tokens, Revoke(k) \/ Expire(k)
    PROVE  IndInv'
<1>1. /\ live' \subseteq live /\ expired \subseteq expired' /\ expired' \subseteq expired \cup {k}
      /\ UNCHANGED <<scopeOf, users, listed, core, req>>
  BY DEF Revoke, Expire
<1>2. TypeOK' /\ OutliveRequests' /\ CoresStay
  BY <1>1 DEF IndInv, TypeOK, OutliveRequests, Made, CoresStay, KeptCore
<1>3. ASSUME NEW q \in Requests PROVE Settled(req[q])'
  <2>1. PICK y : y = req[q]
    OBVIOUS
  <2>2. Settled(y) /\ y \in Request
    BY <2>1, ByRequest DEF IndInv, TypeOK
  <2>3. Settled(y)'
    BY <1>1, <1>2, <2>2, SettledStays
  <2> QED
    BY <1>1, <2>1, <2>3
<1>4. (TypeOK /\ OutliveRequests /\ \A q \in Requests : Settled(req[q]))'
  BY <1>2, <1>3
<1> QED
  BY <1>4 DEF IndInv, RequestInv, Settled, NeverLetThroughWithout, OthersDoNotMatter,
       LetThrough, Refused
-----------------------------------------------------------------------------
\* The views begin with their own list and no core.
LEMMA InitInv == Init => IndInv
<1> SUFFICES ASSUME Init PROVE IndInv
  OBVIOUS
<1>1. NewRequest.token \in Tokens
  BY ScopesAssumption DEF NewRequest
<1>2. NewRequest \in Request
  BY <1>1 DEF NewRequest, Request, Views, Methods
<1>3. TypeOK
  BY <1>2, ScopesAssumption DEF Init, TypeOK
<1>5. \A r \in Requests : req[r] = NewRequest
  BY DEF Init
<1>4. OutliveRequests
  BY <1>5 DEF Init, OutliveRequests, Made, NewRequest
<1>6. /\ NewRequest.phase = "new" /\ ~NewRequest.late /\ ~NewRequest.found /\ NewRequest.auth = "none"
      /\ ~NewRequest.made
  BY DEF NewRequest
<1>7. Settled(NewRequest)
  BY <1>6 DEF Settled, LateStaysLate, NothingRead, FoundOrGone, AskedFor, AuthenticatedBy, CoreFirst,
              LetThrough, Refused, RefusedOnlyWithout
<1> QED
  BY <1>3, <1>4, <1>5, <1>7, ByRequest

\* Every action keeps it.
LEMMA NextInv == IndInv /\ [Next]_vars => IndInv'
<1> SUFFICES ASSUME IndInv, [Next]_vars PROVE IndInv'
  OBVIOUS
<1>1. ASSUME NEW r \in Requests, Serve(r) PROVE IndInv'
  <2>7. CASE FindCore(r) \/ MakeCore(r)
    BY <2>7, FindCoreStep, MakeCoreStep
  <2>1. CASE Load(r) \/ Decide(r) \/ Authenticate(r) \/ Permit(r)
    BY <2>1, LoadStep, DecideStep, AuthenticateStep, PermitStep
  <2>2. ASSUME NEW method \in Methods, NEW k \in Tokens, Call(r, method, k) \/ RwCall(r, method, k)
        PROVE  IndInv'
    BY <2>2, DecoratorSteps
  <2>3. ASSUME NEW method \in Methods, NEW k \in Tokens, NEW c \in Classes, MixinCall(r, c, method, k)
        PROVE  IndInv'
    BY <2>3, MixinCallStep
  <2>4. ASSUME NEW method \in Methods, NEW k \in Tokens, NEW v \in Rest, NEW session \in BOOLEAN,
               NEW sessionFirst \in BOOLEAN, RestCall(r, v, method, k, session, sessionFirst)
        PROVE  IndInv'
    BY <2>4, SessionSteps
  <2>5. ASSUME NEW c \in Classes, MixinPreflight(r, c) PROVE IndInv'
    BY <2>5, MixinPreflightStep
  <2>6. ASSUME NEW k \in Tokens, NEW session \in BOOLEAN, MiddlewareCall(r, k, session) PROVE IndInv'
    <3>1. PICK v \in Rest, method \in Methods, sessionFirst \in BOOLEAN : TRUE
      BY DEF Rest, Methods
    <3> QED
      BY <2>6, <3>1, SessionSteps
  <2> QED
    BY <1>1, <2>1, <2>2, <2>3, <2>4, <2>5, <2>6, <2>7 DEF Serve
<1>2. ASSUME NEW k \in Tokens, Revoke(k) \/ Expire(k) PROVE IndInv'
  BY <1>2, RevokeOrExpireStep
<1>3. CASE UNCHANGED vars
  <2>1. UNCHANGED <<scopeOf, users, live, expired, listed, core, req>>
    BY <1>3 DEF vars, tokens
  <2>2. (TypeOK /\ OutliveRequests)' /\ CoresStay /\ \A r \in Requests : Settled(req[r])
    BY <2>1, ByRequest DEF TypeOK, OutliveRequests, Made, CoresStay, KeptCore
  <2>3. ASSUME NEW q \in Requests PROVE Settled(req[q])'
    <3>1. PICK y : y = req[q]
      OBVIOUS
    <3>2. Settled(y) /\ y \in Request
      BY <2>2, <3>1 DEF IndInv, TypeOK
    <3>3. Settled(y)'
      BY <2>1, <2>2, <3>2, SettledStays
    <3> QED
      BY <2>1, <3>1, <3>3
  <2> QED
    BY <2>2, <2>3 DEF IndInv, RequestInv, Settled, NeverLetThroughWithout, OthersDoNotMatter,
       LetThrough, Refused
<1> QED
  BY <1>1, <1>2, <1>3 DEF Next

\* The invariant holds in every reachable state.
THEOREM Invariance == Spec => []IndInv
  BY InitInv, NextInv, PTL DEF Spec

\* Every variable keeps its type, and no list loses a scope its view was decorated with.
THEOREM TypeCorrect == Spec => []TypeOK
<1>1. IndInv => TypeOK
  BY DEF IndInv
<1> QED
  BY <1>1, Invariance, PTL

\* Whoever is let through carries what the view documents, or is logged in where that
\* is enough: whatever the other threads of the process are doing.
THEOREM NobodyLetThroughWithout == Spec => []NeverLetThroughWithout
<1>1. IndInv => NeverLetThroughWithout
  BY DEF IndInv
<1> QED
  BY <1>1, Invariance, PTL

\* What a view requires of a request does not depend on the requests before it, except
\* for rw_protected_resource.
THEOREM RequestsIndependent == Spec => []OthersDoNotMatter
<1>1. IndInv => OthersDoNotMatter
  BY DEF IndInv
<1> QED
  BY <1>1, Invariance, PTL

\* Only Load looks up a token.
LEMMA OthersLoadNothing ==
    ASSUME req \in [Requests -> Request], NEW q \in Requests, Serve(q), ~Load(q),
           NEW r \in Requests, req[r].phase # "loaded"
    PROVE  req'[r].phase # "loaded"
<1>1. ASSUME NEW phase, NEW y, req' = [req EXCEPT ![q] = y], y.phase = phase, phase # "loaded"
      PROVE  req'[r].phase # "loaded"
  BY <1>1
<1>2. ASSUME NEW phase, NEW v, NEW method, NEW k, NEW required, Begin(q, phase, v, method, k, required),
             phase # "loaded"
      PROVE  req'[r].phase # "loaded"
  BY <1>2 DEF Begin, Request
<1>3. ASSUME NEW allowed, Verdict(q, allowed) PROVE req'[r].phase # "loaded"
  BY <1>3 DEF Verdict, Request
<1>4. CASE \E method \in Methods, k \in Tokens :
              Call(q, method, k) \/ RwCall(q, method, k) \/ \E c \in Classes : MixinCall(q, c, method, k)
  BY <1>2, <1>4 DEF Call, RwCall, MixinCall
<1>5. CASE \E method \in Methods, k \in Tokens, v \in Rest, session \in BOOLEAN, sessionFirst \in BOOLEAN :
              RestCall(q, v, method, k, session, sessionFirst)
  BY <1>5 DEF RestCall, Request
<1>6. CASE \E c \in Classes : MixinPreflight(q, c)
  BY <1>2, <1>6 DEF MixinPreflight
<1>7. CASE \E k \in Tokens, session \in BOOLEAN : MiddlewareCall(q, k, session)
  BY <1>7 DEF MiddlewareCall, Request
<1>8. CASE FindCore(q) \/ MakeCore(q) \/ Authenticate(q)
  BY <1>8 DEF FindCore, MakeCore, Authenticate, Request
<1>9. CASE Decide(q)
  <2>1. \E allowed \in BOOLEAN : Verdict(q, allowed)
    BY <1>9 DEF Decide, Verdict
  <2> QED
    BY <1>3, <2>1
<1>10. CASE Permit(q)
  <2>1. \E allowed \in BOOLEAN : Verdict(q, allowed)
    BY <1>10 DEF Permit, Verdict
  <2> QED
    BY <1>3, <2>1
<1> QED
  BY <1>4, <1>5, <1>6, <1>7, <1>8, <1>9, <1>10 DEF Serve

\* Whichever requests came before and whoever makes a core meanwhile, a request is decided
\* by the validator_class of its view class, or by that of the base class exactly when one
\* of the base class has made a core and none of its own class has.
THEOREM WhichValidatorDecides == Spec => ValidatorOfClass
<1> DEFINE OneLoaded(r) ==
             req[r].phase # "loaded" /\ req'[r].phase = "loaded" /\ req[r].view \in Classes =>
               req'[r].validator = Validator[IF req[r].view = "child" /\ Made("mixin") /\ ~Made("child")
                                             THEN "mixin" ELSE req[r].view]
<1>1. IndInv /\ [Next]_vars => [\A r \in Requests : OneLoaded(r)]_vars
  <2> SUFFICES ASSUME IndInv, [Next]_vars, NEW r \in Requests, req[r].phase # "loaded",
                      req'[r].phase = "loaded", req[r].view \in Classes
               PROVE  OneLoaded(r)
    OBVIOUS
  <2>1. req \in [Requests -> Request] /\ req[r] \in Request /\ Settled(req[r])
    BY ByRequest DEF IndInv, TypeOK
  <2>2. req' # req
    OBVIOUS
  <2>3. PICK q \in Requests : Serve(q)
    BY <2>2 DEF Next, Revoke, Expire, vars
  <2>4. Load(r)
    <3>1. Load(q)
      BY <2>1, <2>3, OthersLoadNothing DEF IndInv, TypeOK
    <3>2. q # r => req'[r] = req[r]
      BY <2>1, <3>1 DEF Load
    <3> QED
      BY <3>1, <3>2
  <2>5. req'[r].validator = KeptCore(req[r].view) /\ KeptCore(req[r].view) # "none"
    BY <2>1, <2>4 DEF Load, Settled, CoreFirst, Request
  <2> QED
    BY <2>5, CoreKept
<1>2. Spec => [][\A r \in Requests : OneLoaded(r)]_vars
  BY <1>1, Invariance, PTL DEF Spec
<1> QED
  BY <1>2 DEF ValidatorOfClass
=============================================================================
