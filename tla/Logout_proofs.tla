------------------------------ MODULE Logout_proofs ------------------------------
(***************************************************************************)
(* Theorems about Logout: a logout that answers has left nothing it found  *)
(* alive, nobody's tokens go unasked, clearing ID tokens takes no access   *)
(* token saved with a current one, and beside all of it the refresh grant  *)
(* keeps its promise.                                                      *)
(***************************************************************************)
EXTENDS Logout, TokenRefresh_proofs

\* At most one access token comes, and no key comes back.
NewKeys(S, D) == Follows(S, D) /\ D.atSeq \in {S.atSeq, S.atSeq + 1}

\* Deletions and revocations bring no key.
LEMMA ShrinkKeys ==
    ASSUME NEW S, WellFormed(S), NEW G, Chained(S, G), NEW D, Shrinks(S, D)
    PROVE  NewKeys(S, D) /\ StampsKept(S, D)
<1>1. Follows(S, D)
  BY ShrinkChained
<1> QED
  BY <1>1 DEF Shrinks, NewKeys, StampsKept

\* A step of a refresh request makes at most one pair.
LEMMA StepKeys ==
    ASSUME IndInv, ChainInv, NEW r \in Requests, Step(r)
    PROVE  NewKeys(db, db')
<1>1. WellFormed(db) /\ UniqueBinding(db) /\ now \in Nat
  BY DEF IndInv, TypeOK, ChainInv
<1>2. Follows(db, db')
  BY StepMoves DEF Moves
<1>3. CASE Validate(r) \/ Waits(r)
  BY <1>2, <1>3, ValidateRow DEF Waits, NewKeys
<1>4. CASE ReuseAccess(r) /\ req[r].access \in DOMAIN db.at
  <2>1. /\ db' = UpdateAccess(db, req[r].access, req[r].scope, req[r].expires)
        /\ req[r].scope \in SUBSET Scopes /\ req[r].expires \in Nat
    BY <1>4 DEF ReuseAccess, IndInv, TypeOK, Request
  <2>2. AccessUpdated(db, db', req[r].access, req[r].scope)
    BY <1>1, <1>4, <2>1, UpdateAccessWellFormed
  <2> QED
    BY <1>2, <2>2 DEF AccessUpdated, NewKeys
<1>5. CASE IssueFresh(r)
  <2>1. PICK t, R : t = req[r].instance /\ R = RevokeRefresh(db, {t}, now)
    OBVIOUS
  <2>2. PICK A : A = CreateAccess(R, req[r].scope, req[r].expires, t)
    OBVIOUS
  <2>3. ExchangeCommits(r, t, R, A)
    BY <1>5, <2>1, <2>2, IssueFreshTables
  <2>4. Shrinks(db, R) /\ AccessCreated(R, A, t) /\ \E token : RefreshCreated(A, db', token, A.atSeq)
    BY <2>3 DEF ExchangeCommits
  <2> QED
    BY <1>2, <2>4 DEF Shrinks, AccessCreated, RefreshCreated, NewKeys
<1>6. CASE AnswerPrevious(r)
  <2>1. db' = RevokeRefresh(db, {req[r].instance}, now)
    BY <1>6 DEF AnswerPrevious
  <2>2. Shrinks(db, db')
    BY <1>1, <2>1, RevokeRefreshShrinks
  <2> QED
    BY <1>2, <2>2 DEF Shrinks, NewKeys
<1> QED
  BY <1>3, <1>4, <1>5, <1>6, StatementOrCommit DEF Commits

\* So does whatever other requests do.
LEMMA EnvironmentKeys ==
    ASSUME IndInv, ChainInv, Environment
    PROVE  NewKeys(db, db')
<1>1. WellFormed(db) /\ now \in Nat
  BY DEF IndInv, TypeOK
<1>2. Follows(db, db')
  BY EnvironmentMoves DEF Moves
<1>3. ASSUME NEW scope \in SUBSET Scopes, IssueTokens(scope) PROVE NewKeys(db, db')
  <2>1. PICK A : A = CreateAccess(db, scope, now + AccessLife, NULL)
    OBVIOUS
  <2>2. now + AccessLife \in Nat /\ NULL \in Nat /\ NULL \in DOMAIN db.rt \cup {NULL}
    BY <1>1, RefreshAssumption DEF NULL
  <2>3. WellFormed(A) /\ AccessCreated(db, A, NULL)
    BY <1>1, <2>1, <2>2, CreateAccessWellFormed
  <2>4. CASE db' = A
    BY <1>2, <2>3, <2>4 DEF AccessCreated, NewKeys
  <2>5. CASE db' = CreateRefresh(A, A.rtSeq + 1, A.atSeq)
    <3>1. A.atSeq \in DOMAIN A.at /\ A.atSeq \in Nat /\ A.rtSeq + 1 \in Nat
      BY <2>3 DEF AccessCreated, WellFormed, IsStore
    <3>2. RefreshCreated(A, db', A.rtSeq + 1, A.atSeq)
      BY <2>3, <2>5, <3>1, CreateRefreshWellFormed
    <3> QED
      BY <1>2, <2>3, <3>2 DEF AccessCreated, RefreshCreated, NewKeys
  <2> QED
    BY <1>3, <2>1, <2>4, <2>5 DEF IssueTokens
<1>4. ASSUME NEW a, RevokeAccessToken(a) PROVE NewKeys(db, db')
  BY <1>2, <1>4, RevocationsShrink DEF Shrinks, NewKeys
<1>5. ASSUME NEW v \in Revocations, RevokeRefreshToken(v) PROVE NewKeys(db, db')
  BY <1>2, <1>5, RevocationsShrink DEF Shrinks, NewKeys
<1>6. CASE Tick
  BY <1>2, <1>6 DEF Tick, NewKeys
<1> QED
  BY <1>3, <1>4, <1>5, <1>6 DEF Environment, AuthorizedTokenDelete

-----------------------------------------------------------------------------
\* What a logout owes stays what it owes: keys do not come back and revocation is final.
LEMMA OwedKept ==
    ASSUME NEW x \in LogoutRequest, NEW S, Owed(x, S), NEW D, NewKeys(S, D), StampsKept(S, D)
    PROVE  Owed(x, D)
<1>0. S.atSeq \in Nat /\ D.atSeq \in Nat /\ S.atSeq <= D.atSeq /\ S.rtSeq \in Nat /\ D.rtSeq \in Nat /\ S.rtSeq <= D.rtSeq
  BY DEF NewKeys, Follows
<1>1. /\ x.phase # "found" => x.token = NoToken
      /\ x.phase = "logged_out" => x.accesses = {} /\ x.refreshes = {}
  BY DEF Owed
<1>2. x.hadAccess \subseteq 1 .. D.atSeq /\ x.hadRefresh \subseteq 1 .. D.rtSeq
  BY <1>0 DEF Owed
<1>3. \A k \in x.accesses \cup {x.token} : k.access <= D.atSeq
  <2>1. \A k \in x.accesses \cup {x.token} : k.access \in Nat /\ k.access <= S.atSeq
    BY DEF Owed, LogoutRequest, Listed
  <2> QED
    BY <1>0, <2>1
<1>4. x.hadAccess \cap DOMAIN D.at \subseteq DOMAIN S.at
  BY <1>0 DEF Owed, NewKeys, Follows
<1>5. x.hadRefresh \cap DOMAIN D.rt \subseteq DOMAIN S.rt
  BY <1>0 DEF Owed, NewKeys, Follows
<1>6. \A t \in (x.hadRefresh \cap DOMAIN D.rt) \ x.refreshes : D.rt[t].revoked # NULL
  BY <1>5 DEF Owed, StampsKept
<1> QED
  BY <1>1, <1>2, <1>3, <1>4, <1>6 DEF Owed

-----------------------------------------------------------------------------
(***************************************************************************)
(* The view: steps that write the logout only.                             *)
(***************************************************************************)
Sound(x) ==
    /\ x \in LogoutRequest /\ Asked(x) /\ Owed(x, db)
    /\ Carried(x, col, draft, idSeq) /\ Deprived(x, DOMAIN idt)

\* A step of the view keeps the invariant if what it writes is sound.
LEMMA ViewStep ==
    ASSUME LogoutInv, NEW l \in Logouts, NEW fields, LogoutGoes(l, fields), Sound(fields)
    PROVE  LogoutInv'
<1>1. lo' = [lo EXCEPT ![l] = fields] /\ UNCHANGED vars /\ UNCHANGED idVars
  BY DEF LogoutGoes
<1>2. IndInv' /\ ChainInv' /\ AllRows'
  BY <1>1, NextInv, NextChain, NextAllRows DEF LogoutInv
<1>3. IdsInv' /\ DraftsInv'
  BY <1>1 DEF LogoutInv, IdsInv, DraftsInv, Carrying, vars, idVars
<1>4. LogoutsInv'
  <2>1. lo' \in [Logouts -> LogoutRequest]
    BY <1>1 DEF LogoutInv, LogoutsInv, Sound
  <2>2. ASSUME NEW q \in Logouts
        PROVE  /\ Asked(lo'[q]) /\ Owed(lo'[q], db')
               /\ Carried(lo'[q], col', draft', idSeq') /\ Deprived(lo'[q], DOMAIN idt')
    <3>1. db' = db /\ col' = col /\ draft' = draft /\ idSeq' = idSeq /\ idt' = idt
      BY <1>1 DEF vars, idVars
    <3>2. /\ Asked(lo'[q]) /\ Owed(lo'[q], db)
          /\ Carried(lo'[q], col, draft, idSeq) /\ Deprived(lo'[q], DOMAIN idt)
      BY <1>1 DEF LogoutInv, LogoutsInv, Sound
    <3> QED
      BY <3>1, <3>2
  <2> QED
    BY <2>1, <2>2 DEF LogoutsInv
<1> QED
  BY <1>2, <1>3, <1>4 DEF LogoutInv

\* What a logout was before a step.
LEMMA WasSound ==
    ASSUME LogoutInv, NEW l \in Logouts
    PROVE  Sound(lo[l])
BY DEF LogoutInv, LogoutsInv, Sound

\* What an element of the two tables may be.
LEMMA TablesTyped ==
    ASSUME LogoutInv
    PROVE  /\ WellFormed(db) /\ UniqueBinding(db) /\ now \in Nat \ {NULL}
           /\ DOMAIN db.at \subseteq 1 .. db.atSeq /\ DOMAIN db.rt \subseteq 1 .. db.rtSeq
           /\ db.atSeq \in Nat /\ db.rtSeq \in Nat /\ idSeq \in Nat
           /\ DOMAIN col = DOMAIN db.at
           /\ \A a \in DOMAIN col : col[a].id \in Nat /\ (col[a].id # NULL => col[a].id \in 1 .. idSeq)
BY DEF LogoutInv, IndInv, TypeOK, ChainInv, IdsInv, IsStore, NULL

\* A logout that ends at once owes nothing.
LEMMA EndsSound ==
    ASSUME LogoutInv, NEW outcome \in Ended
    PROVE  Sound(Ends(outcome))
<1>1. PICK x : x = Ends(outcome)
  OBVIOUS
<1>2. /\ x = [phase |-> outcome, hint |-> NULL, client |-> "", uri |-> NoUri, user |-> NoUser,
              refreshes |-> {}, accesses |-> {}, token |-> NoToken, session |-> "anonymous",
              agreed |-> FALSE, hadRefresh |-> {}, hadAccess |-> {}]
  BY <1>1 DEF Ends, NewLogout
<1>3. /\ NoToken \in Listed /\ NoToken.id = NULL /\ NoToken.access = NULL /\ NULL \in Nat
      /\ NULL <= db.atSeq /\ NULL \notin DOMAIN col
  BY TablesTyped DEF NoToken, Listed, NULL
<1>4. x \in LogoutRequest
  BY <1>2, <1>3 DEF LogoutRequest, Users, NULL
<1>5. Asked(x)
  BY <1>2 DEF Asked
<1>6. Owed(x, db)
  BY <1>2, <1>3 DEF Owed
<1>7. Carried(x, col, draft, idSeq) /\ Deprived(x, DOMAIN idt)
  BY <1>2, <1>3 DEF Carried, Deprived
<1> QED
  BY <1>1, <1>4, <1>5, <1>6, <1>7 DEF Sound

\* What validation raises is how a logout may end.
LEMMA ErrorEnds ==
    ASSUME NEW hint, NEW client, NEW uri
    PROVE  LogoutError(hint, client, uri) # "" => LogoutError(hint, client, uri) \in Ended
BY DEF LogoutError, Ended

\* do_logout begins for the user logged in, or for the one an ID token names if that
\* is the same or was agreed to.
LEMMA BeginSound ==
    ASSUME LogoutInv, NEW x, Sound(x), x.phase \in {"new", "prompted"},
           TokenUser(x.hint) \in {NoUser, x.session} \/ x.agreed
    PROVE  Sound(Begin(x))
<1>1. PICK user : user = IF TokenUser(x.hint) = NoUser THEN x.session ELSE TokenUser(x.hint)
  OBVIOUS
<1>2. CASE ~(DeleteTokens /\ user # "anonymous")
  BY <1>1, <1>2, EndsSound DEF Begin, Ended
<1>3. CASE DeleteTokens /\ user # "anonymous"
  <2>1. PICK y : y = [x EXCEPT !.user = user, !.phase = "list refresh", !.uri = NoUri,
                               !.client = "", !.hint = NULL]
    OBVIOUS
  <2>2. x \in LogoutRequest /\ user \in Users
    BY <1>1 DEF Sound, LogoutRequest, TokenUser, Users
  <2>3. /\ y.user = user /\ y.phase = "list refresh" /\ y.session = x.session /\ y.agreed = x.agreed
        /\ y.token = x.token /\ y.accesses = x.accesses /\ y.refreshes = x.refreshes
        /\ y.hadAccess = x.hadAccess /\ y.hadRefresh = x.hadRefresh
    BY <2>1, <2>2 DEF LogoutRequest
  <2>4. y \in LogoutRequest
    BY <2>1, <2>2 DEF LogoutRequest, NULL
  <2>5. Asked(y)
    BY <1>1, <2>3 DEF Asked
  <2>6. Owed(y, db)
    BY <2>3 DEF Owed, Sound
  <2>7. Carried(y, col, draft, idSeq) /\ Deprived(y, DOMAIN idt)
    BY <2>3 DEF Carried, Deprived, Sound
  <2>8. Begin(x) = y
    BY <1>1, <1>3, <2>1 DEF Begin
  <2> QED
    BY <2>4, <2>5, <2>6, <2>7, <2>8 DEF Sound
<1> QED
  BY <1>2, <1>3

\* Arrival and validation of a logout.
LEMMA GetStep ==
    ASSUME LogoutInv, NEW l \in Logouts, NEW hint \in 0 .. idSeq + 1, NEW input \in Inputs,
           NEW session \in Users, Get(l, hint, input, session)
    PROVE  LogoutInv'
<1>1. PICK x : x = [lo[l] EXCEPT !.hint = hint, !.client = input[1], !.uri = input[2],
                                 !.session = session]
  OBVIOUS
<1>2. PICK old : old = lo[l]
  OBVIOUS
<1>3. Sound(old) /\ old \in LogoutRequest /\ old.phase = "new"
  BY <1>2, WasSound DEF Get, Sound
<1>4. hint \in Nat /\ db.rtSeq \in Nat
  BY DEF LogoutInv, IdsInv, IndInv, TypeOK, IsStore
<1>5. /\ x.hint = hint /\ x.session = session /\ x.phase = "new" /\ x.user = old.user
      /\ x.token = old.token /\ x.accesses = old.accesses /\ x.refreshes = old.refreshes
      /\ x.hadAccess = old.hadAccess /\ x.hadRefresh = old.hadRefresh /\ x.agreed = old.agreed
  BY <1>1, <1>2, <1>3 DEF LogoutRequest
<1>6. Sound(x)
  <2>1. x \in LogoutRequest
    BY <1>1, <1>2, <1>3, <1>4 DEF LogoutRequest
  <2>2. Asked(x)
    BY <1>3, <1>5 DEF Sound, Asked
  <2>3. Owed(x, db) /\ Carried(x, col, draft, idSeq) /\ Deprived(x, DOMAIN idt)
    BY <1>3, <1>5 DEF Sound, Owed, Carried, Deprived
  <2> QED
    BY <2>1, <2>2, <2>3 DEF Sound
<1>7. PICK y : y = [x EXCEPT !.phase = "prompted"]
  OBVIOUS
<1>8. Sound(y)
  <2>1. x \in LogoutRequest
    BY <1>6 DEF Sound
  <2>2. y \in LogoutRequest
    BY <1>7, <2>1 DEF LogoutRequest
  <2>3. /\ y.phase = "prompted" /\ y.user = x.user /\ y.session = x.session /\ y.agreed = x.agreed
        /\ y.token = x.token /\ y.accesses = x.accesses /\ y.refreshes = x.refreshes
        /\ y.hadAccess = x.hadAccess /\ y.hadRefresh = x.hadRefresh
    BY <1>7, <2>1 DEF LogoutRequest
  <2>4. Asked(y)
    BY <1>5, <1>6, <2>3 DEF Sound, Asked
  <2>5. Owed(y, db) /\ Carried(y, col, draft, idSeq) /\ Deprived(y, DOMAIN idt)
    BY <1>5, <1>6, <2>3 DEF Sound, Owed, Carried, Deprived
  <2> QED
    BY <2>2, <2>4, <2>5 DEF Sound
<1>9. ~MustPrompt(hint, session) => Sound(Begin(x))
  BY <1>5, <1>6, BeginSound DEF MustPrompt
<1>10. PICK error : error = LogoutError(x.hint, x.client, x.uri)
  OBVIOUS
<1>11. error # "" => Sound(Ends(error))
  BY <1>10, ErrorEnds, EndsSound
<1>12. LogoutGoes(l, IF error # "" THEN Ends(error)
                     ELSE IF MustPrompt(hint, session) THEN y ELSE Begin(x))
  BY <1>1, <1>7, <1>10 DEF Get
<1> QED
  BY <1>8, <1>9, <1>11, <1>12, ViewStep

\* The form comes back, perhaps with somebody else logged in.
LEMMA FormValidStep ==
    ASSUME LogoutInv, NEW l \in Logouts, NEW allow \in BOOLEAN, NEW session \in Users,
           FormValid(l, allow, session)
    PROVE  LogoutInv'
<1>1. PICK x : x = [lo[l] EXCEPT !.session = session, !.agreed = allow]
  OBVIOUS
<1>2. PICK old : old = lo[l]
  OBVIOUS
<1>3. Sound(old) /\ old \in LogoutRequest
  BY <1>2, WasSound DEF Sound
<1>4. /\ x.hint = old.hint /\ x.session = session /\ x.phase = old.phase /\ x.user = old.user
      /\ x.token = old.token /\ x.accesses = old.accesses /\ x.refreshes = old.refreshes
      /\ x.hadAccess = old.hadAccess /\ x.hadRefresh = old.hadRefresh /\ x.agreed = allow
  BY <1>1, <1>2, <1>3 DEF LogoutRequest
<1>5. x.phase = "prompted"
  BY <1>1 DEF FormValid
<1>6. Sound(x)
  <2>1. x \in LogoutRequest
    BY <1>1, <1>2, <1>3 DEF LogoutRequest
  <2>2. Asked(x)
    BY <1>3, <1>4, <1>5 DEF Sound, Asked
  <2>3. Owed(x, db) /\ Carried(x, col, draft, idSeq) /\ Deprived(x, DOMAIN idt)
    BY <1>3, <1>4, <1>5 DEF Sound, Owed, Carried, Deprived
  <2> QED
    BY <2>1, <2>2, <2>3 DEF Sound
<1>7. allow \/ ~MustPrompt(x.hint, session) => Sound(Begin(x))
  BY <1>4, <1>5, <1>6, BeginSound DEF MustPrompt
<1>8. PICK error : error = LogoutError(x.hint, x.client, x.uri)
  OBVIOUS
<1>9. (error # "" => Sound(Ends(error))) /\ Sound(Ends("denied"))
  BY <1>8, ErrorEnds, EndsSound DEF Ended
<1>10. LogoutGoes(l, IF error # "" THEN Ends(error)
                     ELSE IF MustPrompt(x.hint, session) /\ ~allow THEN Ends("denied")
                     ELSE Begin(x))
  BY <1>1, <1>8 DEF FormValid
<1> QED
  BY <1>7, <1>9, <1>10, ViewStep

\* The first list: the refresh tokens bound to access tokens of the user.
LEMMA ListRefreshStep ==
    ASSUME LogoutInv, NEW l \in Logouts, ListRefresh(l)
    PROVE  LogoutInv'
<1>1. PICK x : x = lo[l]
  OBVIOUS
<1>2. Sound(x) /\ x \in LogoutRequest /\ x.phase = "list refresh"
  BY <1>1, WasSound DEF ListRefresh, Sound
<1>3. PICK bound : bound = {t \in DOMAIN db.rt : db.rt[t].access \in AccessOf(x.user)}
  OBVIOUS
<1>4. PICK y : y = [x EXCEPT !.phase = "list access", !.refreshes = bound, !.hadRefresh = bound]
  OBVIOUS
<1>5. bound \subseteq 1 .. db.rtSeq /\ bound \in SUBSET Nat
  BY <1>3, TablesTyped
<1>6. y \in LogoutRequest
  BY <1>2, <1>4, <1>5 DEF LogoutRequest
<1>7. /\ y.phase = "list access" /\ y.user = x.user /\ y.session = x.session /\ y.agreed = x.agreed
      /\ y.token = x.token /\ y.accesses = x.accesses /\ y.refreshes = bound
      /\ y.hadAccess = x.hadAccess /\ y.hadRefresh = bound
  BY <1>2, <1>4 DEF LogoutRequest
<1>8. Asked(y) /\ Carried(y, col, draft, idSeq) /\ Deprived(y, DOMAIN idt)
  BY <1>2, <1>7 DEF Sound, Asked, Carried, Deprived
<1>9. Owed(y, db)
  BY <1>2, <1>5, <1>7 DEF Sound, Owed
<1>10. LogoutGoes(l, y)
  BY <1>1, <1>3, <1>4 DEF ListRefresh
<1> QED
  BY <1>6, <1>8, <1>9, <1>10, ViewStep DEF Sound

\* The second list: the access tokens of the user, with the ID tokens they carry.
LEMMA ListAccessStep ==
    ASSUME LogoutInv, NEW l \in Logouts, ListAccess(l)
    PROVE  LogoutInv'
<1>1. PICK x : x = lo[l]
  OBVIOUS
<1>2. Sound(x) /\ x \in LogoutRequest /\ x.phase = "list access"
  BY <1>1, WasSound DEF ListAccess, Sound
<1>3. PICK user : user = AccessOf(x.user)
  OBVIOUS
<1>4. PICK listed : listed = {[access |-> a, id |-> col[a].id] : a \in user}
  OBVIOUS
<1>5. PICK y : y = [x EXCEPT !.phase = "deleting", !.hadAccess = user, !.accesses = listed]
  OBVIOUS
<1>6. user \subseteq DOMAIN db.at /\ user \subseteq 1 .. db.atSeq /\ user \in SUBSET Nat
  BY <1>3, TablesTyped DEF AccessOf
<1>7. /\ \A k \in listed : k.access \in user /\ k.id = col[k.access].id
      /\ \A a \in user : \E k \in listed : k.access = a
  <2>1. ASSUME NEW k \in listed PROVE k.access \in user /\ k.id = col[k.access].id
    <3>1. PICK a \in user : k = [access |-> a, id |-> col[a].id]
      BY <1>4
    <3> QED
      BY <3>1
  <2>2. ASSUME NEW a \in user PROVE \E k \in listed : k.access = a
    <3>1. PICK k : k = [access |-> a, id |-> col[a].id]
      OBVIOUS
    <3>2. k \in listed /\ k.access = a
      BY <1>4, <3>1
    <3> QED
      BY <3>2
  <2> QED
    BY <2>1, <2>2
<1>8. listed \in SUBSET Listed
  BY <1>4, <1>6, TablesTyped DEF Listed
<1>9. y \in LogoutRequest
  BY <1>2, <1>5, <1>6, <1>8 DEF LogoutRequest
<1>10. /\ y.phase = "deleting" /\ y.user = x.user /\ y.session = x.session /\ y.agreed = x.agreed
       /\ y.token = x.token /\ y.accesses = listed /\ y.refreshes = x.refreshes
       /\ y.hadAccess = user /\ y.hadRefresh = x.hadRefresh
  BY <1>2, <1>5 DEF LogoutRequest
<1>11. Asked(y)
  BY <1>2, <1>10 DEF Sound, Asked
<1>12. Owed(y, db)
  <2>1. \A k \in listed : k.access <= db.atSeq
    BY <1>6, <1>7, TablesTyped
  <2> QED
    BY <1>2, <1>6, <1>7, <1>10, <2>1 DEF Sound, Owed
<1>13. Carried(y, col, draft, idSeq) /\ Deprived(y, DOMAIN idt)
  <2>1. x.token.id = NULL /\ x.token.access \notin DOMAIN col
    <3>1. x.token = NoToken
      BY <1>2 DEF Sound, Owed
    <3> QED
      BY <3>1, TablesTyped DEF NoToken, NULL
  <2>2. ASSUME NEW k \in listed, k.id # NULL
        PROVE  /\ k.id <= idSeq /\ \A a \in DOMAIN col : col[a].id = k.id => a = k.access
               /\ \A w \in DOMAIN draft : draft[w].id # k.id
    <3>1. k.access \in DOMAIN col /\ k.id = col[k.access].id /\ k.id \in 1 .. idSeq
      BY <1>6, <1>7, <2>2, TablesTyped
    <3>2. \A a, b \in DOMAIN col : col[a].id = col[b].id /\ col[a].id # NULL => a = b
      BY DEF LogoutInv, IdsInv
    <3>3. \A w \in DOMAIN draft : draft[w].id # k.id
      BY <2>2, <3>1 DEF LogoutInv, DraftsInv
    <3> QED
      BY <2>2, <3>1, <3>2, <3>3, TablesTyped
  <2> QED
    BY <1>7, <1>10, <2>1, <2>2 DEF Carried, Deprived
<1>14. LogoutGoes(l, y)
  BY <1>1, <1>3, <1>4, <1>5 DEF ListAccess
<1> QED
  BY <1>9, <1>11, <1>12, <1>13, <1>14, ViewStep DEF Sound

\* The ID token of an element, fetched, or the exception that it is gone.
LEMMA LoadIdTokenStep ==
    ASSUME LogoutInv, NEW l \in Logouts, LoadIdToken(l)
    PROVE  LogoutInv'
<1>1. PICK x : x = lo[l]
  OBVIOUS
<1>2. Sound(x) /\ x \in LogoutRequest /\ x.phase = "deleting" /\ x.token = NoToken
  BY <1>1, WasSound DEF LoadIdToken, Sound, Owed
<1>3. PICK token \in x.accesses :
        LogoutGoes(l, IF token.id \in DOMAIN idt \cup {NULL}
                      THEN [x EXCEPT !.phase = "found", !.token = token, !.accesses = @ \ {token}]
                      ELSE [x EXCEPT !.phase = "server_error"])
  BY <1>1 DEF LoadIdToken
<1>4. PICK y, z : /\ y = [x EXCEPT !.phase = "found", !.token = token, !.accesses = @ \ {token}]
                  /\ z = [x EXCEPT !.phase = "server_error"]
  OBVIOUS
<1>5. y \in LogoutRequest /\ z \in LogoutRequest
  BY <1>2, <1>3, <1>4 DEF LogoutRequest, Ended
<1>6. /\ y.phase = "found" /\ y.user = x.user /\ y.session = x.session /\ y.agreed = x.agreed
      /\ y.token = token /\ y.accesses = x.accesses \ {token} /\ y.refreshes = x.refreshes
      /\ y.hadAccess = x.hadAccess /\ y.hadRefresh = x.hadRefresh
  BY <1>2, <1>4 DEF LogoutRequest
<1>7. /\ z.phase = "server_error" /\ z.user = x.user /\ z.session = x.session /\ z.agreed = x.agreed
      /\ z.token = x.token /\ z.accesses = x.accesses /\ z.refreshes = x.refreshes
      /\ z.hadAccess = x.hadAccess /\ z.hadRefresh = x.hadRefresh
  BY <1>2, <1>4 DEF LogoutRequest
<1>8. y.accesses \cup {y.token} = x.accesses
  BY <1>3, <1>6
<1>9. Asked(y) /\ Asked(z)
  BY <1>2, <1>6, <1>7 DEF Sound, Asked
<1>10. Owed(y, db)
  <2>1. x.token.access = NULL /\ x.hadAccess \subseteq 1 .. db.atSeq
    BY <1>2 DEF Sound, Owed, NoToken
  <2>2. \A a \in x.hadAccess \cap DOMAIN db.at : \E k \in x.accesses : k.access = a
    BY <1>2, <2>1 DEF Sound, Owed, NULL
  <2> QED
    BY <1>2, <1>6, <1>8, <2>2 DEF Sound, Owed
<1>11. Owed(z, db) /\ Carried(z, col, draft, idSeq)
  BY <1>2, <1>7 DEF Sound, Owed, Carried
<1>12. Carried(y, col, draft, idSeq)
  BY <1>2, <1>8 DEF Sound, Carried
<1>13. Sound(y)
  BY <1>5, <1>6, <1>9, <1>10, <1>12 DEF Sound, Deprived
<1>14. token.id \notin DOMAIN idt \cup {NULL} => Sound(z)
  BY <1>3, <1>5, <1>7, <1>9, <1>11 DEF Sound, Deprived
<1>15. LogoutGoes(l, IF token.id \in DOMAIN idt \cup {NULL} THEN y ELSE z)
  BY <1>3, <1>4
<1> QED
  BY <1>13, <1>14, <1>15, ViewStep

\* Both lists are done.
LEMMA FinishStep ==
    ASSUME LogoutInv, NEW l \in Logouts, Finish(l)
    PROVE  LogoutInv'
<1>1. PICK x : x = lo[l]
  OBVIOUS
<1>2. Sound(x) /\ x \in LogoutRequest /\ x.phase = "deleting" /\ x.accesses = {} /\ x.refreshes = {}
  BY <1>1, WasSound DEF Finish, Sound
<1>3. PICK y : y = [x EXCEPT !.phase = "logged_out"]
  OBVIOUS
<1>4. y \in LogoutRequest
  BY <1>2, <1>3 DEF LogoutRequest, Ended
<1>5. /\ y.phase = "logged_out" /\ y.user = x.user /\ y.session = x.session /\ y.agreed = x.agreed
      /\ y.token = x.token /\ y.accesses = x.accesses /\ y.refreshes = x.refreshes
      /\ y.hadAccess = x.hadAccess /\ y.hadRefresh = x.hadRefresh
  BY <1>2, <1>3 DEF LogoutRequest
<1>6. Asked(y) /\ Carried(y, col, draft, idSeq) /\ Deprived(y, DOMAIN idt)
  BY <1>2, <1>5 DEF Sound, Asked, Carried, Deprived
<1>7. Owed(y, db)
  BY <1>2, <1>5 DEF Sound, Owed
<1>8. LogoutGoes(l, y)
  BY <1>1, <1>3 DEF Finish
<1> QED
  BY <1>4, <1>6, <1>7, <1>8, ViewStep DEF Sound

-----------------------------------------------------------------------------
(***************************************************************************)
(* Steps that change the tables, and what they leave to the logouts.       *)
(***************************************************************************)
\* An access token keeps its ID token; one that comes carries none, or one that waited
\* for it.  A new ID token is new.
LinksKept ==
    /\ idSeq \in Nat /\ idSeq' \in Nat /\ idSeq <= idSeq'
    /\ DOMAIN idt' \subseteq DOMAIN idt \cup {idSeq + 1}
    /\ \A a \in DOMAIN col' :
          \/ a \in DOMAIN col /\ col'[a].id = col[a].id
          \/ /\ a \in Nat /\ a > db.atSeq
             /\ col'[a].id = NULL \/ \E w \in DOMAIN draft : col'[a].id = draft[w].id
    /\ DOMAIN draft' = DOMAIN draft
    /\ \A w \in DOMAIN draft : draft'[w].id \in {NULL, draft[w].id, idSeq + 1}

\* What a logout knows of its ID tokens stays true.
LEMMA CarriedKept ==
    ASSUME NEW x \in LogoutRequest, db.atSeq \in Nat, Owed(x, db), LinksKept,
           Carried(x, col, draft, idSeq), Deprived(x, DOMAIN idt)
    PROVE  Carried(x, col', draft', idSeq') /\ Deprived(x, DOMAIN idt')
<1>1. \A k \in x.accesses \cup {x.token} : k.access \in Nat /\ k.id \in Nat /\ k.access <= db.atSeq
  BY DEF LogoutRequest, Listed, Owed
<1>2. ASSUME NEW k \in x.accesses \cup {x.token}, k.access \in DOMAIN col'
      PROVE  col'[k.access].id = k.id
  <2>1. k.access \in DOMAIN col /\ col'[k.access].id = col[k.access].id
    BY <1>1, <1>2 DEF LinksKept
  <2> QED
    BY <2>1 DEF Carried
<1>3. ASSUME NEW k \in x.accesses \cup {x.token}, k.id # NULL
      PROVE  /\ k.id <= idSeq' /\ k.id # idSeq + 1
             /\ \A a \in DOMAIN col' : col'[a].id = k.id => a = k.access
             /\ \A w \in DOMAIN draft' : draft'[w].id # k.id
  <2>1. /\ k.id <= idSeq /\ k.id \in Nat
        /\ \A a \in DOMAIN col : col[a].id = k.id => a = k.access
        /\ \A w \in DOMAIN draft : draft[w].id # k.id
    BY <1>1, <1>3 DEF Carried
  <2>2. k.id <= idSeq' /\ k.id # idSeq + 1
    BY <2>1 DEF LinksKept
  <2>3. ASSUME NEW a \in DOMAIN col', col'[a].id = k.id PROVE a = k.access
    BY <1>3, <2>1, <2>3 DEF LinksKept
  <2>4. ASSUME NEW w \in DOMAIN draft' PROVE draft'[w].id # k.id
    BY <1>3, <2>1, <2>2, <2>4 DEF LinksKept
  <2> QED
    BY <2>2, <2>3, <2>4
<1>4. Carried(x, col', draft', idSeq')
  BY <1>2, <1>3 DEF Carried
<1>5. ASSUME NEW k \in x.accesses, k.id \notin DOMAIN idt \cup {NULL}
      PROVE  k.id \notin DOMAIN idt' \cup {NULL}
  BY <1>3, <1>5 DEF LinksKept
<1>6. Deprived(x, DOMAIN idt')
  BY <1>5 DEF Deprived
<1> QED
  BY <1>4, <1>6

TablesMove ==
    /\ IndInv' /\ ChainInv' /\ AllRows' /\ IdsInv' /\ DraftsInv'
    /\ NewKeys(db, db') /\ StampsKept(db, db') /\ LinksKept

\* Whatever the tables became, the logouts that did not move owe no more than before.
LEMMA TablesMoved ==
    ASSUME LogoutInv, TablesMove, lo' = [q \in Logouts |-> lo'[q]],
           \A q \in Logouts : lo'[q] = lo[q] \/ Sound(lo[q])'
    PROVE  LogoutInv'
<1>1. ASSUME NEW q \in Logouts PROVE Sound(lo[q])'
  <2>1. CASE lo'[q] = lo[q]
    <3>1. PICK x : x = lo[q]
      OBVIOUS
    <3>2. Sound(x) /\ x \in LogoutRequest /\ Asked(x)
      BY <3>1, WasSound DEF Sound
    <3>3. Owed(x, db')
      BY <3>2, OwedKept DEF TablesMove, Sound
    <3>4. Carried(x, col', draft', idSeq') /\ Deprived(x, DOMAIN idt')
      BY <3>2, TablesTyped, CarriedKept DEF TablesMove, Sound
    <3> QED
      BY <2>1, <3>1, <3>2, <3>3, <3>4 DEF Sound
  <2> QED
    BY <2>1, <1>1
<1>2. LogoutsInv'
  BY <1>1 DEF LogoutsInv, Sound
<1> QED
  BY <1>2 DEF LogoutInv, TablesMove

\* Deleting access tokens and revoking refresh tokens, outside any request, keep what
\* the token endpoint relies on.
LEMMA ShrinkKeeps ==
    ASSUME IndInv, ChainInv, AllRows, WellFormed(db'), Shrinks(db, db'),
           UNCHANGED <<now, req, granted, rev>>
    PROVE  IndInv' /\ ChainInv' /\ AllRows'
<1>1. \A t : SourcedBy(db', t) \subseteq SourcedBy(db, t)
  BY DEF Shrinks, SourcedBy
<1>2. db'.rtSeq = db.rtSeq /\ DOMAIN db'.rt = DOMAIN db.rt
  BY DEF Shrinks
<1>3. AllRows'
  BY <1>2 DEF AllRows
<1> QED
  BY <1>1, <1>2, <1>3, TablesStep, RevocationsChain DEF IndInv, TypeOK, InTransaction

\* What waits and what is carried, after a deletion.
LEMMA IdsShrink ==
    ASSUME IdsInv, DraftsInv, DOMAIN db'.at \subseteq DOMAIN db.at, col' = Restrict(col, DOMAIN db'.at),
           NEW ids, idt' = Restrict(idt, DOMAIN idt \ ids), UNCHANGED <<now, draft, idSeq>>,
           idBatch' = idBatch \/ idBatch' = {},
           \A a \in DOMAIN db'.at : col[a].id \notin ids \ {NULL}
    PROVE  IdsInv' /\ DraftsInv' /\ LinksKept
<1>1. DOMAIN col = DOMAIN db.at /\ DOMAIN col' = DOMAIN db'.at /\ \A a \in DOMAIN db'.at : col'[a] = col[a]
  BY DEF IdsInv, Restrict
<1>2. DOMAIN idt' = DOMAIN idt \ ids /\ \A i \in DOMAIN idt' : idt'[i] = idt[i]
  BY DEF Restrict
<1>3. col' \in [DOMAIN db'.at -> AccessColumns]
  BY <1>1 DEF IdsInv, Restrict
<1>4. \A a \in DOMAIN col' : col'[a].id \in DOMAIN idt' \cup {NULL}
  BY <1>1, <1>2 DEF IdsInv
<1>5. \A a, b \in DOMAIN col' : col'[a].id = col'[b].id /\ col'[a].id # NULL => a = b
  BY <1>1 DEF IdsInv
<1>6. \A a \in Carrying(idBatch)' : col'[a].stale
  BY <1>1 DEF IdsInv, Carrying
<1>7. idSeq' \in Nat /\ DOMAIN idt' \subseteq 1 .. idSeq' /\ idBatch' \subseteq 1 .. idSeq'
  BY <1>2 DEF IdsInv
<1>8. idt' \in [DOMAIN idt' -> Nat]
  BY <1>2 DEF IdsInv, Restrict
<1>9. \A i \in idBatch' \cap DOMAIN idt' : idt'[i] < now'
  BY <1>2 DEF IdsInv
<1>10. LinksKept
  BY <1>1, <1>2, <1>7 DEF LinksKept, IdsInv
<1>11. DraftsInv'
  BY <1>1 DEF DraftsInv
<1> QED
  BY <1>3, <1>4, <1>5, <1>6, <1>7, <1>8, <1>9, <1>10, <1>11 DEF IdsInv

\* A deletion of access tokens and ID tokens with its cascade.
LEMMA DeleteCascadingMoves ==
    ASSUME LogoutInv, NEW A, NEW ids, DeleteCascading(A, ids), idBatch' = idBatch \/ idBatch' = {}
    PROVE  TablesMove /\ DOMAIN db'.at = DOMAIN db.at \ (A \cup Carrying(ids))
<1>1. PICK gone : gone = A \cup Carrying(ids)
  OBVIOUS
<1>2. /\ db' = DeleteAccess(db, gone) /\ col' = Restrict(col, DOMAIN db'.at)
      /\ idt' = Restrict(idt, DOMAIN idt \ ids) /\ UNCHANGED <<now, draft, idSeq>>
      /\ UNCHANGED <<now, req, granted, rev>>
  BY <1>1 DEF DeleteCascading
<1>3. WellFormed(db) /\ IsStore(db) /\ Chained(db, granted)
  BY TablesTyped DEF WellFormed, LogoutInv, ChainInv, Chained
<1>4. WellFormed(db') /\ Shrinks(db, db') /\ AccessDeleted(db, db', gone)
  BY <1>2, <1>3, DeleteAccessWellFormed, DeleteAccessShrinks, DeleteAccessFields
<1>5. IndInv' /\ ChainInv' /\ AllRows'
  BY <1>2, <1>4, ShrinkKeeps DEF LogoutInv
<1>6. DOMAIN db'.at = DOMAIN db.at \ gone
  BY <1>4 DEF AccessDeleted
<1>7. \A a \in DOMAIN db'.at : col[a].id \notin ids \ {NULL}
  BY <1>1, <1>6 DEF Carrying
<1>8. IdsInv' /\ DraftsInv' /\ LinksKept
  BY <1>2, <1>6, <1>7, IdsShrink DEF LogoutInv
<1>9. NewKeys(db, db') /\ StampsKept(db, db')
  BY <1>3, <1>4, ShrinkKeys
<1> QED
  BY <1>1, <1>5, <1>6, <1>8, <1>9 DEF TablesMove

\* The ID token in hand and its access token go.
LEMMA RevokeTokenStep ==
    ASSUME LogoutInv, NEW l \in Logouts, RevokeToken(l)
    PROVE  LogoutInv'
<1>1. PICK x : x = lo[l]
  OBVIOUS
<1>2. Sound(x) /\ x \in LogoutRequest /\ x.phase = "found"
  BY <1>1, WasSound DEF RevokeToken, Sound
<1>3. PICK y : y = [x EXCEPT !.phase = "deleting", !.token = NoToken]
  OBVIOUS
<1>4. /\ DeleteCascading({x.token.access}, {x.token.id}) /\ idBatch' = idBatch
      /\ lo' = [lo EXCEPT ![l] = y]
  BY <1>1, <1>3 DEF RevokeToken
<1>5. TablesMove /\ x.token.access \notin DOMAIN db'.at
  BY <1>4, DeleteCascadingMoves
<1>6. y \in LogoutRequest
  BY <1>2, <1>3 DEF LogoutRequest, NoToken, Listed, NULL
<1>7. /\ y.phase = "deleting" /\ y.user = x.user /\ y.session = x.session /\ y.agreed = x.agreed
      /\ y.token = NoToken /\ y.accesses = x.accesses /\ y.refreshes = x.refreshes
      /\ y.hadAccess = x.hadAccess /\ y.hadRefresh = x.hadRefresh
  BY <1>2, <1>3 DEF LogoutRequest
<1>8. Asked(y)
  BY <1>2, <1>7 DEF Sound, Asked
<1>9. Owed(x, db') /\ Carried(x, col', draft', idSeq')
  BY <1>2, <1>5, TablesTyped, OwedKept, CarriedKept DEF Sound, TablesMove
<1>10. Owed(y, db')
  <2>0. NoToken.access <= db'.atSeq
    BY <1>5, TablesTyped DEF NoToken, NULL, TablesMove, NewKeys
  <2>1. \A a \in y.hadAccess \cap DOMAIN db'.at : \E k \in y.accesses : k.access = a
    BY <1>5, <1>7, <1>9 DEF Owed
  <2> QED
    BY <1>7, <1>9, <2>0, <2>1 DEF Owed
<1>11. Carried(y, col', draft', idSeq') /\ Deprived(y, DOMAIN idt')
  <2>1. NoToken.id = NULL /\ NoToken.access \notin DOMAIN col'
    <3>1. DOMAIN col' \subseteq 1 .. db'.atSeq
      BY <1>5 DEF TablesMove, IdsInv, IndInv, TypeOK, IsStore
    <3> QED
      BY <3>1 DEF NoToken, NULL
  <2> QED
    BY <1>7, <1>9, <2>1 DEF Carried, Deprived
<1>12. lo \in [Logouts -> LogoutRequest]
  BY DEF LogoutInv, LogoutsInv
<1>13. ASSUME NEW q \in Logouts PROVE lo'[q] = lo[q] \/ Sound(lo[q])'
  <2>1. CASE q = l
    <3>1. lo'[q] = y
      BY <1>4, <1>12, <2>1
    <3> QED
      BY <1>6, <1>8, <1>10, <1>11, <3>1 DEF Sound
  <2> QED
    BY <1>4, <1>12, <2>1
<1> QED
  BY <1>4, <1>5, <1>12, <1>13, TablesMoved

\* A refresh token of the list is revoked, or had been.
LEMMA RevokeListedStep ==
    ASSUME LogoutInv, NEW l \in Logouts, RevokeListed(l)
    PROVE  LogoutInv'
<1>1. PICK x : x = lo[l]
  OBVIOUS
<1>2. Sound(x) /\ x \in LogoutRequest /\ x.phase = "deleting"
  BY <1>1, WasSound DEF RevokeListed, Sound
<1>3. PICK t \in x.refreshes : /\ db' = RevokeRefresh(db, {t}, now)
                               /\ lo' = [lo EXCEPT ![l].refreshes = @ \ {t}]
                               /\ col' = Restrict(col, DOMAIN db'.at)
  BY <1>1 DEF RevokeListed
<1>4. UNCHANGED <<now, req, granted, rev, draft, idt, idSeq, idBatch>>
  BY DEF RevokeListed
<1>5. PICK y : y = [x EXCEPT !.refreshes = @ \ {t}]
  OBVIOUS
<1>6. WellFormed(db) /\ UniqueBinding(db) /\ now \in Nat /\ now # NULL
  BY TablesTyped
<1>7. /\ WellFormed(db') /\ DOMAIN db'.rt = DOMAIN db.rt
      /\ \A u \in {t} \cap DOMAIN db.rt : db'.rt[u].revoked # NULL
  BY <1>3, <1>6, RevokeRefreshFields
<1>8. Shrinks(db, db')
  BY <1>3, <1>6, RevokeRefreshShrinks
<1>9. TablesMove
  <2>1. IndInv' /\ ChainInv' /\ AllRows'
    BY <1>4, <1>7, <1>8, ShrinkKeeps DEF LogoutInv
  <2>2. NewKeys(db, db') /\ StampsKept(db, db')
    BY <1>6, <1>8, ShrinkKeys DEF LogoutInv, ChainInv, Chained
  <2>3. PICK none : none = {}
    OBVIOUS
  <2>4. /\ idt' = Restrict(idt, DOMAIN idt \ none) /\ UNCHANGED <<now, draft, idSeq>> /\ idBatch' = idBatch
        /\ DOMAIN db'.at \subseteq DOMAIN db.at /\ \A a \in DOMAIN db'.at : col[a].id \notin none \ {NULL}
    BY <1>4, <1>8, <2>3 DEF Shrinks, Restrict, LogoutInv, IdsInv
  <2>5. IdsInv' /\ DraftsInv' /\ LinksKept
    BY <1>3, <2>4, IdsShrink DEF LogoutInv
  <2> QED
    BY <2>1, <2>2, <2>5 DEF TablesMove
<1>10. y \in LogoutRequest
  BY <1>2, <1>5 DEF LogoutRequest
<1>11. /\ y.phase = "deleting" /\ y.user = x.user /\ y.session = x.session /\ y.agreed = x.agreed
       /\ y.token = x.token /\ y.accesses = x.accesses /\ y.refreshes = x.refreshes \ {t}
       /\ y.hadAccess = x.hadAccess /\ y.hadRefresh = x.hadRefresh
  BY <1>2, <1>5 DEF LogoutRequest
<1>12. Asked(y)
  BY <1>2, <1>11 DEF Sound, Asked
<1>13. Owed(x, db') /\ Carried(x, col', draft', idSeq')
  BY <1>2, <1>9, TablesTyped, OwedKept, CarriedKept DEF Sound, TablesMove
<1>14. Owed(y, db')
  <2>1. \A u \in (y.hadRefresh \cap DOMAIN db'.rt) \ y.refreshes : db'.rt[u].revoked # NULL
    BY <1>7, <1>11, <1>13 DEF Owed
  <2> QED
    BY <1>2, <1>11, <1>13, <2>1 DEF Owed
<1>15. Carried(y, col', draft', idSeq') /\ Deprived(y, DOMAIN idt')
  BY <1>11, <1>13 DEF Carried, Deprived
<1>16. lo \in [Logouts -> LogoutRequest]
  BY DEF LogoutInv, LogoutsInv
<1>17. lo' = [lo EXCEPT ![l] = y]
  BY <1>1, <1>3, <1>5, <1>16
<1>18. ASSUME NEW q \in Logouts PROVE lo'[q] = lo[q] \/ Sound(lo[q])'
  <2>1. CASE q = l
    <3>1. lo'[q] = y
      BY <1>16, <1>17, <2>1
    <3> QED
      BY <1>10, <1>12, <1>14, <1>15, <3>1 DEF Sound
  <2> QED
    BY <1>16, <1>17, <2>1
<1> QED
  BY <1>9, <1>16, <1>17, <1>18, TablesMoved

\* What a step of the token endpoint does to the tables, carried out beside the ID tokens:
\* the access token that comes, if any, takes the one that waited for it.
LEMMA CarryMoves ==
    ASSUME LogoutInv, [Next]_vars, NEW w \in Issuers, NEW user \in {"owner", NoUser}, Carry(w, user)
    PROVE  TablesMove
<1>1. IndInv /\ ChainInv /\ AllRows
  BY DEF LogoutInv
<1>2. IndInv' /\ ChainInv' /\ AllRows'
  BY <1>1, NextInv, NextChain, NextAllRows
<1>3. NewKeys(db, db') /\ StampsKept(db, db')
  <2>1. CASE UNCHANGED vars
    BY <2>1, TablesTyped, StillMoves DEF vars, NewKeys, Moves, StampsKept
  <2> QED
    BY <1>1, <2>1, StepKeys, EnvironmentKeys, NextKeepsStamps DEF Next
<1>4. now \in Nat /\ now <= now'
  BY <1>1, ClockAdvances DEF IndInv, TypeOK, vars
<1>5. PICK new, row, link, stale : /\ new = DOMAIN db'.at \ DOMAIN db.at /\ link = draft[w].link
                                   /\ stale = (link # NULL /\ idt[link] < now)
                                   /\ row = [user |-> user, id |-> link, stale |-> stale]
  OBVIOUS
<1>6. /\ new # {} => Linkable(w)
      /\ col' = [a \in DOMAIN db'.at |-> IF a \in new THEN row ELSE col[a]]
      /\ draft' = [draft EXCEPT ![w] = NoDraft] \/ (new = {} /\ draft' = draft)
      /\ UNCHANGED <<idt, idSeq, idBatch>>
  BY <1>5 DEF Carry
<1>7. /\ idSeq \in Nat /\ DOMAIN col = DOMAIN db.at /\ DOMAIN idt \subseteq 1 .. idSeq
      /\ \A a \in DOMAIN col : col[a].id \in Nat /\ (col[a].id # NULL => col[a].id \in 1 .. idSeq)
  BY TablesTyped DEF LogoutInv, IdsInv
<1>8. /\ draft \in [Issuers -> Draft] /\ link \in {NULL, draft[w].id} /\ draft[w].id <= idSeq
      /\ NoDraft.id = NULL /\ NoDraft.link = NULL /\ NoDraft \in Draft /\ draft[w].id \in Nat
  BY <1>5 DEF LogoutInv, DraftsInv, NoDraft, Draft, NULL
<1>9. new # {} => link \in DOMAIN idt \cup {NULL}
  BY <1>5, <1>6, <1>8 DEF Linkable
<1>10. new \subseteq {db.atSeq + 1}
  <2>1. DOMAIN db'.at \subseteq 1 .. db'.atSeq /\ db.atSeq \in Nat /\ db'.atSeq \in {db.atSeq, db.atSeq + 1}
    BY <1>2, <1>3, TablesTyped DEF NewKeys, IndInv, TypeOK, IsStore
  <2>2. \A a \in new : a \in Nat /\ a > db.atSeq
    BY <1>3, <1>5 DEF NewKeys, Follows
  <2> QED
    BY <1>5, <2>1, <2>2
<1>11. /\ DOMAIN col' = DOMAIN db'.at /\ \A a \in new : col'[a] = row
       /\ \A a \in DOMAIN db'.at \ new : a \in DOMAIN col /\ col'[a] = col[a]
  BY <1>5, <1>6, <1>7
<1>12. row.id = link /\ (row.stale <=> link # NULL /\ idt[link] < now) /\ row \in AccessColumns
  <2>1. stale \in BOOLEAN /\ (stale <=> link # NULL /\ idt[link] < now)
    BY <1>5, Zenon
  <2>2. link \in Nat
    BY <1>8 DEF NULL
  <2> QED
    BY <1>5, <2>1, <2>2 DEF AccessColumns
<1>13. \A a \in DOMAIN col : link # NULL => col[a].id # link
  BY <1>8 DEF LogoutInv, DraftsInv
<1>14. IdsInv'
  <2>1. col' \in [DOMAIN db'.at -> AccessColumns]
    <3>1. \A a \in DOMAIN col : col[a] \in AccessColumns
      BY DEF LogoutInv, IdsInv
    <3> QED
      BY <1>6, <1>11, <1>12, <3>1
  <2>2. \A a \in DOMAIN col' : col'[a].id \in DOMAIN idt' \cup {NULL}
    BY <1>6, <1>9, <1>11, <1>12 DEF LogoutInv, IdsInv
  <2>3. \A a, b \in DOMAIN col' : col'[a].id = col'[b].id /\ col'[a].id # NULL => a = b
    <3>1. \A a, b \in DOMAIN col : col[a].id = col[b].id /\ col[a].id # NULL => a = b
      BY DEF LogoutInv, IdsInv
    <3> SUFFICES ASSUME NEW a \in DOMAIN db'.at, NEW b \in DOMAIN db'.at,
                        col'[a].id = col'[b].id, col'[a].id # NULL
                 PROVE  a = b
      BY <1>11
    <3>2. CASE a \in new /\ b \in new
      BY <1>10, <3>2
    <3>3. CASE a \notin new /\ b \notin new
      BY <1>11, <3>1, <3>3
    <3>4. CASE a \in new /\ b \notin new
      BY <1>11, <1>12, <1>13, <3>4
    <3>5. CASE a \notin new /\ b \in new
      BY <1>11, <1>12, <1>13, <3>5
    <3> QED
      BY <3>2, <3>3, <3>4, <3>5
  <2>4. \A i \in idBatch' \cap DOMAIN idt' : idt'[i] < now'
    <3>1. \A i \in idBatch \cap DOMAIN idt : idt[i] \in Nat /\ idt[i] < now
      BY DEF LogoutInv, IdsInv
    <3>2. now' \in Nat
      BY <1>2 DEF IndInv, TypeOK
    <3> QED
      BY <1>4, <1>6, <3>1, <3>2
  <2>5. ASSUME NEW a \in Carrying(idBatch)' PROVE col'[a].stale
    <3>1. a \in DOMAIN db'.at /\ col'[a].id \in idBatch \ {NULL}
      BY <1>6, <2>5 DEF Carrying
    <3>2. CASE a \in new
      <4>1. link \in idBatch /\ link # NULL /\ link \in DOMAIN idt
        BY <1>9, <1>11, <1>12, <3>1, <3>2
      <4>2. idt[link] < now
        BY <4>1 DEF LogoutInv, IdsInv
      <4> QED
        BY <1>11, <1>12, <3>2, <4>1, <4>2
    <3>3. CASE a \notin new
      BY <1>5, <1>11, <3>1, <3>3 DEF LogoutInv, IdsInv, Carrying
    <3> QED
      BY <3>2, <3>3
  <2> QED
    BY <1>6, <1>11, <2>1, <2>2, <2>3, <2>4, <2>5 DEF LogoutInv, IdsInv
<1>15. DraftsInv'
  <2>1. draft' \in [Issuers -> Draft]
    BY <1>6, <1>8
  <2>2. \A v \in Issuers : draft'[v] = draft[v] \/ (v = w /\ draft'[v] = NoDraft)
    BY <1>6, <1>8
  <2>3. ASSUME NEW v \in Issuers, draft'[v].id # NULL, NEW a \in DOMAIN col' PROVE col'[a].id # draft'[v].id
    <3>1. draft'[v] = draft[v] /\ draft[v].id # NULL
      BY <1>8, <2>2, <2>3
    <3>2. CASE a \notin new
      BY <1>11, <3>1, <3>2 DEF LogoutInv, DraftsInv
    <3>3. CASE a \in new
      <4>1. v # w
        BY <1>6, <1>8, <2>3, <3>3
      <4>2. draft[w].id # draft[v].id
        BY <3>1, <4>1 DEF LogoutInv, DraftsInv
      <4> QED
        BY <1>8, <1>11, <1>12, <3>1, <3>3, <4>2
    <3> QED
      BY <3>2, <3>3
  <2>4. \A v \in Issuers : draft'[v].link \in {NULL, draft'[v].id} /\ draft'[v].id <= idSeq'
    BY <1>6, <1>7, <1>8, <2>2 DEF LogoutInv, DraftsInv, NULL
  <2>5. \A v, u \in Issuers : draft'[v].id # NULL /\ draft'[u].id = draft'[v].id => u = v
    BY <1>8, <2>2 DEF LogoutInv, DraftsInv
  <2> QED
    BY <2>1, <2>3, <2>4, <2>5 DEF DraftsInv
<1>16. LinksKept
  <2>1. ASSUME NEW a \in DOMAIN col'
        PROVE  \/ a \in DOMAIN col /\ col'[a].id = col[a].id
               \/ /\ a \in Nat /\ a > db.atSeq
                  /\ col'[a].id = NULL \/ \E v \in DOMAIN draft : col'[a].id = draft[v].id
    <3>1. CASE a \in new
      <4>1. a \in Nat /\ a > db.atSeq
        BY <1>10, <3>1, TablesTyped
      <4> QED
        BY <1>8, <1>11, <1>12, <3>1, <4>1
    <3>2. CASE a \notin new
      BY <1>11, <3>2
    <3> QED
      BY <3>1, <3>2
  <2>2. DOMAIN draft' = DOMAIN draft /\ \A v \in DOMAIN draft : draft'[v].id \in {NULL, draft[v].id}
    BY <1>6, <1>8
  <2>3. idSeq \in Nat /\ idSeq' = idSeq /\ idSeq <= idSeq' /\ DOMAIN idt' \subseteq DOMAIN idt \cup {idSeq + 1}
    BY <1>6, <1>7
  <2> QED
    BY <2>1, <2>2, <2>3 DEF LinksKept
<1> QED
  BY <1>2, <1>3, <1>14, <1>15, <1>16 DEF TablesMove

\* Nothing happens to the two tables.
LEMMA StillKeys ==
    ASSUME LogoutInv, UNCHANGED db
    PROVE  NewKeys(db, db') /\ StampsKept(db, db')
BY TablesTyped, StillMoves DEF NewKeys, Moves, StampsKept

\* A new ID token waits for an access token.
LEMMA SaveIdTokenMoves ==
    ASSUME LogoutInv, NEW w \in Issuers, SaveIdToken(w)
    PROVE  TablesMove
<1>1. IndInv' /\ ChainInv' /\ AllRows' /\ NewKeys(db, db') /\ StampsKept(db, db')
  BY NextInv, NextChain, NextAllRows, StillKeys DEF LogoutInv, SaveIdToken, vars
<1>2. PICK id, row : id = idSeq + 1 /\ row = [id |-> id, link |-> NULL, loaded |-> FALSE]
  OBVIOUS
<1>3. /\ idSeq' = id /\ idt' = Insert(idt, id, now + IdLife) /\ draft' = [draft EXCEPT ![w] = row]
      /\ UNCHANGED <<col, idBatch>> /\ UNCHANGED <<now, db>>
  BY <1>2 DEF SaveIdToken, vars
<1>4. /\ idSeq \in Nat /\ now \in Nat /\ now + IdLife \in Nat /\ DOMAIN idt \subseteq 1 .. idSeq
      /\ idBatch \subseteq 1 .. idSeq
      /\ \A a \in DOMAIN col : col[a].id \in Nat /\ (col[a].id # NULL => col[a].id \in 1 .. idSeq)
  BY TablesTyped, LogoutAssumption DEF LogoutInv, IdsInv
<1>5. DOMAIN idt' = DOMAIN idt \cup {id} /\ \A i \in DOMAIN idt : i # id /\ idt'[i] = idt[i]
  BY <1>2, <1>3, <1>4 DEF Insert
<1>6. row \in Draft /\ row.id = id /\ row.link = NULL
  BY <1>2, <1>4 DEF Draft, NULL
<1>7. IdsInv'
  <2>1. idt' \in [DOMAIN idt' -> Nat]
    BY <1>3, <1>4, <1>5 DEF Insert, LogoutInv, IdsInv
  <2>2. \A i \in idBatch' \cap DOMAIN idt' : idt'[i] < now'
    BY <1>2, <1>3, <1>4, <1>5 DEF LogoutInv, IdsInv
  <2>3. DOMAIN idt' \subseteq 1 .. idSeq' /\ idBatch' \subseteq 1 .. idSeq' /\ idSeq' \in Nat
    BY <1>2, <1>3, <1>4, <1>5
  <2>4. \A a \in DOMAIN col' : col'[a].id \in DOMAIN idt' \cup {NULL}
    BY <1>3, <1>5 DEF LogoutInv, IdsInv
  <2>5. \A a \in Carrying(idBatch)' : col'[a].stale
    BY <1>3 DEF LogoutInv, IdsInv, Carrying
  <2> QED
    BY <1>3, <2>1, <2>2, <2>3, <2>4, <2>5 DEF LogoutInv, IdsInv
<1>8. DraftsInv'
  <2>1. /\ draft' \in [Issuers -> Draft] /\ draft'[w] = row
        /\ \A v \in Issuers \ {w} : draft'[v] = draft[v]
    BY <1>3, <1>6 DEF LogoutInv, DraftsInv
  <2>2. \A v \in Issuers : draft[v].id \in Nat /\ draft[v].id <= idSeq /\ draft[v].link \in {NULL, draft[v].id}
    BY DEF LogoutInv, DraftsInv, Draft
  <2>3. \A v \in Issuers : draft'[v].link \in {NULL, draft'[v].id} /\ draft'[v].id <= idSeq'
    BY <1>2, <1>3, <1>4, <1>6, <2>1, <2>2
  <2>4. \A v \in Issuers : draft'[v].id # NULL => \A a \in DOMAIN col' : col'[a].id # draft'[v].id
    BY <1>2, <1>3, <1>4, <1>6, <2>1 DEF LogoutInv, DraftsInv
  <2>5. \A v, u \in Issuers : draft'[v].id # NULL /\ draft'[u].id = draft'[v].id => u = v
    BY <1>2, <1>4, <1>6, <2>1, <2>2 DEF LogoutInv, DraftsInv
  <2> QED
    BY <2>1, <2>3, <2>4, <2>5 DEF DraftsInv
<1>9. LinksKept
  <2>1. DOMAIN draft' = DOMAIN draft /\ \A v \in DOMAIN draft : draft'[v].id \in {NULL, draft[v].id, idSeq + 1}
    BY <1>2, <1>3, <1>6 DEF LogoutInv, DraftsInv
  <2> QED
    BY <1>2, <1>3, <1>4, <1>5, <2>1 DEF LinksKept
<1> QED
  BY <1>1, <1>7, <1>8, <1>9 DEF TablesMove

\* It is loaded, or forgotten because the insert fails.
LEMMA DraftMoves ==
    ASSUME LogoutInv, NEW w \in Issuers, LoadDraft(w) \/ InsertFails(w)
    PROVE  TablesMove
<1>1. UNCHANGED <<now, db, col, idt, idSeq, idBatch>>
  BY DEF LoadDraft, InsertFails, Answer, vars
<1>2. IndInv' /\ ChainInv' /\ AllRows'
  <2>1. CASE UNCHANGED vars
    BY <2>1, NextInv, NextChain, NextAllRows DEF LogoutInv
  <2>2. CASE w \in Requests /\ Answer(w, "server_error")
    BY <1>1, <2>2, AnswerStep, ErrorChain DEF LogoutInv, Answered, AllRows
  <2> QED
    BY <2>1, <2>2 DEF LoadDraft, InsertFails, Issuers
<1>3. NewKeys(db, db') /\ StampsKept(db, db')
  BY <1>1, StillKeys
<1>4. IdsInv'
  BY <1>1 DEF LogoutInv, IdsInv, Carrying
<1>5. /\ draft \in [Issuers -> Draft] /\ NoDraft \in Draft /\ NoDraft.id = NULL /\ NoDraft.link = NULL
      /\ \A v \in Issuers : draft[v].link \in {NULL, draft[v].id} /\ draft[v].id \in Nat
      /\ idSeq \in Nat
  BY TablesTyped DEF LogoutInv, DraftsInv, Draft, NoDraft, NULL
<1>6. PICK row : /\ draft' = [draft EXCEPT ![w] = row] /\ row \in Draft
                 /\ row.id \in {NULL, draft[w].id} /\ row.link \in {NULL, row.id}
  <2>1. CASE InsertFails(w)
    BY <1>5, <2>1 DEF InsertFails
  <2>2. CASE LoadDraft(w)
    <3>1. PICK old, link : old = draft[w] /\ link = IF Accepted(old.id) THEN old.id ELSE NULL
      OBVIOUS
    <3>2. PICK row : row = [old EXCEPT !.loaded = TRUE, !.link = link]
      OBVIOUS
    <3>3. draft' = [draft EXCEPT ![w] = row]
      BY <2>2, <3>1, <3>2 DEF LoadDraft
    <3>4. old \in Draft /\ link \in Nat
      BY <1>5, <3>1 DEF NULL
    <3>5. row \in Draft /\ row.id = old.id /\ row.link = link
      BY <3>2, <3>4 DEF Draft
    <3> QED
      BY <3>1, <3>3, <3>5
  <2> QED
    BY <2>1, <2>2
<1>7. /\ draft' \in [Issuers -> Draft] /\ draft'[w] = row
      /\ \A v \in Issuers \ {w} : draft'[v] = draft[v]
  BY <1>5, <1>6
<1>8. \A v \in Issuers : draft'[v].id \in {NULL, draft[v].id}
  BY <1>6, <1>7
<1>9. DraftsInv'
  <2>1. \A v \in Issuers : draft'[v].link \in {NULL, draft'[v].id} /\ draft'[v].id <= idSeq'
    BY <1>1, <1>5, <1>6, <1>7 DEF LogoutInv, DraftsInv, NULL
  <2>2. \A v \in Issuers : draft'[v].id # NULL => \A a \in DOMAIN col' : col'[a].id # draft'[v].id
    BY <1>1, <1>8 DEF LogoutInv, DraftsInv
  <2>3. \A v, u \in Issuers : draft'[v].id # NULL /\ draft'[u].id = draft'[v].id => u = v
    BY <1>8 DEF LogoutInv, DraftsInv
  <2> QED
    BY <1>7, <2>1, <2>2, <2>3 DEF DraftsInv
<1>10. LinksKept
  <2>1. DOMAIN draft' = DOMAIN draft /\ \A v \in DOMAIN draft : draft'[v].id \in {NULL, draft[v].id, idSeq + 1}
    BY <1>5, <1>7, <1>8
  <2> QED
    BY <1>1, <1>5, <2>1 DEF LinksKept
<1> QED
  BY <1>2, <1>3, <1>4, <1>9, <1>10 DEF TablesMove

\* The token endpoint leaves logouts alone.
LEMMA ServedStep ==
    ASSUME LogoutInv, Served
    PROVE  LogoutInv'
<1>1. TablesMove
  <2>1. \A r \in Requests : r \in Issuers
    BY DEF Issuers
  <2>2. Grantor \in Issuers
    BY DEF Issuers
  <2>3. ASSUME NEW r \in Requests, Step(r), Carry(r, "owner") PROVE TablesMove
    BY <2>1, <2>3, CarryMoves DEF Next
  <2>4. ASSUME NEW user \in {"owner", NoUser}, Environment, Carry(Grantor, user) PROVE TablesMove
    BY <2>2, <2>4, CarryMoves DEF Next
  <2> QED
    BY <2>3, <2>4, SaveIdTokenMoves, DraftMoves DEF Served
<1>2. UNCHANGED lo /\ lo \in [Logouts -> LogoutRequest]
  BY DEF Served, Carry, SaveIdToken, LoadDraft, InsertFails, LogoutInv, LogoutsInv
<1> QED
  BY <1>1, <1>2, TablesMoved

\* clear_expired reads a batch: ID tokens that nothing carries.
LEMMA ReadIdsStep ==
    ASSUME LogoutInv, ReadIds
    PROVE  LogoutInv'
<1>1. idBatch' \subseteq ExpiredIdQuery /\ UNCHANGED <<col, idt, idSeq, lo>> /\ UNCHANGED vars /\ UNCHANGED db
  BY DEF ReadIds, vars
<1>2. IndInv' /\ ChainInv' /\ AllRows'
  BY <1>1, NextInv, NextChain, NextAllRows DEF LogoutInv
<1>3. Carrying(idBatch)' = {}
  <2>1. \A i \in idBatch' : Carrying({i}) = {}
    BY <1>1 DEF ExpiredIdQuery
  <2> QED
    BY <1>1, <2>1 DEF Carrying
<1>4. IdsInv'
  <2>1. now' = now /\ idBatch' \subseteq DOMAIN idt /\ \A i \in idBatch' : idt[i] < now
    BY <1>1 DEF ExpiredIdQuery, vars
  <2> QED
    BY <1>1, <1>3, <2>1 DEF LogoutInv, IdsInv
<1>5. LogoutsInv' /\ DraftsInv'
  BY <1>1 DEF LogoutInv, LogoutsInv, DraftsInv, ReadIds
<1> QED
  BY <1>2, <1>4, <1>5 DEF LogoutInv

\* ... and deletes it.
LEMMA DeleteIdsStep ==
    ASSUME LogoutInv, DeleteIds
    PROVE  LogoutInv'
<1>1. DeleteCascading({}, idBatch) /\ idBatch' = {} /\ UNCHANGED lo /\ lo \in [Logouts -> LogoutRequest]
  BY DEF DeleteIds, LogoutInv, LogoutsInv
<1> QED
  BY <1>1, DeleteCascadingMoves, TablesMoved

\* Every step keeps the invariant.
LEMMA LogoutNextInv == LogoutInv /\ [LogoutNext]_logoutVars => LogoutInv'
<1> SUFFICES ASSUME LogoutInv, [LogoutNext]_logoutVars PROVE LogoutInv'
  OBVIOUS
<1>1. ASSUME NEW l \in Logouts, DoLogout(l) PROVE LogoutInv'
  BY <1>1, ListRefreshStep, ListAccessStep, LoadIdTokenStep, RevokeTokenStep, RevokeListedStep, FinishStep
  DEF DoLogout
<1>2. CASE UNCHANGED logoutVars
  <2>1. UNCHANGED vars /\ UNCHANGED idVars /\ UNCHANGED lo /\ UNCHANGED db
    BY <1>2 DEF logoutVars, vars
  <2>2. IndInv' /\ ChainInv' /\ AllRows'
    BY <2>1, NextInv, NextChain, NextAllRows DEF LogoutInv
  <2>3. IdsInv' /\ DraftsInv' /\ LogoutsInv'
    BY <2>1 DEF LogoutInv, IdsInv, DraftsInv, LogoutsInv, Carrying, idVars, vars
  <2> QED
    BY <2>2, <2>3 DEF LogoutInv
<1> QED
  BY <1>1, <1>2, ServedStep, GetStep, FormValidStep, ReadIdsStep, DeleteIdsStep DEF LogoutNext

\* And it holds of empty tables.
LEMMA LogoutInitInv == LogoutInit => LogoutInv
<1> SUFFICES ASSUME LogoutInit PROVE LogoutInv
  OBVIOUS
<1>1. IndInv /\ ChainInv /\ AllRows
  BY InitInv, InitChain DEF LogoutInit, Init, EmptyStore, AllRows
<1>2. /\ db = EmptyStore /\ col = [a \in {} |-> NULL] /\ idt = [i \in {} |-> NULL]
      /\ draft = [w \in Issuers |-> NoDraft] /\ idSeq = 0 /\ idBatch = {}
      /\ lo = [l \in Logouts |-> NewLogout]
  BY DEF LogoutInit, Init
<1>3. IdsInv /\ DraftsInv
  <2>1. NoDraft \in Draft /\ NoDraft.id = NULL /\ NoDraft.link = NULL
    BY DEF NoDraft, Draft, NULL
  <2>2. DraftsInv
    BY <1>2, <2>1 DEF DraftsInv, NULL
  <2> QED
    BY <1>2, <2>2 DEF IdsInv, Carrying, EmptyStore
<1>4. Sound(NewLogout)
  <2>0. NoToken.access = 0
    BY DEF NoToken, NULL
  <2>1. NoToken \in Listed /\ NoToken.id = NULL /\ NULL \in Nat
    BY DEF NoToken, Listed, NULL
  <2>2. NewLogout \in LogoutRequest
    BY <2>1 DEF NewLogout, LogoutRequest, Users
  <2>3. Asked(NewLogout) /\ Owed(NewLogout, db)
    <3>1. db.atSeq = 0 /\ db.rtSeq = 0 /\ DOMAIN db.at = {} /\ DOMAIN db.rt = {}
      BY <1>2 DEF EmptyStore
    <3>2. Asked(NewLogout)
      BY DEF NewLogout, Asked
    <3>3. PICK x : x = NewLogout
      OBVIOUS
    <3>4. /\ x.phase = "new" /\ x.token = NoToken /\ x.accesses = {} /\ x.refreshes = {}
          /\ x.hadAccess = {} /\ x.hadRefresh = {}
      BY <3>3 DEF NewLogout
    <3>5. Owed(x, db)
      BY <2>0, <3>1, <3>4 DEF Owed
    <3> QED
      BY <3>2, <3>3, <3>5
  <2>4. Carried(NewLogout, col, draft, idSeq) /\ Deprived(NewLogout, DOMAIN idt)
    BY <1>2, <2>1 DEF NewLogout, Carried, Deprived
  <2> QED
    BY <2>2, <2>3, <2>4 DEF Sound
<1>5. LogoutsInv
  BY <1>2, <1>4 DEF LogoutsInv, Sound
<1> QED
  BY <1>1, <1>3, <1>5 DEF LogoutInv

-----------------------------------------------------------------------------
(***************************************************************************)
(* The theorems.                                                           *)
(***************************************************************************)
\* The invariant of the token endpoint and that of logouts hold side by side, for any
\* number of refreshes and logouts.
THEOREM LogoutInvariance == LogoutSpec => []LogoutInv
  BY LogoutInitInv, LogoutNextInv, PTL DEF LogoutSpec

\* The tables stay well formed beside logouts, and no access token carries an ID token
\* that is gone or that another carries.
THEOREM LogoutTypeCorrect == LogoutSpec => []LogoutTypeOK
<1>1. LogoutInv => LogoutTypeOK
  <2> SUFFICES ASSUME LogoutInv PROVE LogoutTypeOK
    OBVIOUS
  <2>1. IsStore(db) /\ ForeignKeys(db)
    BY TablesTyped DEF WellFormed
  <2>2. \A l \in Logouts : lo[l].phase \in Ended \cup
          {"new", "prompted", "list refresh", "list access", "deleting", "found"}
    BY DEF LogoutInv, LogoutsInv, LogoutRequest
  <2> QED
    BY <2>1, <2>2 DEF LogoutInv, IdsInv, DraftsInv, LogoutTypeOK
<1> QED
  BY <1>1, LogoutInvariance, PTL

\* Whoever is told that they are logged out has lost every token do_logout found, whatever
\* was exchanged, revoked, deleted and cleared between its statements; whoever gets a 500
\* instead had an ID token of the list, with its access token, taken by somebody else.
THEOREM LogoutTakesAll == LogoutSpec => []LogoutKillsTokens
<1>1. ASSUME LogoutInv, NEW l \in Logouts, lo[l].phase = "logged_out"
      PROVE  /\ lo[l].hadAccess \cap DOMAIN db.at = {}
             /\ \A t \in lo[l].hadRefresh \cap DOMAIN db.rt : db.rt[t].revoked # NULL
  <2>1. PICK x : x = lo[l]
    OBVIOUS
  <2>2. Owed(x, db) /\ x.phase = "logged_out"
    BY <1>1, <2>1, WasSound DEF Sound
  <2>3. x.accesses = {} /\ x.refreshes = {} /\ x.token = NoToken /\ x.hadAccess \subseteq 1 .. db.atSeq
    BY <2>2 DEF Owed
  <2>4. x.token.access = NULL
    BY <2>3 DEF NoToken
  <2>5. x.hadAccess \cap DOMAIN db.at = {}
    BY <2>2, <2>3, <2>4 DEF Owed, NULL
  <2>6. \A t \in x.hadRefresh \cap DOMAIN db.rt : db.rt[t].revoked # NULL
    BY <2>2, <2>3 DEF Owed
  <2> QED
    BY <2>1, <2>5, <2>6
<1>2. ASSUME LogoutInv, NEW l \in Logouts, lo[l].phase = "server_error", lo[l].user # NoUser
      PROVE  \E k \in lo[l].accesses : k.id \notin DOMAIN idt \cup {NULL} /\ k.access \notin DOMAIN db.at
  <2>1. Carried(lo[l], col, draft, idSeq) /\ Deprived(lo[l], DOMAIN idt)
    BY <1>2, WasSound DEF Sound
  <2>2. PICK k \in lo[l].accesses : k.id \notin DOMAIN idt \cup {NULL}
    BY <1>2, <2>1 DEF Deprived
  <2>3. k.access \in DOMAIN col => col[k.access].id = k.id
    BY <2>1 DEF Carried
  <2>4. k.access \notin DOMAIN col /\ DOMAIN col = DOMAIN db.at
    BY <1>2, <2>2, <2>3 DEF LogoutInv, IdsInv
  <2> QED
    BY <2>2, <2>4
<1>3. LogoutInv => LogoutKillsTokens
  BY <1>1, <1>2 DEF LogoutKillsTokens
<1> QED
  BY <1>3, LogoutInvariance, PTL

\* However logins change between the page and the form, a logout takes the tokens of
\* nobody but the user logged in, unless that user agreed.
THEOREM NobodyElseUnasked == LogoutSpec => []NoSilentLogoutOfOthers
<1>1. LogoutInv => NoSilentLogoutOfOthers
  BY DEF LogoutInv, LogoutsInv, Asked, NoSilentLogoutOfOthers
<1> QED
  BY <1>1, LogoutInvariance, PTL

AgreesOn(old, error, decision) == old[1] = error /\ (error = "" => old = decision)

\* The two validations of a logout request, compared case by case.
LEMMA ValidationsAgree ==
    ASSUME NEW hint, NEW client, NEW uri, NEW session \in Users
    PROVE  AgreesOn(DeprecatedValidate(hint, client, uri, session), LogoutError(hint, client, uri),
                    <<"", MustPrompt(hint, session), uri, RequestApplication(hint, client), TokenUser(hint)>>)
<1>1. PICK old, error : /\ old = DeprecatedValidate(hint, client, uri, session)
                        /\ error = LogoutError(hint, client, uri)
  OBVIOUS
<1>2. PICK app, user, prompt : /\ app = RequestApplication(hint, client)
                               /\ user = TokenUser(hint) /\ prompt = MustPrompt(hint, session)
  OBVIOUS
<1>3. PICK decision : decision = <<"", prompt, uri, app, user>>
  OBVIOUS
<1>4. SUFFICES AgreesOn(old, error, decision)
  BY <1>1, <1>2, <1>3
<1>5. ASSUME NEW e, e # "", old = <<e, FALSE, NoUri, "", NoUser>>, error = e
      PROVE  AgreesOn(old, error, decision)
  BY <1>5 DEF AgreesOn
<1>6. (~(hint # NULL /\ session = "owner") \/ AlwaysPrompt) = prompt
  BY <1>2 DEF MustPrompt, TokenUser, Users, NoUser
<1>7. /\ user = IF hint # NULL THEN "owner" ELSE NoUser
      /\ app = IF client # "" THEN client ELSE IF hint # NULL THEN "mine" ELSE ""
  BY <1>2 DEF TokenUser, RequestApplication
<1>8. ASSUME hint # NULL /\ ~Loadable(hint) PROVE AgreesOn(old, error, decision)
  <2>1. old = <<"invalid_id_token", FALSE, NoUri, "", NoUser>> /\ error = "invalid_id_token"
    BY <1>1, <1>8 DEF DeprecatedValidate, LogoutError
  <2> QED
    BY <1>5, <2>1
<1>9. ASSUME hint # NULL /\ Loadable(hint) /\ client \notin {"", "mine"}
      PROVE  AgreesOn(old, error, decision)
  <2>1. old = <<"client_mismatch", FALSE, NoUri, "", NoUser>> /\ error = "client_mismatch"
    BY <1>1, <1>9 DEF DeprecatedValidate, LogoutError
  <2> QED
    BY <1>5, <2>1
<1>10. ASSUME hint = NULL /\ client # "" /\ client \notin DOMAIN Clients
       PROVE  AgreesOn(old, error, decision)
  <2>1. old = <<"server_error", FALSE, NoUri, "", NoUser>> /\ error = "server_error"
    BY <1>1, <1>10 DEF DeprecatedValidate, LogoutError
  <2> QED
    BY <1>5, <2>1
<1>11. ASSUME /\ hint # NULL => Loadable(hint) /\ client \in {"", "mine"}
              /\ hint = NULL => client = "" \/ client \in DOMAIN Clients
       PROVE  AgreesOn(old, error, decision)
  <2>1. client # "" => client \in DOMAIN Clients
    BY <1>11, LogoutAssumption
  <2>2. error = IF uri = NoUri THEN ""
                ELSE IF app = "" THEN "invalid_client"
                ELSE IF PostLogoutUriError(Clients[app], uri) THEN "invalid_uri" ELSE ""
    BY <1>1, <1>2, <1>11 DEF LogoutError
  <2>3. PICK bad \in BOOLEAN : bad <=> PostLogoutUriError(Clients[app], uri)
    OBVIOUS
  <2>4. bad <=> \/ uri.scheme = ""
                \/ StrictUris /\ uri.scheme = "http" /\ Clients[app].type # "confidential"
                \/ uri.scheme \notin RedirectSchemes
                \/ ~RedirectToUriAllowed(uri, Clients[app].logouts)
    BY <2>3 DEF PostLogoutUriError
  <2>5. old = IF uri # NoUri /\ app = "" THEN <<"invalid_client", FALSE, NoUri, "", NoUser>>
              ELSE IF uri # NoUri /\ bad THEN <<"invalid_uri", FALSE, NoUri, "", NoUser>>
              ELSE <<"", prompt, uri, app, user>>
    BY <1>1, <1>6, <1>7, <1>11, <2>1, <2>4 DEF DeprecatedValidate
  <2>6. CASE uri # NoUri /\ app = ""
    BY <1>5, <2>2, <2>5, <2>6
  <2>7. CASE uri # NoUri /\ app # "" /\ bad
    BY <1>5, <2>2, <2>3, <2>5, <2>7
  <2>8. CASE uri = NoUri \/ (app # "" /\ ~bad)
    BY <1>3, <2>2, <2>3, <2>5, <2>8 DEF AgreesOn
  <2> QED
    BY <2>6, <2>7, <2>8
<1> QED
  BY <1>8, <1>9, <1>10, <1>11

\* The deprecated function and the methods decide alike, for any settings, applications
\* and requests.
THEOREM DeprecatedDecidesAlike == LogoutSpec => []DeprecatedAgrees
<1>1. DeprecatedAgrees
  BY ValidationsAgree DEF AgreesOn, DeprecatedAgrees
<1> QED
  BY <1>1, PTL

\* Deleting nothing changes nothing.
LEMMA DeleteNone ==
    ASSUME NEW S, WellFormed(S), NEW A, A \cap DOMAIN S.at = {}
    PROVE  DeleteAccess(S, A) = S
<1>1. PICK D : D = DeleteAccess(S, A)
  OBVIOUS
<1>2. /\ D = [at |-> D.at, rt |-> D.rt, atSeq |-> D.atSeq, rtSeq |-> D.rtSeq, strings |-> D.strings]
      /\ AccessDeleted(S, D, A)
  BY <1>1, DeleteAccessFields DEF WellFormed
<1>3. /\ S = [at |-> S.at, rt |-> S.rt, atSeq |-> S.atSeq, rtSeq |-> S.rtSeq, strings |-> S.strings]
      /\ S.at = [a \in DOMAIN S.at |-> S.at[a]] /\ S.rt = [t \in DOMAIN S.rt |-> S.rt[t]]
      /\ \A t \in DOMAIN S.rt : S.rt[t] \in RefreshRow
  BY DEF WellFormed, IsStore
<1>4. D.at = S.at
  BY <1>2, <1>3 DEF AccessDeleted
<1>5. D.rt = S.rt
  <2>1. ASSUME NEW t \in DOMAIN S.rt
        PROVE  (IF S.rt[t].access \in A THEN [S.rt[t] EXCEPT !.access = NULL] ELSE S.rt[t]) = S.rt[t]
    <3>1. S.rt[t].access \in A => S.rt[t].access = NULL
      BY DEF WellFormed, ForeignKeys
    <3>2. S.rt[t] \in RefreshRow
      BY <1>3
    <3> QED
      BY <3>1, <3>2 DEF RefreshRow
  <2>2. D.rt = [t \in DOMAIN S.rt |-> S.rt[t]]
    BY <1>2, <2>1 DEF AccessDeleted
  <2> QED
    BY <1>3, <2>2
<1>6. D.atSeq = S.atSeq /\ D.rtSeq = S.rtSeq /\ D.strings = S.strings
  BY <1>2 DEF AccessDeleted
<1> QED
  BY <1>1, <1>2, <1>3, <1>4, <1>5, <1>6

\* The clearing of ID tokens takes an access token only if its ID token had expired before
\* the access token was saved: everything else is picked unlinked and stays unlinked,
\* although ID tokens are linked by another transaction than the one that saved them.
THEOREM IdLoopSparesCurrent == LogoutSpec => IdLoopSparesAccess
<1>1. LogoutInv /\ [LogoutNext]_logoutVars =>
        [DeleteIds => \A a \in DOMAIN db.at \ DOMAIN db'.at : col[a].stale]_logoutVars
  <2> SUFFICES ASSUME LogoutInv, DeleteIds, NEW a \in DOMAIN db.at \ DOMAIN db'.at PROVE col[a].stale
    OBVIOUS
  <2>1. PICK gone : gone = {} \cup Carrying(idBatch)
    OBVIOUS
  <2>2. db' = DeleteAccess(db, gone) /\ IsStore(db)
    BY <2>1, TablesTyped DEF DeleteIds, DeleteCascading, WellFormed
  <2>3. AccessDeleted(db, db', gone)
    BY <2>2, DeleteAccessFields
  <2>4. a \in Carrying(idBatch)
    BY <2>1, <2>3 DEF AccessDeleted
  <2> QED
    BY <2>4 DEF LogoutInv, IdsInv
<1> QED
  BY <1>1, LogoutInvariance, PTL DEF LogoutSpec, IdLoopSparesAccess

\* Deletions with their cascade take one access token: no other carries the ID token.
LEMMA RevokeTokenTakesOne ==
    ASSUME LogoutInv, NEW l \in Logouts, RevokeToken(l)
    PROVE  [Promise!Next]_(Promise!vars)
<1>1. PICK x : x = lo[l]
  OBVIOUS
<1>2. PICK gone : gone = {x.token.access} \cup Carrying({x.token.id})
  OBVIOUS
<1>3. db' = DeleteAccess(db, gone) /\ UNCHANGED granted
  BY <1>1, <1>2 DEF RevokeToken, DeleteCascading
<1>4. Carried(x, col, draft, idSeq) /\ WellFormed(db) /\ DOMAIN col = DOMAIN db.at
  BY <1>1, WasSound, TablesTyped DEF Sound
<1>5. gone \cap DOMAIN db.at \subseteq {x.token.access}
  BY <1>2, <1>4 DEF Carried, Carrying
<1>6. CASE gone \cap DOMAIN db.at = {}
  <2>1. db' = db
    BY <1>3, <1>4, <1>6, DeleteNone
  <2> QED
    BY <1>3, <2>1 DEF Promise!vars, MappedAccess, MappedRefresh
<1>7. CASE gone \cap DOMAIN db.at # {}
  <2>1. x.token.access \in DOMAIN db.at /\ gone \cap DOMAIN db.at = {x.token.access}
    BY <1>5, <1>7
  <2> QED
    BY <1>3, <1>4, <2>1, DeletesDrop DEF Promise!Next
<1> QED
  BY <1>6, <1>7

\* What the endpoint does beside a logout is an action of the promise or a stutter.
LEMMA ServedPromised ==
    ASSUME LogoutInv, Served
    PROVE  [Promise!Next]_(Promise!vars)
<1>1. ASSUME UNCHANGED <<db, granted>> PROVE UNCHANGED Promise!vars
  BY <1>1 DEF Promise!vars, MappedAccess, MappedRefresh
<1>2. CASE Next
  BY <1>2, NextPromised DEF LogoutInv
<1>3. ASSUME NEW w \in Issuers, SaveIdToken(w) \/ LoadDraft(w) \/ InsertFails(w)
      PROVE  UNCHANGED Promise!vars
  BY <1>1, <1>3 DEF SaveIdToken, LoadDraft, InsertFails, Answer, vars
<1> QED
  BY <1>2, <1>3 DEF Served, Next

\* Every step beside a logout, and every step of it, is an action of the promise or
\* changes nothing it speaks of; the clearing of ID tokens is a sweep.
LEMMA LogoutNextPromised ==
    ASSUME LogoutInv, [LogoutNext]_logoutVars
    PROVE  [Promise!Next \/ Promise!SweepAny]_(Promise!vars)
<1>1. ASSUME UNCHANGED <<db, granted>> PROVE UNCHANGED Promise!vars
  BY <1>1 DEF Promise!vars, MappedAccess, MappedRefresh
<1>2. ASSUME NEW l \in Logouts, NEW fields, LogoutGoes(l, fields) PROVE UNCHANGED Promise!vars
  BY <1>1, <1>2 DEF LogoutGoes, vars
<1>3. ASSUME NEW l \in Logouts, NEW hint, NEW input, NEW session, Get(l, hint, input, session)
      PROVE  UNCHANGED Promise!vars
  BY <1>2, <1>3 DEF Get
<1>4. ASSUME NEW l \in Logouts, NEW allow, NEW session, FormValid(l, allow, session)
      PROVE  UNCHANGED Promise!vars
  BY <1>2, <1>4 DEF FormValid
<1>5. ASSUME NEW l \in Logouts, DoLogout(l) PROVE [Promise!Next]_(Promise!vars)
  <2>1. CASE ListRefresh(l) \/ ListAccess(l) \/ LoadIdToken(l) \/ Finish(l)
    BY <1>2, <2>1 DEF ListRefresh, ListAccess, LoadIdToken, Finish
  <2>2. CASE RevokeListed(l)
    <3>1. PICK t : db' = RevokeRefresh(db, {t}, now) /\ UNCHANGED granted
      BY <2>2 DEF RevokeListed
    <3> QED
      BY <3>1, TablesTyped, RevokesMapped DEF Promise!Next
  <2> QED
    BY <1>5, <2>1, <2>2, RevokeTokenTakesOne DEF DoLogout
<1>6. CASE Served
  BY <1>6, ServedPromised
<1>7. CASE ReadIds
  BY <1>1, <1>7 DEF ReadIds, vars
<1>8. CASE DeleteIds
  <2>1. PICK A : db' = DeleteAccess(db, A) /\ UNCHANGED granted
    BY <1>8 DEF DeleteIds, DeleteCascading
  <2>2. PICK K : K = A \cap DOMAIN db.at
    OBVIOUS
  <2>3. Promise!Sweep(K)
    BY <2>1, <2>2, TablesTyped, DeletesSweep
  <2>4. K \in SUBSET DOMAIN MappedAccess(db)
    BY <2>2, MappedDomains
  <2> QED
    BY <2>3, <2>4 DEF Promise!SweepAny
<1>9. CASE UNCHANGED logoutVars
  BY <1>1, <1>9 DEF logoutVars, vars
<1> QED
  BY <1>3, <1>4, <1>5, <1>6, <1>7, <1>8, <1>9 DEF LogoutNext

\* Beside logouts and the clearing of ID tokens, too, the refresh grant implements its
\* promise: do_logout does nothing to the tables but drop and revoke, and the clearing of
\* ID tokens, with its cascade, sweeps access tokens.
THEOREM PromiseKeptBesideLogout == LogoutSpec => KeepsPromiseCleared
<1>1. LogoutInit => Promise!Init
  BY DEF LogoutInit, Init, EmptyStore, Promise!Init, Promise!NoKey, MappedAccess, MappedRefresh, NULL
<1>2. LogoutInv /\ [LogoutNext]_logoutVars => [Promise!Next \/ Promise!SweepAny]_(Promise!vars)
  BY LogoutNextPromised
<1> QED
  BY <1>1, <1>2, LogoutInvariance, PTL DEF LogoutSpec, KeepsPromiseCleared, Promise!ClearedSpec

-----------------------------------------------------------------------------
(***************************************************************************)
(* The endpoint's own promises beside logouts.                             *)
(***************************************************************************)
Takes ==
    /\ Moves(db, db', now, {}) /\ StampsKept(db, db') /\ DOMAIN db.rt \subseteq DOMAIN db'.rt
    /\ UNCHANGED <<now, req, granted, rev>>

\* The endpoint's step, or a refresh whose access token could not be saved.
LEMMA ServedEndpoint ==
    ASSUME LogoutInv, Served
    PROVE  [Next]_vars \/ \E r \in Requests : Answer(r, "server_error")
<1>1. ASSUME NEW w \in Issuers, SaveIdToken(w) \/ LoadDraft(w) \/ InsertFails(w)
      PROVE  UNCHANGED vars \/ \E r \in Requests : Answer(r, "server_error")
  BY <1>1 DEF SaveIdToken, LoadDraft, InsertFails, Issuers
<1> QED
  BY <1>1 DEF Served, Next

\* A logout, and the clearing of ID tokens, take access tokens and revoke refresh tokens.
LEMMA LogoutTakes ==
    ASSUME LogoutInv, [LogoutNext]_logoutVars
    PROVE  Takes \/ [Next]_vars \/ \E r \in Requests : Answer(r, "server_error")
<1>0. WellFormed(db) /\ Chained(db, granted) /\ now \in Nat \ {NULL} /\ IndInv
  BY TablesTyped DEF LogoutInv, ChainInv, Chained
<1>1. ASSUME NEW A, NEW ids, DeleteCascading(A, ids) PROVE Takes
  <2>1. PICK gone : db' = DeleteAccess(db, gone) /\ UNCHANGED <<now, req, granted, rev>>
    BY <1>1 DEF DeleteCascading
  <2>2. Moves(db, db', now, {})
    BY <1>0, <2>1, DeleteMoves
  <2>3. AccessDeleted(db, db', gone) /\ StampsKept(db, db')
    BY <1>0, <2>1, DeleteAccessKeepsStamps, DeleteAccessFields DEF WellFormed
  <2>4. DOMAIN db.rt \subseteq DOMAIN db'.rt
    BY <2>3 DEF AccessDeleted
  <2> QED
    BY <2>1, <2>2, <2>3, <2>4 DEF Takes
<1>2. ASSUME NEW l \in Logouts, RevokeListed(l) PROVE Takes
  <2>1. PICK t : db' = RevokeRefresh(db, {t}, now) /\ UNCHANGED <<now, req, granted, rev>>
    BY <1>2 DEF RevokeListed
  <2>2. PICK none, T : none = {} /\ T = {t}
    OBVIOUS
  <2>3. db' = RevokeRefresh(db, T, now)
    BY <2>1, <2>2
  <2>4. Moves(db, db', now, none)
    BY <1>0, <2>3, RevokeMoves
  <2>5. StampsKept(db, db') /\ DOMAIN db'.rt = DOMAIN db.rt
    BY <1>0, <2>3, RevokeKeepsStamps
  <2> QED
    BY <2>1, <2>2, <2>4, <2>5 DEF Takes
<1>3. ASSUME NEW l \in Logouts, DoLogout(l) PROVE Takes \/ UNCHANGED vars
  BY <1>1, <1>2, <1>3
  DEF DoLogout, ListRefresh, ListAccess, LoadIdToken, RevokeToken, Finish, LogoutGoes
<1>4. ASSUME NEW l \in Logouts, NEW hint, NEW input, NEW session, Get(l, hint, input, session)
      PROVE  UNCHANGED vars
  BY <1>4 DEF Get, LogoutGoes
<1>5. ASSUME NEW l \in Logouts, NEW allow, NEW session, FormValid(l, allow, session)
      PROVE  UNCHANGED vars
  BY <1>5 DEF FormValid, LogoutGoes
<1>6. ReadIds \/ UNCHANGED logoutVars => UNCHANGED vars
  BY DEF ReadIds, logoutVars
<1>7. DeleteIds => Takes
  BY <1>1 DEF DeleteIds
<1> QED
  BY <1>3, <1>4, <1>5, <1>6, <1>7, ServedEndpoint DEF LogoutNext

\* Strings, timestamps, pairs and revoked strings beside logouts.
LogoutBeside == RotationInv /\ PairInv /\ PairKept /\ CancelInv

\* What a logout takes away disturbs none of them.
LEMMA TakesBeside == LogoutInv /\ LogoutBeside /\ Takes => LogoutBeside'
<1> SUFFICES ASSUME LogoutInv, LogoutBeside, Takes PROVE LogoutBeside'
  OBVIOUS
<1>0. IndInv /\ ChainInv /\ RotationInv /\ PairInv /\ PairKept /\ CancelInv /\ now \in Nat
  BY TablesTyped DEF LogoutInv, LogoutBeside
<1>1. PICK none : none = {}
  OBVIOUS
<1>2. /\ Moves(db, db', now, none) /\ DOMAIN db.rt \subseteq DOMAIN db'.rt
      /\ UNCHANGED req /\ UNCHANGED rev /\ now' = now
  BY <1>1 DEF Takes
<1>3. Rotate => none \subseteq {db.rtSeq + 1}
  BY <1>1
<1>4. RotationInv'
  BY <1>0, <1>2, <1>3, MovesRotation
<1>5. PairInv' /\ PairKept'
  BY <1>0, <1>2, OtherPairs
<1>6. \A q \in Requests : GoesOn(q)
  BY <1>2 DEF GoesOn
<1>7. CancelInv'
  <2>1. \A x \in none : /\ x \in 1 .. db'.rtSeq
                        /\ \A v \in Revocations :
                              rev[v].phase # "new" /\ (Rotate \/ ~rev[v].raced) => rev[v].code # x
    BY <1>1
  <2>2. now' \in Nat /\ now <= now'
    BY <1>0, <1>2
  <2> QED
    BY <1>0, <1>2, <1>6, <2>1, <2>2, CancelCommit
<1> QED
  BY <1>4, <1>5, <1>7 DEF LogoutBeside

\* Nor does a refresh whose access token could not be saved.
LEMMA FailureBeside ==
    ASSUME LogoutInv, LogoutBeside, NEW r \in Requests, Answer(r, "server_error")
    PROVE  LogoutBeside'
<1>0. /\ IndInv /\ ChainInv /\ RotationInv /\ PairInv /\ PairKept /\ CancelInv
      /\ WellFormed(db) /\ now \in Nat
  BY TablesTyped DEF LogoutInv, LogoutBeside
<1>1. PICK outcome, none : outcome = "server_error" /\ none = {}
  OBVIOUS
<1>2. outcome \in Answered \ {"ok"} /\ Answer(r, outcome)
  BY <1>1 DEF Answered
<1>3. Waits(r)
  BY <1>0, <1>2, ErrorWaits
<1>4. /\ UNCHANGED <<now, db, granted, rev>> /\ \A q \in Requests \ {r} : req'[q] = req[q]
  BY <1>0, <1>2 DEF Answer, IndInv, TypeOK
<1>5. Moves(db, db', now, none) /\ DOMAIN db.rt \subseteq DOMAIN db'.rt
  BY <1>0, <1>4, StillMoves
<1>6. RotationInv'
  BY <1>0, <1>4 DEF RotationInv
<1>7. KnowsPair(db', req'[r]) /\ (KeepsPair(db, req[r]) => KeepsPair(db', req'[r]))
  BY <1>0, <1>3, StatementPair
<1>8. ASSUME NEW q \in Requests, q # r
      PROVE  KnowsPair(db', req'[q]) /\ (KeepsPair(db, req[q]) => KeepsPair(db', req'[q]))
  <2>1. req'[q] = req[q]
    BY <1>4, <1>8
  <2> QED
    BY <1>0, <1>5, <2>1, OthersPair
<1>9. PairInv' /\ PairKept'
  BY <1>0, <1>7, <1>8 DEF PairInv, PairKept
<1>10. CancelInv'
  <2>1. \A q \in Requests : GoesOn(q)
    BY <1>3, <1>4 DEF GoesOn, Waits
  <2>2. \A x \in none : /\ x \in 1 .. db'.rtSeq
                        /\ \A v \in Revocations :
                              rev[v].phase # "new" /\ (Rotate \/ ~rev[v].raced) => rev[v].code # x
    BY <1>1
  <2>3. now' \in Nat /\ now <= now' /\ UNCHANGED rev
    BY <1>0, <1>4
  <2> QED
    BY <1>0, <1>5, <2>1, <2>2, <2>3, CancelCommit
<1> QED
  BY <1>6, <1>9, <1>10 DEF LogoutBeside

\* They hold after every step.
LEMMA LogoutNextBeside == LogoutInv /\ LogoutBeside /\ [LogoutNext]_logoutVars => LogoutBeside'
<1> SUFFICES ASSUME LogoutInv, LogoutBeside, [LogoutNext]_logoutVars PROVE LogoutBeside'
  OBVIOUS
<1>1. CASE Takes
  BY <1>1, TakesBeside
<1>2. CASE [Next]_vars
  BY <1>2, NextRotation, NextPairs, NextCancel DEF LogoutInv, LogoutBeside
<1>3. CASE \E r \in Requests : Answer(r, "server_error")
  BY <1>3, FailureBeside
<1> QED
  BY <1>1, <1>2, <1>3, LogoutTakes

\* They hold in every reachable state.
LEMMA LogoutBesideInvariance == LogoutSpec => []LogoutBeside
<1>1. LogoutInit => LogoutBeside
  BY InitRotation, InitPairs, InitCancel DEF LogoutInit, LogoutBeside
<1> QED
  BY <1>1, LogoutNextBeside, LogoutInvariance, PTL DEF LogoutSpec

\* What do_logout deletes and revokes under refreshes in progress makes no second
\* successor, leaves no revoked refresh token an access token, lets no scope outgrow its
\* grant and no two answers for one refresh token disagree.
THEOREM EndpointBesideLogout ==
    LogoutSpec => [](OneSuccessor /\ RevokedIsUnbound /\ ScopeWithinGrant /\ LiveAnswersAgree)
<1>1. LogoutInv => OneSuccessor /\ RevokedIsUnbound /\ ScopeWithinGrant /\ LiveAnswersAgree
  BY ScopesWithin, ClaimsAnswered DEF LogoutInv, IndInv, WellFormed, OneSuccessor, RevokedIsUnbound
<1> QED
  BY <1>1, LogoutInvariance, PTL

\* What was revoked at the endpoint buys nothing beside logouts either, whatever they and
\* the clearing of ID tokens take under the refreshes in progress.
THEOREM RevocationEndsExchangeBesideLogout == LogoutSpec => []RevokedBuysNothing
<1>1. LogoutBeside => RevokedBuysNothing
  BY DEF LogoutBeside, CancelInv, RevokedBuysNothing
<1> QED
  BY <1>1, LogoutBesideInvariance, PTL

\* What a logout, or anyone before it, revoked stays revoked and is never stamped again.
THEOREM RevocationFinalBesideLogout == LogoutSpec => RevocationIsFinal
<1>1. LogoutInv /\ [LogoutNext]_logoutVars =>
        [\A t \in DOMAIN db.rt \cap DOMAIN db.rt' :
            db.rt[t].revoked # NULL => db'.rt[t].revoked = db.rt[t].revoked]_vars
  <2> SUFFICES ASSUME LogoutInv, [LogoutNext]_logoutVars PROVE StampsKept(db, db')
    BY DEF StampsKept
  <2>1. IndInv
    BY DEF LogoutInv
  <2>2. (\E r \in Requests : Answer(r, "server_error")) => db' = db
    BY DEF Answer
  <2>3. db' = db => StampsKept(db, db')
    BY DEF StampsKept
  <2> QED
    BY <2>1, <2>2, <2>3, LogoutTakes, NextKeepsStamps DEF Takes
<1> QED
  BY <1>1, LogoutInvariance, PTL DEF LogoutSpec, RevocationIsFinal

\* The pair a refresh was answered stays a pair although a logout of the same user deletes
\* access tokens and revokes refresh tokens between the two reads of it, before and after
\* the commit: an access token of an answer is there with the refresh token of the answer,
\* unrevoked, or not at all.
THEOREM AnsweredPairHoldsBesideLogout == LogoutSpec => []AnsweredPairHolds
<1>1. LogoutInv /\ LogoutBeside => AnsweredPairHolds
  BY KeptPairHolds DEF LogoutInv, LogoutBeside
<1> QED
  BY <1>1, LogoutInvariance, LogoutBesideInvariance, PTL

=============================================================================
