--------------------------- MODULE ClearExpired_proofs ---------------------------
(***************************************************************************)
(* clear_expired beside the token endpoint, for every batch size, lifetime *)
(* and number of requests: the tables stay well formed, and with rotation  *)
(* what a batch was picked for is still the case when it is deleted.       *)
(***************************************************************************)
EXTENDS ClearExpired, TokenRefresh_proofs

\* What the endpoint may do to rows picked earlier: keys grow, timestamps stay, and with
\* rotation an access token keeps its expiry and gets no refresh token it did not have.
Ages(S, D) ==
    /\ S.atSeq \in Nat /\ D.atSeq \in Nat /\ S.atSeq <= D.atSeq
    /\ S.rtSeq \in Nat /\ D.rtSeq \in Nat /\ S.rtSeq <= D.rtSeq
    /\ \A t \in DOMAIN D.rt : t \in DOMAIN S.rt \/ t > S.rtSeq
    /\ \A a \in DOMAIN D.at : a \in DOMAIN S.at \/ a > S.atSeq
    /\ DOMAIN S.rt \subseteq DOMAIN D.rt /\ StampsKept(S, D)
    /\ Rotate =>
          /\ \A a \in DOMAIN S.at \cap DOMAIN D.at : D.at[a].expires = S.at[a].expires
          /\ \A t \in DOMAIN S.rt : D.rt[t].access \in {NULL, S.rt[t].access}
          /\ \A t \in DOMAIN D.rt \ DOMAIN S.rt : D.rt[t].access > S.atSeq

\* Tables that are left alone age, too.
LEMMA SameAges ==
    ASSUME NEW S, IsStore(S)
    PROVE  Ages(S, S)
BY DEF Ages, IsStore, StampsKept

\* delete() of access tokens only takes keys away.
LEMMA DeleteAccessAges ==
    ASSUME NEW S, IsStore(S), NEW A, NEW D, D = DeleteAccess(S, A)
    PROVE  Ages(S, D)
<1>1. AccessDeleted(S, D, A) /\ StampsKept(S, D)
  BY DeleteAccessFields, DeleteAccessKeepsStamps
<1>2. /\ DOMAIN D.at = DOMAIN S.at \ A /\ \A a \in DOMAIN D.at : D.at[a] = S.at[a]
      /\ DOMAIN D.rt = DOMAIN S.rt
      /\ \A t \in DOMAIN S.rt : D.rt[t].access \in {NULL, S.rt[t].access}
  <2>1. \A t \in DOMAIN S.rt : S.rt[t] \in RefreshRow
    BY DEF IsStore
  <2> QED
    BY <1>1, <2>1 DEF AccessDeleted, RefreshRow
<1> QED
  BY <1>1, <1>2 DEF Ages, AccessDeleted, IsStore

\* So does RefreshToken.revoke.
LEMMA RevokeAges ==
    ASSUME NEW S, WellFormed(S), NEW T, NEW when \in Nat, NEW R, R = RevokeRefresh(S, T, when)
    PROVE  Ages(S, R)
<1>1. /\ R.atSeq = S.atSeq /\ R.rtSeq = S.rtSeq
      /\ DOMAIN R.at \subseteq DOMAIN S.at /\ DOMAIN R.rt = DOMAIN S.rt
      /\ \A a \in DOMAIN R.at : R.at[a] = S.at[a]
      /\ \A t \in DOMAIN S.rt : S.rt[t].revoked # NULL => R.rt[t].revoked = S.rt[t].revoked
      /\ \A t \in DOMAIN S.rt : R.rt[t].access \in {NULL, S.rt[t].access}
  BY RevokeRefreshFields
<1> QED
  BY <1>1 DEF Ages, StampsKept, WellFormed, IsStore

\* A new pair gets new keys, and the new refresh token is bound to the new access token.
LEMMA CreateAges ==
    ASSUME NEW S, IsStore(S), NEW scope, NEW expires, NEW source,
           NEW A, A = CreateAccess(S, scope, expires, source),
           NEW token, NEW C, C = CreateRefresh(A, token, A.atSeq),
           NEW P, IsStore(P), Ages(P, S), P.atSeq = S.atSeq
    PROVE  Ages(P, A) /\ Ages(P, C)
<1>1. /\ A = [at |-> A.at, rt |-> A.rt, atSeq |-> A.atSeq, rtSeq |-> A.rtSeq, strings |-> A.strings]
      /\ A.rt = S.rt /\ A.rtSeq = S.rtSeq /\ A.atSeq = S.atSeq + 1
      /\ A.at = Insert(S.at, A.atSeq, [token |-> S.strings + 1, scope |-> scope,
                                       expires |-> expires, source |-> source])
  BY DEF CreateAccess, IsStore
<1>2. /\ C.at = A.at /\ C.atSeq = A.atSeq /\ C.rtSeq = S.rtSeq + 1
      /\ C.rt = Insert(S.rt, C.rtSeq, [token |-> token, access |-> A.atSeq, revoked |-> NULL])
  BY <1>1 DEF CreateRefresh
<1>3. /\ S.atSeq \in Nat /\ S.rtSeq \in Nat
      /\ \A a \in DOMAIN S.at : a \in Nat /\ a <= S.atSeq
      /\ \A t \in DOMAIN S.rt : t \in Nat /\ t <= S.rtSeq
      /\ \A a \in DOMAIN P.at : a \in Nat /\ a <= S.atSeq
  BY DEF IsStore
<1>4. /\ DOMAIN A.at = DOMAIN S.at \cup {A.atSeq} /\ A.atSeq \notin DOMAIN P.at
      /\ \A a \in DOMAIN S.at : A.at[a] = S.at[a]
  BY <1>1, <1>3 DEF Insert
<1>5. /\ DOMAIN C.rt = DOMAIN S.rt \cup {C.rtSeq} /\ C.rt[C.rtSeq].access = A.atSeq
      /\ \A t \in DOMAIN S.rt : C.rt[t] = S.rt[t]
  BY <1>2, <1>3 DEF Insert
<1>6. Ages(P, A)
  BY <1>1, <1>3, <1>4 DEF Ages, StampsKept
<1>7. Ages(P, C)
  <2>1. /\ P.atSeq <= C.atSeq /\ P.rtSeq <= C.rtSeq /\ C.atSeq \in Nat /\ C.rtSeq \in Nat
        /\ C.rtSeq > P.rtSeq /\ A.atSeq > P.atSeq
    BY <1>1, <1>2, <1>3 DEF Ages
  <2> QED
    BY <1>2, <1>4, <1>5, <2>1 DEF Ages, StampsKept
<1> QED
  BY <1>6, <1>7

\* Every step of the token endpoint and of the other requests ages the tables.
LEMMA StepAges ==
    ASSUME IndInv, NEW r \in Requests, Step(r)
    PROVE  Ages(db, db')
<1>0. IsStore(db) /\ WellFormed(db) /\ now \in Nat
  BY DEF IndInv, TypeOK
<1>1. CASE UNCHANGED db
  BY <1>0, <1>1, SameAges
<1>2. CASE ReuseAccess(r)
  <2>1. UNCHANGED db \/ /\ req[r].access \in DOMAIN db.at /\ ~Rotate
                        /\ db' = UpdateAccess(db, req[r].access, req[r].scope, req[r].expires)
    BY <1>2 DEF ReuseAccess, Reusing, Answer
  <2>2. /\ UpdateAccess(db, req[r].access, req[r].scope, req[r].expires).rt = db.rt
        /\ UpdateAccess(db, req[r].access, req[r].scope, req[r].expires).rtSeq = db.rtSeq
        /\ UpdateAccess(db, req[r].access, req[r].scope, req[r].expires).atSeq = db.atSeq
        /\ DOMAIN UpdateAccess(db, req[r].access, req[r].scope, req[r].expires).at = DOMAIN db.at
    BY <1>0 DEF UpdateAccess, IsStore
  <2> QED
    BY <1>0, <1>1, <2>1, <2>2 DEF Ages, StampsKept, IsStore
<1>3. CASE IssueFresh(r)
  <2>1. PICK R : R = RevokeRefresh(db, {req[r].instance}, now)
    OBVIOUS
  <2>2. PICK A : A = CreateAccess(R, req[r].scope, req[r].expires, req[r].instance)
    OBVIOUS
  <2>3. PICK token : db' = CreateRefresh(A, token, A.atSeq)
    BY <1>3, <2>1, <2>2 DEF IssueFresh
  <2>4. Ages(db, R) /\ IsStore(R) /\ R.atSeq = db.atSeq
    <3>1. WellFormed(R) /\ R.atSeq = db.atSeq
      BY <1>0, <2>1, RevokeRefreshFields
    <3> QED
      BY <1>0, <2>1, <3>1, RevokeAges DEF WellFormed
  <2> QED
    BY <1>0, <2>2, <2>3, <2>4, CreateAges
<1>4. CASE AnswerPrevious(r)
  <2>1. db' = RevokeRefresh(db, {req[r].instance}, now)
    BY <1>4 DEF AnswerPrevious
  <2> QED
    BY <1>0, <2>1, RevokeAges
<1> QED
  BY <1>1, <1>2, <1>3, <1>4 DEF Step, Refuse, Validate, GetOriginalScopes, LockInstance,
     ReadPrevious, ReadPair, Respond, Answer

\* So do the requests that issue, revoke and delete.
LEMMA EnvironmentAges ==
    ASSUME IndInv, Environment
    PROVE  Ages(db, db')
<1>0. IsStore(db) /\ WellFormed(db) /\ now \in Nat
  BY DEF IndInv, TypeOK
<1>1. ASSUME NEW scope \in SUBSET Scopes, IssueTokens(scope) PROVE Ages(db, db')
  <2>1. PICK A : A = CreateAccess(db, scope, now + AccessLife, NULL)
    OBVIOUS
  <2>2. PICK token, C : C = CreateRefresh(A, token, A.atSeq) /\ (db' = A \/ db' = C)
    BY <1>1, <2>1 DEF IssueTokens
  <2>3. Ages(db, db)
    BY <1>0, SameAges
  <2> QED
    BY <1>0, <2>1, <2>2, <2>3, CreateAges
<1>2. ASSUME NEW a, RevokeAccessToken(a) PROVE Ages(db, db')
  BY <1>0, <1>2, DeleteAccessAges DEF RevokeAccessToken
<1>3. ASSUME NEW v \in Revocations, RevokeRefreshToken(v) PROVE Ages(db, db')
  <2>1. UNCHANGED db \/ \E rows : db' = RevokeRefresh(db, rows, now)
    BY <1>3 DEF RevokeRefreshToken, LookUpRefresh, RevokeRow, AnswerRevocation
  <2> QED
    BY <1>0, <2>1, RevokeAges, SameAges
<1>4. CASE Tick
  BY <1>0, <1>4, SameAges DEF Tick
<1> QED
  BY <1>1, <1>2, <1>3, <1>4 DEF Environment, AuthorizedTokenDelete

-----------------------------------------------------------------------------
\* The command begins with empty tables and no batch.
LEMMA ClearInitInv == ClearInit => ClearInv
<1> SUFFICES ASSUME ClearInit PROVE ClearInv
  OBVIOUS
<1>1. IndInv
  BY InitInv DEF ClearInit
<1>2. now \in Nat /\ db.rtSeq = 0 /\ 1 .. db.rtSeq = {} /\ TypeOK
  BY <1>1 DEF ClearInit, Init, EmptyStore, IndInv, TypeOK
<1>3. ClearTypeOK
  BY <1>2 DEF ClearInit, ClearTypeOK, NULL
<1> QED
  BY <1>1, <1>3 DEF ClearInit, ClearInv, PickedRevoked, PickedOld

\* A request served while the command runs leaves its batch as good as it was.
LEMMA ServedKeepsPicked ==
    ASSUME ClearInv, Ages(db, db'), UNCHANGED clearVars, ForeignKeys(db')
    PROVE  PickedRevoked' /\ PickedOld'
<1>1. loop' = loop /\ batch' = batch /\ start' = start /\ start \in Nat
  BY DEF clearVars, ClearInv, ClearTypeOK
<1>2. /\ loop = "access" => \A a \in batch : a \in Nat /\ a <= db.atSeq
      /\ loop # "access" => \A t \in batch : t \in Nat /\ t <= db.rtSeq
  <2>1. db.atSeq \in Nat /\ db.rtSeq \in Nat
    BY DEF Ages
  <2>2. batch \subseteq 1 .. (IF loop = "access" THEN db.atSeq ELSE db.rtSeq)
    BY DEF ClearInv, ClearTypeOK
  <2>3. CASE loop = "access"
    BY <2>1, <2>2, <2>3
  <2>4. CASE loop # "access"
    BY <2>1, <2>2, <2>4
  <2> QED
    BY <2>3, <2>4
<1>3. ASSUME loop = "revoked", NEW t \in batch, t \in DOMAIN db'.rt
      PROVE  db'.rt[t].revoked # NULL
  <2>1. t \in DOMAIN db.rt
    BY <1>2, <1>3 DEF Ages
  <2> QED
    BY <1>3, <2>1 DEF ClearInv, PickedRevoked, Ages, StampsKept
<1>4. ASSUME Rotate, loop = "expired", NEW t \in batch, t \in DOMAIN db'.rt, db'.rt[t].access # NULL
      PROVE  ~CurrentAt(db', db'.rt[t].access, start)
  <2>1. t \in DOMAIN db.rt
    BY <1>2, <1>4 DEF Ages
  <2>2. PICK a : a = db'.rt[t].access
    OBVIOUS
  <2>3. db.rt[t].access = a /\ a # NULL
    BY <1>4, <2>1, <2>2 DEF Ages
  <2>4. a \in DOMAIN db.at /\ a \in DOMAIN db'.at
    BY <1>4, <2>1, <2>2, <2>3 DEF ForeignKeys, ClearInv, IndInv, WellFormed
  <2>5. ~CurrentAt(db, a, start)
    BY <1>4, <2>1, <2>3 DEF ClearInv, PickedOld
  <2>6. db'.at[a].expires = db.at[a].expires
    BY <1>4, <2>4 DEF Ages
  <2> QED
    BY <2>2, <2>5, <2>6 DEF CurrentAt
<1>5. ASSUME Rotate, loop = "access", NEW a \in batch, a \in DOMAIN db'.at
      PROVE  ~CurrentAt(db', a, start) /\ BoundTo(db', a) = {}
  <2>1. a \in DOMAIN db.at /\ a \in Nat /\ a <= db.atSeq /\ a # NULL
    BY <1>2, <1>5 DEF Ages, ClearInv, IndInv, TypeOK, IsStore, NULL
  <2>2. ~CurrentAt(db, a, start) /\ BoundTo(db, a) = {}
    BY <1>5, <2>1 DEF ClearInv, PickedOld
  <2>3. db'.at[a].expires = db.at[a].expires
    BY <1>5, <2>1 DEF Ages
  <2>4. ASSUME NEW t \in DOMAIN db'.rt, db'.rt[t].access = a PROVE FALSE
    <3>1. t \in DOMAIN db.rt
      BY <1>5, <2>1, <2>4 DEF Ages
    <3>2. db.rt[t].access = a
      BY <1>5, <2>1, <2>4, <3>1 DEF Ages
    <3> QED
      BY <2>2, <3>1, <3>2 DEF BoundTo
  <2> QED
    BY <2>2, <2>3, <2>4 DEF CurrentAt, BoundTo
<1>6. PickedRevoked'
  BY <1>1, <1>3 DEF PickedRevoked
<1>7. PickedOld'
  BY <1>1, <1>4, <1>5 DEF PickedOld, CurrentAt, BoundTo
<1> QED
  BY <1>6, <1>7

\* Serving a request keeps the invariant: the command's variables have room to wait.
LEMMA ServedInv ==
    ASSUME ClearInv, Served
    PROVE  ClearInv'
<1>1. IndInv' /\ Ages(db, db') /\ now \in Nat /\ now' \in Nat /\ now <= now'
  <2>1. IndInv /\ Next
    BY DEF ClearInv, Served
  <2>2. Ages(db, db')
    BY <2>1, StepAges, EnvironmentAges DEF Next
  <2> QED
    BY <2>1, <2>2, NextInv, ClockAdvances
<1>2. /\ loop' = loop /\ batch' = batch /\ start' = start
      /\ issuedAt' = [t \in 1 .. db'.rtSeq |-> IF t \in DOMAIN issuedAt THEN issuedAt[t] ELSE now]
  BY DEF Served, Beside, clearVars
<1>3. PickedRevoked' /\ PickedOld'
  <2>1. ForeignKeys(db') /\ UNCHANGED clearVars
    BY <1>1 DEF IndInv, WellFormed, Served, Beside
  <2> QED
    BY <1>1, <2>1, ServedKeepsPicked
<1>4. issuedAt' \in [1 .. db'.rtSeq -> 1 .. now']
  <2>1. issuedAt \in [1 .. db.rtSeq -> 1 .. now] /\ now \in 1 .. now'
    BY <1>1 DEF ClearInv, ClearTypeOK, IndInv, TypeOK
  <2>2. \A t \in DOMAIN issuedAt : issuedAt[t] \in 1 .. now'
    BY <1>1, <2>1
  <2> QED
    BY <1>2, <2>1, <2>2
<1>5. batch \subseteq 1 .. (IF loop = "access" THEN db'.atSeq ELSE db'.rtSeq)
  BY <1>1 DEF ClearInv, ClearTypeOK, Ages
<1>6. start \in 0 .. now'
  BY <1>1 DEF ClearInv, ClearTypeOK
<1>7. ClearTypeOK'
  BY <1>1, <1>2, <1>4, <1>5, <1>6 DEF ClearInv, ClearTypeOK, IndInv
<1>8. loop' \notin Loops => batch' = {}
  BY <1>2 DEF ClearInv
<1> QED
  BY <1>1, <1>3, <1>7, <1>8 DEF ClearInv, Loops

\* The ids read in one statement are those of rows the query is about.
LEMMA ReadBatchInv ==
    ASSUME ClearInv, ReadBatch
    PROVE  ClearInv'
<1>1. /\ batch' \subseteq Query(loop) /\ loop \in Loops
      /\ UNCHANGED <<now, db, req, granted, rev, loop, start, issuedAt>>
  BY DEF ReadBatch, kSubset, vars
<1>2. IndInv' /\ IndInv
  BY <1>1 DEF ClearInv, IndInv, TypeOK, LockExclusive, LockedRowExists, PreviousStillAbsent,
              InTransaction
<1>3. start \in Nat /\ IsStore(db) /\ ForeignKeys(db) /\ RefreshExpire \in Nat
  BY ClearAssumption DEF ClearInv, ClearTypeOK, IndInv, WellFormed
<1>4. batch' \subseteq 1 .. (IF loop = "access" THEN db.atSeq ELSE db.rtSeq)
  BY <1>1, <1>3 DEF Query, Loops, RevokedBefore, ExpiredBefore, ExpiredAccess, IsStore
<1>5. ClearTypeOK'
  BY <1>1, <1>2, <1>4 DEF ClearTypeOK, ClearInv, IndInv
<1>6. ASSUME loop = "revoked", NEW t \in batch' PROVE db.rt[t].revoked # NULL
  BY <1>1, <1>6 DEF Query, RevokedBefore
<1>7. ASSUME loop = "expired", NEW t \in batch', db.rt[t].access # NULL
      PROVE  ~CurrentAt(db, db.rt[t].access, start)
  <2>1. t \in DOMAIN db.rt /\ db.at[db.rt[t].access].expires + RefreshExpire < start
    BY <1>1, <1>7 DEF Query, ExpiredBefore
  <2>2. db.at[db.rt[t].access].expires \in Nat
    BY <1>3, <1>7, <2>1 DEF ForeignKeys, IsStore, AccessRow
  <2> QED
    BY <1>3, <2>1, <2>2 DEF CurrentAt
<1>8. ASSUME loop = "access", NEW a \in batch'
      PROVE  ~CurrentAt(db, a, start) /\ BoundTo(db, a) = {}
  <2>1. a \in DOMAIN db.at /\ BoundTo(db, a) = {} /\ db.at[a].expires < start
    BY <1>1, <1>8 DEF Query, ExpiredAccess
  <2>2. db.at[a].expires \in Nat
    BY <1>3, <2>1 DEF IsStore, AccessRow
  <2> QED
    BY <1>3, <2>1, <2>2 DEF CurrentAt
<1>9. PickedRevoked'
  BY <1>1, <1>6 DEF PickedRevoked
<1>10. PickedOld'
  BY <1>1, <1>7, <1>8 DEF PickedOld, CurrentAt, BoundTo
<1> QED
  BY <1>1, <1>2, <1>5, <1>9, <1>10 DEF ClearInv

\* What deleting refresh tokens leaves: SET_NULL takes the source of what they bought.
RefreshDeleted(S, D, T) ==
    /\ D.atSeq = S.atSeq /\ D.rtSeq = S.rtSeq /\ D.strings = S.strings
    /\ D.rt = [t \in DOMAIN S.rt \ T |-> S.rt[t]]
    /\ D.at = [a \in DOMAIN S.at |-> IF S.at[a].source \in T
                                     THEN [S.at[a] EXCEPT !.source = NULL] ELSE S.at[a]]

\* DeleteRefresh leaves just that.
LEMMA DeleteRefreshFields ==
    ASSUME NEW S, IsStore(S), NEW T, NEW D, D = DeleteRefresh(S, T)
    PROVE  RefreshDeleted(S, D, T)
<1>1. D.atSeq = S.atSeq /\ D.rtSeq = S.rtSeq /\ D.strings = S.strings
  BY DEF DeleteRefresh, IsStore
<1>2. D.rt = [t \in DOMAIN S.rt \ T |-> S.rt[t]]
  BY DEF DeleteRefresh, IsStore, Restrict
<1>3. D.at = [a \in DOMAIN S.at |-> IF S.at[a].source \in T
                                   THEN [S.at[a] EXCEPT !.source = NULL] ELSE S.at[a]]
  BY DEF DeleteRefresh, IsStore
<1> QED
  BY <1>1, <1>2, <1>3 DEF RefreshDeleted

\* The deletion waits for the locks of the rows it touches, so no request inside its
\* transaction loses its row.
LEMMA DeleteBatchKeepsEndpoint ==
    ASSUME IndInv, DeleteBatch
    PROVE  IndInv'
<1>0. WellFormed(db) /\ IsStore(db) /\ UNCHANGED <<now, req, granted, rev>>
  BY DEF IndInv, TypeOK, DeleteBatch
<1>1. CASE loop = "access"
  <2>1. db' = DeleteAccess(db, batch)
    BY <1>1 DEF DeleteBatch
  <2>2. WellFormed(db') /\ AccessDeleted(db, db', batch)
    BY <1>0, <2>1, DeleteAccessWellFormed, DeleteAccessFields
  <2>3. /\ db'.rtSeq = db.rtSeq /\ DOMAIN db'.rt = DOMAIN db.rt
        /\ \A t : SourcedBy(db', t) \subseteq SourcedBy(db, t)
    BY <2>2 DEF AccessDeleted, SourcedBy
  <2> QED
    BY <1>0, <2>2, <2>3, TablesStep DEF IndInv, TypeOK, InTransaction
<1>2. CASE loop # "access"
  <2>1. db' = DeleteRefresh(db, batch) /\ \A t \in batch : Unlocked(t)
    BY <1>2 DEF DeleteBatch
  <2>2. WellFormed(db') /\ RefreshDeleted(db, db', batch)
    BY <1>0, <2>1, DeleteRefreshWellFormed, DeleteRefreshFields
  <2>3. ASSUME NEW t, t # NULL PROVE SourcedBy(db', t) \subseteq SourcedBy(db, t)
    <3>1. \A a \in DOMAIN db.at : db.at[a] \in AccessRow
      BY <1>0 DEF IsStore
    <3>2. /\ DOMAIN db'.at = DOMAIN db.at
          /\ \A a \in DOMAIN db.at : db'.at[a].source \in {NULL, db.at[a].source}
      BY <2>2, <3>1 DEF RefreshDeleted, AccessRow
    <3> QED
      BY <2>3, <3>2 DEF SourcedBy
  <2>4. TypeOK'
    BY <1>0, <2>2 DEF IndInv, TypeOK, WellFormed, RefreshDeleted
  <2>5. LockExclusive'
    BY <1>0 DEF IndInv, LockExclusive, InTransaction
  <2>6. LockedRowExists'
    BY <1>0, <2>1, <2>2 DEF IndInv, LockedRowExists, InTransaction, Unlocked, Holds, RefreshDeleted
  <2>7. PreviousStillAbsent'
    <3> SUFFICES ASSUME NEW r \in Requests, req[r].phase = "read", req[r].previous = NULL
                 PROVE  SourcedBy(db', req[r].instance) = {}
      BY <1>0 DEF PreviousStillAbsent, SourcedBy
    <3>1. req[r].instance # NULL /\ SourcedBy(db, req[r].instance) = {}
      BY <1>0 DEF IndInv, LockedRowExists, PreviousStillAbsent, InTransaction, IsStore, NULL
    <3> QED
      BY <2>3, <3>1
  <2> QED
    BY <2>2, <2>4, <2>5, <2>6, <2>7 DEF IndInv
<1> QED
  BY <1>1, <1>2

\* Deleting the batch empties it, so nothing picked is left to be wrong about.
LEMMA DeleteBatchInv ==
    ASSUME ClearInv, DeleteBatch
    PROVE  ClearInv'
<1>1. IndInv' /\ IndInv
  BY DeleteBatchKeepsEndpoint DEF ClearInv
<1>2. /\ batch' = {} /\ UNCHANGED <<now, req, granted, rev, loop, start, issuedAt>>
      /\ db'.rtSeq = db.rtSeq
  <2>1. IsStore(db)
    BY <1>1 DEF IndInv, TypeOK
  <2>2. AccessDeleted(db, db', batch) \/ RefreshDeleted(db, db', batch)
    BY <2>1, DeleteAccessFields, DeleteRefreshFields DEF DeleteBatch
  <2> QED
    BY <2>2 DEF DeleteBatch, AccessDeleted, RefreshDeleted
<1>3. ClearTypeOK'
  BY <1>1, <1>2 DEF ClearTypeOK, ClearInv, IndInv
<1>4. PickedRevoked' /\ PickedOld'
  BY <1>2 DEF PickedRevoked, PickedOld
<1> QED
  BY <1>1, <1>2, <1>3, <1>4 DEF ClearInv

\* Starting, and going on to the next loop, happen between two batches.
LEMMA BetweenBatchesInv ==
    ASSUME ClearInv, Start \/ NextLoop
    PROVE  ClearInv'
<1>1. batch = {} /\ batch' = {} /\ UNCHANGED <<now, db, req, granted, rev, issuedAt>>
  BY DEF Start, NextLoop, ClearInv, Loops, vars
<1>2. IndInv' /\ now \in Nat
  BY <1>1 DEF ClearInv, IndInv, TypeOK, LockExclusive, LockedRowExists, PreviousStillAbsent,
              InTransaction
<1>3. loop' \in Loops \cup {"idle", "done"} /\ start' \in 0 .. now
  <2>1. CASE Start
    BY <1>2, <2>1 DEF Start, Loops
  <2>2. CASE NextLoop
    BY <2>2 DEF NextLoop, Following, Loops, ClearInv, ClearTypeOK
  <2> QED
    BY <2>1, <2>2
<1>4. ClearTypeOK'
  BY <1>1, <1>2, <1>3 DEF ClearTypeOK, ClearInv, IndInv
<1>5. PickedRevoked' /\ PickedOld'
  BY <1>1 DEF PickedRevoked, PickedOld
<1> QED
  BY <1>1, <1>2, <1>4, <1>5 DEF ClearInv

\* Every step preserves the inductive invariant.
LEMMA ClearNextInv == ClearInv /\ [ClearNext]_allVars => ClearInv'
<1> SUFFICES ASSUME ClearInv, [ClearNext]_allVars PROVE ClearInv'
  OBVIOUS
<1>1. CASE ClearNext
  BY <1>1, ServedInv, ReadBatchInv, DeleteBatchInv, BetweenBatchesInv DEF ClearNext, Clear
<1>2. CASE UNCHANGED allVars
  BY <1>2 DEF allVars, vars, clearVars, ClearInv, ClearTypeOK, PickedRevoked, PickedOld, CurrentAt,
              BoundTo, IndInv, TypeOK, LockExclusive, LockedRowExists, PreviousStillAbsent,
              InTransaction, SourcedBy
<1> QED
  BY <1>1, <1>2

\* The inductive invariant of the command beside the endpoint.
THEOREM ClearInvariance == ClearSpec => []ClearInv
BY ClearInitInv, ClearNextInv, PTL DEF ClearSpec

\* The tables, the batch and the histories keep their types whatever is cleared meanwhile.
THEOREM ClearTypeCorrect == ClearSpec => []ClearTypeOK
<1>1. ClearInv => ClearTypeOK
  BY DEF ClearInv
<1> QED
  BY <1>1, ClearInvariance, PTL

\* A refresh token has at most one live successor although the command deletes rows, and
\* nulls the sources of others, under the requests.
THEOREM SuccessorUniqueBesideClear == ClearSpec => []OneSuccessor
<1>1. ClearInv => OneSuccessor
  BY DEF ClearInv, IndInv, WellFormed, OneSuccessor
<1> QED
  BY <1>1, ClearInvariance, PTL

\* With rotation the command deletes an access token only if it has expired and nothing can
\* refresh it any more, at the time it deletes and not only when it picked it.
THEOREM UsableAccessKept == ASSUME Rotate PROVE ClearSpec => KeepsUsableAccess
<1>1. ClearInv /\ [ClearNext]_allVars =>
        [Clear => \A a \in DOMAIN db.at \ DOMAIN db'.at :
                      ~CurrentAt(db, a, start) /\ BoundTo(db, a) = {}]_allVars
  <2> SUFFICES ASSUME ClearInv, Clear, NEW a \in DOMAIN db.at \ DOMAIN db'.at
               PROVE  ~CurrentAt(db, a, start) /\ BoundTo(db, a) = {}
    OBVIOUS
  <2>1. IsStore(db)
    BY DEF ClearInv, IndInv, TypeOK
  <2>2. DeleteBatch
    BY DEF Clear, ReadBatch, NextLoop, vars
  <2>3. loop = "access" /\ db' = DeleteAccess(db, batch)
    <3>1. ~RefreshDeleted(db, db', batch)
      BY DEF RefreshDeleted
    <3> QED
      BY <2>1, <2>2, <3>1, DeleteRefreshFields DEF DeleteBatch
  <2>4. a \in batch
    <3>1. AccessDeleted(db, db', batch)
      BY <2>1, <2>3, DeleteAccessFields
    <3> QED
      BY <3>1 DEF AccessDeleted
  <2> QED
    BY <2>3, <2>4 DEF ClearInv, PickedOld
<1> QED
  BY <1>1, ClearInvariance, PTL DEF ClearSpec, KeepsUsableAccess

\* With rotation no refresh token of a current access token is ever deleted, by the command
\* or by anybody.
THEOREM CurrentRefreshKept == ASSUME Rotate PROVE ClearSpec => KeepsRefreshOfCurrent
<1>1. ClearInv /\ [ClearNext]_allVars =>
        [\A t \in DOMAIN db.rt \ DOMAIN db'.rt :
            db.rt[t].access # NULL => ~CurrentAt(db, db.rt[t].access, start)]_allVars
  <2> SUFFICES ASSUME ClearInv, ClearNext, NEW t \in DOMAIN db.rt \ DOMAIN db'.rt, db.rt[t].access # NULL
               PROVE  ~CurrentAt(db, db.rt[t].access, start)
    OBVIOUS
  <2>1. IsStore(db) /\ IndInv
    BY DEF ClearInv, IndInv, TypeOK
  <2>2. ~Served
    BY <2>1, StepAges, EnvironmentAges DEF Served, Next, Ages
  <2>3. DeleteBatch
    BY <2>2 DEF ClearNext, Start, Clear, ReadBatch, NextLoop, vars
  <2>4. CASE loop = "access"
    <3>1. AccessDeleted(db, db', batch)
      BY <2>1, <2>3, <2>4, DeleteAccessFields DEF DeleteBatch
    <3> QED
      BY <3>1 DEF AccessDeleted
  <2>5. CASE loop # "access"
    <3>1. t \in batch
      <4>1. RefreshDeleted(db, db', batch)
        BY <2>1, <2>3, <2>5, DeleteRefreshFields DEF DeleteBatch
      <4> QED
        BY <4>1 DEF RefreshDeleted
    <3>2. loop # "revoked"
      BY <3>1 DEF ClearInv, PickedRevoked, IndInv, WellFormed, RevokedUnbound
    <3>3. loop = "expired"
      BY <2>3, <2>5, <3>2 DEF DeleteBatch, Loops
    <3> QED
      BY <3>1, <3>3 DEF ClearInv, PickedOld
  <2> QED
    BY <2>4, <2>5
<1> QED
  BY <1>1, ClearInvariance, PTL DEF ClearSpec, KeepsRefreshOfCurrent

-----------------------------------------------------------------------------
(***************************************************************************)
(* Chains of refreshes beside the command: its deletions take rows away    *)
(* under requests that have read them.                                     *)
(***************************************************************************)
\* Apart from the deletions, the command and the requests leave the endpoint's variables
\* to Next.
LEMMA DeletesOrServes == [ClearNext]_allVars => DeleteBatch \/ [Next]_vars
BY DEF ClearNext, Served, Start, Clear, ReadBatch, NextLoop, allVars

\* What a deletion leaves, whichever loop it belongs to.
LEMMA BatchDeleted ==
    ASSUME IndInv, UniqueBinding(db), DeleteBatch
    PROVE  /\ IndInv' /\ WellFormed(db) /\ WellFormed(db') /\ UNCHANGED <<now, req, granted, rev>>
           /\ \/ loop = "access" /\ Shrinks(db, db') /\ db' = DeleteAccess(db, batch)
              \/ loop # "access" /\ RefreshDeleted(db, db', batch)
<1>1. WellFormed(db) /\ IsStore(db) /\ IndInv' /\ WellFormed(db')
  BY DeleteBatchKeepsEndpoint DEF IndInv, TypeOK
<1> QED
  BY <1>1, DeleteAccessShrinks, DeleteRefreshFields DEF DeleteBatch

\* The rows a deletion of refresh tokens leaves, column by column.
LEMMA RefreshDeletedRows ==
    ASSUME NEW S, WellFormed(S), NEW D, NEW T, RefreshDeleted(S, D, T)
    PROVE  /\ DOMAIN D.rt = DOMAIN S.rt \ T /\ \A t \in DOMAIN D.rt : D.rt[t] = S.rt[t]
           /\ DOMAIN D.at = DOMAIN S.at
           /\ \A a \in DOMAIN S.at :
                 /\ D.at[a].token = S.at[a].token /\ D.at[a].scope = S.at[a].scope
                 /\ S.at[a].source \in T => D.at[a].source = NULL
                 /\ S.at[a].source \notin T => D.at[a].source = S.at[a].source
<1>1. \A a \in DOMAIN S.at : S.at[a] \in AccessRow
  BY DEF WellFormed, IsStore
<1> QED
  BY <1>1 DEF RefreshDeleted, AccessRow

\* Chains that lose refresh tokens stay chains.
LEMMA RefreshDeletedChained ==
    ASSUME NEW S, WellFormed(S), NEW D, NEW T, RefreshDeleted(S, D, T), NEW G, Chained(S, G)
    PROVE  Chained(D, G) /\ Follows(S, D)
<1>0. /\ S.atSeq \in Nat /\ S.rtSeq \in Nat /\ S.strings \in Nat
      /\ D.atSeq = S.atSeq /\ D.rtSeq = S.rtSeq /\ D.strings = S.strings
      /\ \A a \in DOMAIN S.at : S.at[a].source \in DOMAIN S.rt \cup {NULL}
  BY DEF RefreshDeleted, WellFormed, IsStore, ForeignKeys
<1>1. /\ DOMAIN D.rt = DOMAIN S.rt \ T /\ \A t \in DOMAIN D.rt : D.rt[t] = S.rt[t]
      /\ DOMAIN D.at = DOMAIN S.at
      /\ \A a \in DOMAIN S.at :
            /\ D.at[a].token = S.at[a].token /\ D.at[a].scope = S.at[a].scope
            /\ S.at[a].source \in T => D.at[a].source = NULL
            /\ S.at[a].source \notin T => D.at[a].source = S.at[a].source
  BY RefreshDeletedRows
<1>2. UniqueBinding(D) /\ DistinctStrings(D)
  BY <1>0, <1>1 DEF Chained, UniqueBinding, DistinctStrings
<1>3. SourceSpent(D)
  BY <1>0, <1>1 DEF Chained, SourceSpent
<1>4. WithinGrants(D, G)
  <2>1. \A a \in DOMAIN D.at : BoundTo(D, a) \subseteq BoundTo(S, a)
    BY <1>1 DEF BoundTo
  <2> QED
    BY <1>1, <2>1 DEF Chained, WithinGrants
<1>5. Follows(S, D)
  <2>1. ASSUME NEW a \in DOMAIN D.at
        PROVE  \/ D.at[a].source = S.at[a].source
               \/ D.at[a].source = NULL /\ S.at[a].source \notin DOMAIN D.rt
    BY <1>1
  <2>2. ASSUME NEW a \in DOMAIN D.at PROVE a \in DOMAIN S.at /\ D.at[a].token = S.at[a].token
    BY <1>1
  <2>3. ASSUME NEW t \in DOMAIN D.rt PROVE t \in DOMAIN S.rt /\ D.rt[t] = S.rt[t]
    BY <1>1
  <2>4. S.atSeq <= D.atSeq /\ S.rtSeq <= D.rtSeq /\ S.strings <= D.strings
    BY <1>0
  <2> QED
    BY <1>0, <2>1, <2>2, <2>3, <2>4 DEF Follows
<1> QED
  BY <1>2, <1>3, <1>4, <1>5 DEF Chained

\* A deletion takes rows from under requests, and what they have read stays true.
LEMMA DeleteBatchChain ==
    ASSUME IndInv, ChainInv, DeleteBatch
    PROVE  ChainInv'
<1>1. /\ WellFormed(db) /\ WellFormed(db') /\ Chained(db, granted)
      /\ UNCHANGED <<now, req, granted, rev>>
      /\ Shrinks(db, db') \/ RefreshDeleted(db, db', batch)
  BY BatchDeleted DEF ChainInv, Chained
<1>2. CASE Shrinks(db, db')
  BY <1>1, <1>2, RevocationsChain
<1>3. CASE RefreshDeleted(db, db', batch)
  <2>1. Chained(db', granted') /\ Follows(db, db')
    BY <1>1, <1>3, RefreshDeletedChained
  <2>2. GrantsKept(granted, granted') /\ \A q \in Requests : req'[q] = req[q]
    BY <1>1 DEF GrantsKept
  <2> QED
    BY <1>1, <2>1, <2>2, CommitStep
<1> QED
  BY <1>1, <1>2, <1>3

\* It changes no string and no timestamp.
LEMMA DeleteBatchMoves ==
    ASSUME IndInv, ChainInv, DeleteBatch
    PROVE  Moves(db, db', now, {}) /\ UNCHANGED <<now, req, granted, rev>>
<1>1. /\ WellFormed(db) /\ Chained(db, granted) /\ UNCHANGED <<now, req, granted, rev>>
      /\ db' = DeleteAccess(db, batch) \/ RefreshDeleted(db, db', batch)
  BY BatchDeleted DEF ChainInv, Chained
<1>2. CASE db' = DeleteAccess(db, batch)
  BY <1>1, <1>2, DeleteMoves
<1>3. CASE RefreshDeleted(db, db', batch)
  <2>1. Follows(db, db') /\ db'.rtSeq = db.rtSeq
    BY <1>1, <1>3, RefreshDeletedChained DEF RefreshDeleted
  <2>2. \A t \in DOMAIN db'.rt : t \in DOMAIN db.rt /\ db'.rt[t] = db.rt[t]
    BY <1>1, <1>3, RefreshDeletedRows
  <2> QED
    BY <1>1, <2>1, <2>2 DEF Moves
<1> QED
  BY <1>1, <1>2, <1>3

\* So strings stay keys, requests keep what they know of their pairs, and revocations stay
\* settled.
LEMMA DeleteBatchSettled ==
    ASSUME IndInv, ChainInv, RotationInv, PairInv, CancelInv, DeleteBatch
    PROVE  RotationInv' /\ PairInv' /\ CancelInv'
<1>1. Moves(db, db', now, {}) /\ UNCHANGED <<now, req, granted, rev>> /\ now \in Nat
  BY DeleteBatchMoves DEF IndInv, TypeOK
<1>2. \A q \in Requests : GoesOn(q)
  BY <1>1 DEF GoesOn
<1>3. RotationInv'
  BY <1>1, MovesRotation
<1>4. PairInv'
  BY <1>1, OtherPairs
<1>5. CancelInv'
  BY <1>1, <1>2, CancelCommit
<1> QED
  BY <1>3, <1>4, <1>5

\* Together with ClearInv, what makes the endpoint correct beside the command.
BesideInv == ChainInv /\ RotationInv /\ PairInv /\ CancelInv

\* Every step of the command and of the requests beside it preserves that.
LEMMA ClearNextBeside == ClearInv /\ BesideInv /\ [ClearNext]_allVars => BesideInv'
<1> SUFFICES ASSUME ClearInv, BesideInv, [ClearNext]_allVars PROVE BesideInv'
  OBVIOUS
<1>1. IndInv /\ ChainInv /\ RotationInv /\ PairInv /\ CancelInv
  BY DEF ClearInv, BesideInv
<1>2. CASE DeleteBatch
  BY <1>1, <1>2, DeleteBatchChain, DeleteBatchSettled DEF BesideInv
<1>3. CASE [Next]_vars
  BY <1>1, <1>3, NextChain, NextRotation, NextPairs, NextCancel DEF BesideInv
<1> QED
  BY <1>2, <1>3, DeletesOrServes

\* What requests know of their chains and of their pairs, what rotation promises about
\* strings and what revocations have settled hold beside the command, whatever it deletes.
THEOREM BesideInvariance == ClearSpec => []BesideInv
<1>1. ClearInit => BesideInv
  BY InitChain, InitRotation, InitPairs, InitCancel DEF ClearInit, BesideInv
<1> QED
  BY <1>1, ClearNextBeside, ClearInvariance, PTL DEF ClearSpec

\* No scope outgrows the grant of its chain although the rows that hand the grant on are
\* deleted along the way.
THEOREM GrantNeverOutgrownBesideClear == ClearSpec => []ScopeWithinGrant
<1>1. ClearInv /\ BesideInv => ScopeWithinGrant
  BY ScopesWithin DEF ClearInv, BesideInv
<1> QED
  BY <1>1, ClearInvariance, BesideInvariance, PTL

\* Two answers for one refresh token never leave two live access tokens, although the
\* command deletes the refresh token, or nulls the source of what it bought, between them.
THEOREM AnswersAgreeBesideClear == ClearSpec => []LiveAnswersAgree
<1>1. BesideInv => LiveAnswersAgree
  BY ClaimsAnswered DEF BesideInv
<1> QED
  BY <1>1, BesideInvariance, PTL

\* A string names one row, and a key deleted is never given again.
THEOREM StringNamesOneRowBesideClear == ASSUME Rotate PROVE ClearSpec => []OneRowPerString
<1>1. BesideInv => OneRowPerString
  BY DEF BesideInv, RotationInv, OneRowPerString
<1> QED
  BY <1>1, BesideInvariance, PTL

\* Once the endpoint has answered for a revoked string and the grace period is over the
\* string buys nothing, whatever rows the command has swept away: with rotation always,
\* without it unless a refresh with the string overlapped the revocation.
THEOREM RevocationEndsExchangeBesideClear == ClearSpec => []RevokedBuysNothing
<1>1. BesideInv => RevokedBuysNothing
  BY DEF BesideInv, CancelInv, RevokedBuysNothing
<1> QED
  BY <1>1, BesideInvariance, PTL

\* The command may take the refresh token of an answered pair whose access token has expired;
\* nothing else can be refreshed to the access token the client holds.
AnsweredPairMatches ==
    \A r \in Requests : req[r].phase \in Committed =>
        \A a \in DOMAIN db.at : db.at[a].token = req[r].gotAccess =>
            \A t \in BoundTo(db, a) : db.rt[t].token = req[r].gotRefresh /\ db.rt[t].revoked = NULL

\* The pair of a response never comes apart although the command deletes between the two
\* reads of it, before and after the commit: what is bound to the access token answered is
\* the refresh token answered, unrevoked, or nothing once the command took it.
THEOREM AnsweredPairMatchesBesideClear == ClearSpec => []AnsweredPairMatches
<1>1. ClearInv /\ BesideInv => AnsweredPairMatches
  <2> SUFFICES ASSUME ClearInv, BesideInv, NEW r \in Requests, req[r].phase \in Committed,
                      NEW a \in DOMAIN db.at, db.at[a].token = req[r].gotAccess,
                      NEW t \in BoundTo(db, a)
               PROVE  db.rt[t].token = req[r].gotRefresh /\ db.rt[t].revoked = NULL
    BY DEF AnsweredPairMatches
  <2>1. db.rt[t].token = req[r].gotRefresh
    BY DEF BesideInv, PairInv, KnowsPair
  <2>2. db.rt[t].revoked = NULL
    BY DEF BoundTo, ClearInv, IndInv, WellFormed, IsStore, RevokedUnbound, NULL
  <2> QED
    BY <2>1, <2>2
<1> QED
  BY <1>1, ClearInvariance, BesideInvariance, PTL

\* A row once revoked keeps its timestamp while it is there.
THEOREM RevocationFinalBesideClear == ClearSpec => RevocationIsFinal
<1>1. ClearInv /\ BesideInv /\ [ClearNext]_allVars =>
        [\A t \in DOMAIN db.rt \cap DOMAIN db.rt' :
            db.rt[t].revoked # NULL => db'.rt[t].revoked = db.rt[t].revoked]_vars
  <2> SUFFICES ASSUME ClearInv, BesideInv, [ClearNext]_allVars,
                      NEW t \in DOMAIN db.rt \cap DOMAIN db.rt', db.rt[t].revoked # NULL
               PROVE  db'.rt[t].revoked = db.rt[t].revoked
    OBVIOUS
  <2>1. IndInv /\ UniqueBinding(db)
    BY DEF ClearInv, BesideInv, ChainInv
  <2>2. CASE DeleteBatch
    <3>1. /\ WellFormed(db)
          /\ db' = DeleteAccess(db, batch) \/ RefreshDeleted(db, db', batch)
      BY <2>1, <2>2, BatchDeleted
    <3> QED
      BY <3>1, DeleteAccessKeepsStamps, RefreshDeletedRows DEF WellFormed, StampsKept
  <2>3. CASE [Next]_vars
    BY <2>1, <2>3, NextKeepsStamps DEF StampsKept
  <2> QED
    BY <2>2, <2>3, DeletesOrServes
<1> QED
  BY <1>1, ClearInvariance, BesideInvariance, PTL DEF ClearSpec, RevocationIsFinal

-----------------------------------------------------------------------------
(***************************************************************************)
(* The refinement beside the command.                                      *)
(***************************************************************************)
\* Deleting refresh tokens forgets them, and with them who bought what stays.
LEMMA RefreshDeletionForgets ==
    ASSUME WellFormed(db), NEW B, RefreshDeleted(db, db', B), UNCHANGED granted
    PROVE  Promise!Forget
<1> DEFINE T == B \cap DOMAIN db.rt
<1>1. /\ DOMAIN db'.rt = DOMAIN db.rt \ B /\ \A t \in DOMAIN db'.rt : db'.rt[t] = db.rt[t]
      /\ DOMAIN db'.at = DOMAIN db.at
      /\ \A a \in DOMAIN db.at :
            /\ db'.at[a].scope = db.at[a].scope
            /\ db.at[a].source \in B => db'.at[a].source = NULL
            /\ db.at[a].source \notin B => db'.at[a].source = db.at[a].source
  BY RefreshDeletedRows
<1>2. T \in SUBSET DOMAIN MappedRefresh(db)
  BY MappedDomains
<1>3. MappedRefresh(db') = Promise!Restrict(MappedRefresh(db), DOMAIN MappedRefresh(db) \ T)
  <2>1. DOMAIN db'.rt = DOMAIN db.rt \ T
    BY <1>1
  <2> QED
    BY <1>1, <2>1, MappedDomains DEF MappedRefresh, Promise!Restrict
<1>4. MappedAccess(db') =
        [a \in DOMAIN MappedAccess(db) |->
            IF MappedAccess(db)[a].source \in T
            THEN [MappedAccess(db)[a] EXCEPT !.source = Promise!NoKey] ELSE MappedAccess(db)[a]]
  <2>1. ASSUME NEW a \in DOMAIN db.at
        PROVE  [source |-> db'.at[a].source, scope |-> db'.at[a].scope] =
                 IF MappedAccess(db)[a].source \in T
                 THEN [MappedAccess(db)[a] EXCEPT !.source = Promise!NoKey] ELSE MappedAccess(db)[a]
    <3>1. MappedAccess(db)[a] = [source |-> db.at[a].source, scope |-> db.at[a].scope]
      BY DEF MappedAccess
    <3>2. CASE db.at[a].source \in T
      <4>1. db'.at[a].source = NULL /\ db'.at[a].scope = db.at[a].scope
        BY <1>1, <3>2
      <4> QED
        BY <3>1, <3>2, <4>1 DEF Promise!NoKey, NULL
    <3>3. CASE db.at[a].source \notin T
      <4>1. db.at[a].source \in B => db.at[a].source = NULL
        BY <3>3 DEF WellFormed, ForeignKeys
      <4>2. db'.at[a].source = db.at[a].source /\ db'.at[a].scope = db.at[a].scope
        BY <1>1, <4>1
      <4> QED
        BY <3>1, <3>3, <4>2
    <3> QED
      BY <3>2, <3>3
  <2>2. DOMAIN db'.at = DOMAIN db.at /\ DOMAIN MappedAccess(db) = DOMAIN db.at
    BY <1>1, MappedDomains
  <2> HIDE DEF T
  <2> QED
    BY <2>1, <2>2 DEF MappedAccess
<1> HIDE DEF T
<1> QED
  BY <1>2, <1>3, <1>4 DEF Promise!Forget

\* The two deletions of the command are steps of the promise as it is while expired tokens
\* are swept away; with rotation they take no access token that could still be refreshed.
LEMMA DeleteBatchPromised ==
    ASSUME ClearInv, ChainInv, DeleteBatch
    PROVE  /\ Promise!Forget \/ Promise!SweepAny
           /\ Rotate => Promise!Forget \/ Promise!SweepUnbound
<1>1. /\ WellFormed(db) /\ UNCHANGED granted
      /\ \/ loop = "access" /\ db' = DeleteAccess(db, batch)
         \/ loop # "access" /\ RefreshDeleted(db, db', batch)
  BY BatchDeleted DEF ClearInv, ChainInv
<1>2. CASE RefreshDeleted(db, db', batch)
  BY <1>1, <1>2, RefreshDeletionForgets
<1>3. CASE loop = "access" /\ db' = DeleteAccess(db, batch)
  <2>1. PICK K : K = batch \cap DOMAIN db.at
    OBVIOUS
  <2>2. Promise!Sweep(K)
    BY <1>1, <1>3, <2>1, DeletesSweep
  <2>3. K \in SUBSET DOMAIN MappedAccess(db)
    BY <2>1, MappedDomains
  <2>4. ASSUME Rotate, NEW a \in K PROVE Promise!Unbound(a)
    <3>1. BoundTo(db, a) = {}
      BY <1>3, <2>1, <2>4 DEF ClearInv, PickedOld
    <3> QED
      BY <3>1 DEF Promise!Unbound, MappedRefresh, BoundTo
  <2>5. Promise!SweepAny
    BY <2>2, <2>3 DEF Promise!SweepAny
  <2>6. Rotate => Promise!SweepUnbound
    BY <2>2, <2>3, <2>4 DEF Promise!SweepUnbound
  <2> QED
    BY <2>5, <2>6
<1> QED
  BY <1>1, <1>2, <1>3

\* Every step, of a request or of the command, is an action of the swept promise or
\* changes nothing it speaks of.
LEMMA ClearNextPromised ==
    ASSUME ClearInv, BesideInv, [ClearNext]_allVars
    PROVE  /\ [Promise!Next \/ Promise!Forget \/ Promise!SweepAny \/ Promise!ReissueLeft]_(Promise!vars)
           /\ Rotate => [Promise!Next \/ Promise!Forget \/ Promise!SweepUnbound]_(Promise!vars)
<1>1. IndInv /\ ChainInv
  BY DEF ClearInv, BesideInv
<1>2. CASE DeleteBatch
  BY <1>1, <1>2, DeleteBatchPromised
<1>3. CASE [Next]_vars
  <2>1. [Promise!Next]_(Promise!vars) \/ (~Rotate /\ ~AllRows /\ Promise!ReissueLeft)
    BY <1>1, <1>3, NextPromised
  <2> QED
    BY <2>1
<1> QED
  BY <1>2, <1>3, DeletesOrServes

\* With rotation the grant beside cleartokens implements its promise: exchanges are single
\* steps within the grant, and the command takes refresh tokens for good and access tokens
\* nothing can refresh.
THEOREM PromiseKeptBesideClear == ASSUME Rotate PROVE ClearSpec => KeepsPromiseSwept
<1>1. ClearInit => Promise!Init
  BY DEF ClearInit, Init, EmptyStore, Promise!Init, Promise!NoKey, MappedAccess, MappedRefresh, NULL
<1>2. ClearInv /\ BesideInv /\ [ClearNext]_allVars =>
        [Promise!Next \/ Promise!Forget \/ Promise!SweepUnbound]_(Promise!vars)
  BY ClearNextPromised
<1> QED
  BY <1>1, <1>2, ClearInvariance, BesideInvariance, PTL
  DEF ClearSpec, KeepsPromiseSwept, Promise!SweptSpec

\* Whatever the settings: without rotation the command may take an access token between
\* its refresh and its use, and a refresh under way may reissue one whose refresh token it
\* took, still within the grant of its chain.
THEOREM LatePromiseKeptBesideClear == ClearSpec => KeepsPromiseLate
<1>1. ClearInit => Promise!Init
  BY DEF ClearInit, Init, EmptyStore, Promise!Init, Promise!NoKey, MappedAccess, MappedRefresh, NULL
<1>2. ClearInv /\ BesideInv /\ [ClearNext]_allVars =>
        [Promise!Next \/ Promise!Forget \/ Promise!SweepAny \/ Promise!ReissueLeft]_(Promise!vars)
  BY ClearNextPromised
<1> QED
  BY <1>1, <1>2, ClearInvariance, BesideInvariance, PTL
  DEF ClearSpec, KeepsPromiseLate, Promise!LateSpec

\* So beside cleartokens too, rotating or not: of what a refresh token was exchanged for one
\* access token lives at most, and none outgrows its grant.
THEOREM ReliableBesideClear == ClearSpec => []Promise!Reliable
BY LatePromiseKeptBesideClear, PromiseRelied, PTL

=============================================================================
