--------------------------- MODULE TokenRefresh_proofs ---------------------------
(***************************************************************************)
(* The refresh grant, for every number of requests, any grace period and   *)
(* both values of ROTATE_REFRESH_TOKEN.  First IndInv, and with it types,  *)
(* OneSuccessor and the revocation of access tokens; then what a chain of  *)
(* refreshes may rely on: scopes stay within the grant, answers for one    *)
(* refresh token agree, and the tables change only as RefreshPromise       *)
(* allows.                                                                 *)
(***************************************************************************)
EXTENDS RefreshRefinement, TokenStore_proofs

\* The initial state: empty tables, no request under way.
LEMMA InitInv == Init => IndInv
<1> SUFFICES ASSUME Init PROVE IndInv
  OBVIOUS
<1>1. WellFormed(db)
  BY EmptyStoreWellFormed DEF Init
<1>2. NewRequest \in Request
  BY DEF NewRequest, Request, NULL
<1>3. TypeOK
  <2>1. now \in 1 .. MaxTime
    BY RefreshAssumption DEF Init
  <2>2. req \in [Requests -> Request]
    BY <1>2 DEF Init
  <2>3. granted \in [1 .. db.rtSeq -> SUBSET Scopes]
    BY DEF Init, EmptyStore
  <2>4. NewRevocation \in Revocation
    BY DEF NewRevocation, Revocation, NULL
  <2>5. rev \in [Revocations -> Revocation]
    BY <2>4 DEF Init
  <2> QED
    BY <1>1, <2>1, <2>2, <2>3, <2>5 DEF TypeOK, WellFormed
<1>4. \A r \in Requests : req[r].phase = "new"
  BY DEF Init, NewRequest
<1> QED
  BY <1>1, <1>3, <1>4 DEF IndInv, LockExclusive, LockedRowExists, PreviousStillAbsent, InTransaction

\* A step of one request that leaves the tables alone preserves the invariant if it
\* keeps the request typed and enters or stays in the transaction only as the code does.
LEMMA RequestOnlyStep ==
    ASSUME IndInv, NEW r \in Requests, NEW row \in Request,
           req' = [req EXCEPT ![r] = row], UNCHANGED <<now, db, granted>>,
           rev' \in [Revocations -> Revocation],
           row.phase \in {"locked", "read", "paired"} =>
               /\ row.instance \in DOMAIN db.rt
               /\ row.instance = req[r].instance
               /\ InTransaction(r) \/ Unlocked(req[r].instance),
           row.phase = "read" /\ row.previous = NULL => SourcedBy(db, row.instance) = {}
    PROVE  IndInv'
<1>1. req' \in [Requests -> Request] /\ req'[r] = row /\ \A q \in Requests \ {r} : req'[q] = req[q]
  BY DEF IndInv, TypeOK
<1>2. TypeOK'
  BY <1>1 DEF IndInv, TypeOK
<1>3. LockExclusive'
  BY <1>1 DEF IndInv, LockExclusive, InTransaction, Unlocked, Holds
<1>4. LockedRowExists'
  BY <1>1 DEF IndInv, LockedRowExists, InTransaction
<1>5. PreviousStillAbsent'
  BY <1>1 DEF IndInv, PreviousStillAbsent, SourcedBy
<1>6. WellFormed(db)'
  BY DEF IndInv
<1> QED
  BY <1>2, <1>3, <1>4, <1>5, <1>6 DEF IndInv

\* What is left of a request when save_bearer_token returns or an error answers it.
LEMMA LeaveFields ==
    ASSUME NEW x \in Request, NEW phase \in {"saved"} \cup Answered
    PROVE  /\ Leave(x, phase) \in Request /\ Leave(x, phase).phase = phase
           /\ Leave(x, phase).instance = x.instance /\ Leave(x, phase).access = x.access
           /\ Leave(x, phase).code = x.code /\ Leave(x, phase).late = x.late
           /\ Leave(x, phase).previous = x.previous
           /\ Leave(x, phase).gotAccess = x.gotAccess /\ Leave(x, phase).gotRefresh = x.gotRefresh
BY DEF Leave, Request, NULL

\* A request leaves its transaction, or never enters one.
LEMMA AnswerStep ==
    ASSUME IndInv, NEW r \in Requests, NEW outcome \in Answered, Answer(r, outcome)
    PROVE  IndInv'
<1> DEFINE row == Leave(req[r], outcome)
<1>1. req[r] \in Request
  BY DEF IndInv, TypeOK
<1>2. row \in Request /\ row.phase = outcome
  BY <1>1, LeaveFields DEF Answered
<1>3. req' = [req EXCEPT ![r] = row] /\ UNCHANGED <<now, db, granted, rev>>
  BY DEF Answer
<1>4. rev' \in [Revocations -> Revocation]
  BY <1>3 DEF IndInv, TypeOK
<1> HIDE DEF row
<1> QED
  BY <1>2, <1>3, <1>4, RequestOnlyStep DEF Answered

\* The history kept of revocations a refresh overlaps.
LEMMA OverlapType ==
    ASSUME IndInv, NEW code, Overlap(code)
    PROVE  rev' \in [Revocations -> Revocation]
<1>1. ASSUME NEW v \in Revocations
      PROVE  rev[v] \in Revocation /\ [rev[v] EXCEPT !.raced = TRUE] \in Revocation
  <2>1. rev[v] \in Revocation
    BY DEF IndInv, TypeOK
  <2> QED
    BY <2>1 DEF Revocation
<1> QED
  BY <1>1 DEF Overlap

\* validate_refresh_token only fills in the request object, from rows it has read.
LEMMA ValidateStep ==
    ASSUME IndInv, NEW r \in Requests, Validate(r)
    PROVE  IndInv'
<1>1. PICK code \in 0 .. db.rtSeq, wanted \in SUBSET Scopes :
        \E t \in First(Candidates(code)) :
          /\ req' = [req EXCEPT ![r] = [@ EXCEPT !.phase = "validated", !.code = code,
                       !.instance = t, !.access = db.rt[t].access, !.wanted = wanted,
                       !.scope = IF db.rt[t].access = NULL THEN {} ELSE db.at[db.rt[t].access].scope,
                       !.late = Dead(code)]]
          /\ Overlap(code)
  BY DEF Validate
<1>0. PICK t \in First(Candidates(code)) :
        req' = [req EXCEPT ![r] = [@ EXCEPT !.phase = "validated", !.code = code,
                  !.instance = t, !.access = db.rt[t].access, !.wanted = wanted,
                  !.scope = IF db.rt[t].access = NULL THEN {} ELSE db.at[db.rt[t].access].scope,
                  !.late = Dead(code)]]
  BY <1>1
<1> DEFINE scope == IF db.rt[t].access = NULL THEN {} ELSE db.at[db.rt[t].access].scope
           row == [req[r] EXCEPT !.phase = "validated", !.code = code,
                    !.instance = t, !.access = db.rt[t].access, !.wanted = wanted,
                    !.scope = scope, !.late = Dead(code)]
<1>2. req[r] \in Request /\ code \in Nat
  BY DEF IndInv, TypeOK, IsStore
<1>3. t \in DOMAIN db.rt /\ t \in Nat /\ db.rt[t].access \in Nat
  BY DEF First, Candidates, IndInv, TypeOK, IsStore, RefreshRow
<1>4. scope \in SUBSET Scopes
  BY <1>3 DEF IndInv, WellFormed, ForeignKeys, IsStore, AccessRow
<1>5. Dead(code) \in BOOLEAN
  BY DEF Dead
<1>6. row \in Request /\ row.phase = "validated"
  BY <1>2, <1>3, <1>4, <1>5 DEF Request, Running
<1>7. req' = [req EXCEPT ![r] = row] /\ UNCHANGED <<now, db, granted>>
  BY <1>0 DEF Validate
<1>8. rev' \in [Revocations -> Revocation]
  BY <1>1, OverlapType
<1> HIDE DEF row
<1> QED
  BY <1>6, <1>7, <1>8, RequestOnlyStep

\* Settling the scopes changes the request object or ends the request.
LEMMA GetOriginalScopesStep ==
    ASSUME IndInv, NEW r \in Requests, GetOriginalScopes(r)
    PROVE  IndInv'
<1> DEFINE scope == IF req[r].wanted = {} THEN OriginalScope(r) ELSE req[r].wanted
           row == [req[r] EXCEPT !.phase = "scoped", !.scope = scope, !.expires = now + AccessLife]
<1>1. req[r] \in Request
  BY DEF IndInv, TypeOK
<1>2. OriginalScope(r) \subseteq Scopes
  BY <1>1 DEF OriginalScope, SourcedBy, Request, IndInv, TypeOK, IsStore, AccessRow
<1>3. now + AccessLife \in Nat
  BY RefreshAssumption DEF IndInv, TypeOK
<1>4. scope \in SUBSET Scopes
  BY <1>1, <1>2 DEF Request
<1> HIDE DEF scope
<1>5. row \in Request /\ row.phase = "scoped"
  BY <1>1, <1>3, <1>4 DEF Request, Running
<1>6. CASE req[r].wanted \subseteq OriginalScope(r)
  <2>1. req' = [req EXCEPT ![r] = row] /\ UNCHANGED <<now, db, granted, rev>>
    BY <1>6 DEF GetOriginalScopes, scope
  <2>2. rev' \in [Revocations -> Revocation]
    BY <2>1 DEF IndInv, TypeOK
  <2> HIDE DEF row
  <2> QED
    BY <1>5, <2>1, <2>2, RequestOnlyStep
<1>7. CASE ~(req[r].wanted \subseteq OriginalScope(r))
  BY <1>7, AnswerStep DEF GetOriginalScopes, Answered
<1> QED
  BY <1>6, <1>7

\* Whoever locks a row is the only one inside a transaction on it, and the row exists.
LEMMA LockInstanceStep ==
    ASSUME IndInv, NEW r \in Requests, LockInstance(r)
    PROVE  IndInv'
<1> DEFINE row == [req[r] EXCEPT !.phase = "locked"]
<1>1. req[r] \in Request
  BY DEF IndInv, TypeOK
<1>2. row \in Request /\ row.phase = "locked" /\ row.instance = req[r].instance
  BY <1>1 DEF Request, Running
<1>3. CASE req[r].instance \in DOMAIN db.rt
  <2>1. req' = [req EXCEPT ![r] = row] /\ UNCHANGED <<now, db, granted, rev>>
    BY <1>3 DEF LockInstance
  <2>2. Unlocked(req[r].instance)
    BY <1>3 DEF LockInstance
  <2>3. rev' \in [Revocations -> Revocation]
    BY <2>1 DEF IndInv, TypeOK
  <2> HIDE DEF row
  <2> QED
    BY <1>2, <1>3, <2>1, <2>2, <2>3, RequestOnlyStep
<1>4. CASE req[r].instance \notin DOMAIN db.rt
  BY <1>4, AnswerStep DEF LockInstance, Answered
<1> QED
  BY <1>3, <1>4

\* Reading the previous access token under the lock: NULL means there is none in the table.
LEMMA ReadPreviousStep ==
    ASSUME IndInv, NEW r \in Requests, ReadPrevious(r)
    PROVE  IndInv'
<1> DEFINE successors == SourcedBy(db, req[r].instance)
<1>1. PICK a \in IF successors = {} THEN {NULL} ELSE First(successors) :
        req' = [req EXCEPT ![r] = [@ EXCEPT !.phase = "read", !.previous = a,
                  !.gotAccess = IF a = NULL THEN NULL ELSE db.at[a].token]]
  BY DEF ReadPrevious
<1> DEFINE got == IF a = NULL THEN NULL ELSE db.at[a].token
           row == [req[r] EXCEPT !.phase = "read", !.previous = a, !.gotAccess = got]
<1>2. req[r] \in Request
  BY DEF IndInv, TypeOK
<1>3. a # NULL => a \in DOMAIN db.at
  BY DEF First, SourcedBy
<1>4. a = NULL => successors = {}
  BY DEF First, SourcedBy, IndInv, TypeOK, IsStore, NULL
<1>5. a \in Nat /\ got \in Nat
  BY <1>3 DEF IndInv, TypeOK, IsStore, AccessRow, NULL
<1> HIDE DEF got, successors
<1>6. row \in Request /\ row.phase = "read" /\ row.instance = req[r].instance /\ row.previous = a
  BY <1>2, <1>5 DEF Request, Running
<1>7. req' = [req EXCEPT ![r] = row] /\ UNCHANGED <<now, db, granted, rev>>
  BY <1>1 DEF ReadPrevious, got
<1>8. InTransaction(r) /\ req[r].instance \in DOMAIN db.rt
  BY DEF ReadPrevious, InTransaction, IndInv, LockedRowExists
<1>9. rev' \in [Revocations -> Revocation]
  BY <1>7 DEF IndInv, TypeOK
<1> HIDE DEF row
<1> QED
  BY <1>4, <1>6, <1>7, <1>8, <1>9, RequestOnlyStep DEF successors

\* Reading the string of the pair's refresh token keeps the lock; finding none answers a 500.
LEMMA ReadPairStep ==
    ASSUME IndInv, NEW r \in Requests, ReadPair(r)
    PROVE  IndInv'
<1>1. PICK R : R = RevokeRefresh(db, {req[r].instance}, now)
  OBVIOUS
<1>2. CASE Answer(r, "server_error")
  BY <1>2, AnswerStep DEF Answered
<1>3. CASE \E u \in First(BoundTo(R, req[r].previous)) :
             /\ req' = [req EXCEPT ![r] = [@ EXCEPT !.phase = "paired", !.gotRefresh = db.rt[u].token]]
             /\ UNCHANGED <<now, db, granted, rev>>
  <2>1. PICK u \in First(BoundTo(R, req[r].previous)) :
             req' = [req EXCEPT ![r] = [@ EXCEPT !.phase = "paired", !.gotRefresh = db.rt[u].token]]
    BY <1>3
  <2>2. UNCHANGED <<now, db, granted, rev>>
    BY <1>3
  <2> DEFINE row == [req[r] EXCEPT !.phase = "paired", !.gotRefresh = db.rt[u].token]
  <2>3. req[r] \in Request /\ rev' \in [Revocations -> Revocation]
    BY <2>2 DEF IndInv, TypeOK
  <2>4. DOMAIN R.rt = DOMAIN db.rt
    BY <1>1, RevokeRefreshFields DEF IndInv, TypeOK
  <2>5. db.rt[u].token \in Nat
    BY <2>4 DEF First, BoundTo, IndInv, TypeOK, IsStore, RefreshRow
  <2>6. row \in Request /\ row.phase = "paired" /\ row.instance = req[r].instance
    BY <2>3, <2>5 DEF Request, Running
  <2>7. InTransaction(r) /\ req[r].instance \in DOMAIN db.rt
    BY DEF ReadPair, InTransaction, IndInv, LockedRowExists
  <2>8. req' = [req EXCEPT ![r] = row]
    BY <2>1
  <2> HIDE DEF row
  <2> QED
    BY <2>2, <2>3, <2>6, <2>7, <2>8, RequestOnlyStep
<1> QED
  BY <1>1, <1>2, <1>3 DEF ReadPair

\* Looking the new access token up again ends the request, one way or the other.
LEMMA RespondStep ==
    ASSUME IndInv, NEW r \in Requests, Respond(r)
    PROVE  IndInv'
BY AnswerStep DEF Respond, Answered

\* A step of the tables that keeps them well formed, deletes no locked refresh token
\* and gives no refresh token being exchanged a successor preserves the invariant.
LEMMA TablesStep ==
    ASSUME IndInv, WellFormed(db'), UNCHANGED now,
           req' \in [Requests -> Request],
           granted' \in [1 .. db'.rtSeq -> SUBSET Scopes],
           rev' \in [Revocations -> Revocation],
           \A q \in Requests : InTransaction(q)' =>
               /\ InTransaction(q) /\ req'[q].instance = req[q].instance
               /\ req'[q].phase = req[q].phase /\ req'[q].previous = req[q].previous
               /\ SourcedBy(db', req[q].instance) \subseteq SourcedBy(db, req[q].instance),
           DOMAIN db.rt \subseteq DOMAIN db'.rt
    PROVE  IndInv'
<1>1. TypeOK'
  BY DEF IndInv, TypeOK, WellFormed
<1>2. LockExclusive'
  BY DEF IndInv, LockExclusive
<1>3. LockedRowExists'
  BY DEF IndInv, LockedRowExists
<1>4. PreviousStillAbsent'
  BY DEF IndInv, PreviousStillAbsent, InTransaction
<1> QED
  BY <1>1, <1>2, <1>3, <1>4 DEF IndInv

\* Answering keeps the request objects typed and takes the one request out of its transaction.
LEMMA SucceedType ==
    ASSUME IndInv, NEW r \in Requests, NEW access \in Nat, NEW refresh \in Nat,
           Succeed(r, access, refresh)
    PROVE  /\ req' \in [Requests -> Request] /\ ~InTransaction(r)'
           /\ \A q \in Requests \ {r} : req'[q] = req[q]
<1> DEFINE row == [Leave(req[r], "saved") EXCEPT !.gotAccess = access, !.gotRefresh = refresh]
<1>1. Leave(req[r], "saved") \in Request /\ Leave(req[r], "saved").phase = "saved"
  BY LeaveFields DEF IndInv, TypeOK
<1>2. row \in Request /\ row.phase = "saved"
  BY <1>1 DEF Request
<1>3. req' = [req EXCEPT ![r] = row]
  BY DEF Succeed
<1> HIDE DEF row
<1> QED
  BY <1>2, <1>3 DEF IndInv, TypeOK, InTransaction

\* Without rotation the access token is reissued under its key, so no key moves.
LEMMA ReuseAccessStep ==
    ASSUME IndInv, NEW r \in Requests, ReuseAccess(r)
    PROVE  IndInv'
<1> DEFINE a == req[r].access
<1>1. CASE a \in DOMAIN db.at
  <2>1. /\ db' = UpdateAccess(db, a, req[r].scope, req[r].expires)
        /\ Succeed(r, db.strings + 1, req[r].code)
        /\ UNCHANGED <<now, granted, rev>>
    BY <1>1 DEF ReuseAccess
  <2>2. /\ req[r].scope \in SUBSET Scopes /\ req[r].expires \in Nat /\ req[r].code \in Nat
        /\ db.strings + 1 \in Nat
    BY DEF IndInv, TypeOK, Request, IsStore
  <2>3. /\ WellFormed(db') /\ db'.rt = db.rt /\ db'.rtSeq = db.rtSeq /\ DOMAIN db'.at = DOMAIN db.at
        /\ \A b \in DOMAIN db.at : db'.at[b].source = db.at[b].source
    <3>1. WellFormed(db)
      BY DEF IndInv
    <3>2. WellFormed(db') /\ AccessUpdated(db, db', a, req[r].scope)
      BY <1>1, <2>1, <2>2, <3>1, UpdateAccessWellFormed
    <3> QED
      BY <3>2 DEF AccessUpdated
  <2>4. \A t : SourcedBy(db', t) = SourcedBy(db, t)
    BY <2>3 DEF SourcedBy
  <2>5. /\ req' \in [Requests -> Request] /\ ~InTransaction(r)'
        /\ \A q \in Requests \ {r} : req'[q] = req[q]
    BY <2>1, <2>2, SucceedType
  <2>6. granted' \in [1 .. db'.rtSeq -> SUBSET Scopes] /\ rev' \in [Revocations -> Revocation]
    BY <2>1, <2>3 DEF IndInv, TypeOK
  <2> QED
    BY <2>1, <2>3, <2>4, <2>5, <2>6, TablesStep DEF InTransaction
<1>2. CASE a \notin DOMAIN db.at
  BY <1>2, AnswerStep DEF ReuseAccess, Answered
<1> QED
  BY <1>1, <1>2

\* The creating step: nobody else can have created a successor since ReadPrevious.
LEMMA IssueFreshStep ==
    ASSUME IndInv, NEW r \in Requests, IssueFresh(r)
    PROVE  IndInv'
<1>1. PICK t : t = req[r].instance
  OBVIOUS
<1>2. PICK R : R = RevokeRefresh(db, {t}, now)
  OBVIOUS
<1>3. PICK A : A = CreateAccess(R, req[r].scope, req[r].expires, t)
  OBVIOUS
<1>4. PICK refresh : refresh = IF Rotate THEN A.rtSeq + 1 ELSE req[r].code
  OBVIOUS
<1>5. /\ db' = CreateRefresh(A, refresh, A.atSeq)
      /\ Succeed(r, A.strings, refresh)
      /\ granted' = Insert(granted, A.rtSeq + 1, granted[t])
      /\ UNCHANGED <<now, rev>>
      /\ req[r].phase = "read" /\ req[r].previous = NULL
  BY <1>1, <1>2, <1>3, <1>4 DEF IssueFresh
<1>6. t \in DOMAIN db.rt /\ SourcedBy(db, t) = {} /\ InTransaction(r)
  BY <1>1, <1>5 DEF IndInv, LockedRowExists, PreviousStillAbsent, InTransaction
<1>7. /\ WellFormed(R) /\ DOMAIN R.at \subseteq DOMAIN db.at /\ DOMAIN R.rt = DOMAIN db.rt
      /\ R.rtSeq = db.rtSeq /\ \A a \in DOMAIN R.at : R.at[a] = db.at[a]
  BY <1>2, RevokeRefreshFields DEF IndInv, TypeOK
<1>8. /\ req[r].scope \in SUBSET Scopes /\ req[r].expires \in Nat /\ req[r].code \in Nat
      /\ t \in 1 .. db.rtSeq /\ t \in Nat
  BY <1>1, <1>6 DEF IndInv, TypeOK, Request, IsStore
<1>9. \A a \in DOMAIN R.at : R.at[a].source # t
  BY <1>6, <1>7 DEF SourcedBy
<1>10. /\ WellFormed(A) /\ A.rt = R.rt /\ A.rtSeq = R.rtSeq /\ A.atSeq = R.atSeq + 1
       /\ DOMAIN A.at = DOMAIN R.at \cup {A.atSeq}
       /\ A.at[A.atSeq].source = t /\ \A a \in DOMAIN R.at : A.at[a] = R.at[a]
  <2>1. t \in DOMAIN R.rt \cup {NULL}
    BY <1>6, <1>7
  <2>2. WellFormed(A) /\ AccessCreated(R, A, t)
    BY <1>3, <1>7, <1>8, <1>9, <2>1, CreateAccessWellFormed
  <2> QED
    BY <2>2 DEF AccessCreated
<1>11. A.atSeq \in Nat /\ A.strings \in Nat /\ refresh \in Nat
  BY <1>4, <1>8, <1>10 DEF WellFormed, IsStore
<1>12. /\ WellFormed(db') /\ db'.at = A.at /\ db'.rtSeq = db.rtSeq + 1
       /\ DOMAIN db'.rt = DOMAIN db.rt \cup {db'.rtSeq}
  <2>1. A.atSeq \in DOMAIN A.at
    BY <1>10
  <2>2. WellFormed(db') /\ RefreshCreated(A, db', refresh, A.atSeq)
    BY <1>5, <1>10, <1>11, <2>1, CreateRefreshWellFormed
  <2> QED
    BY <1>7, <1>10, <2>2 DEF RefreshCreated
<1>13. /\ req' \in [Requests -> Request] /\ ~InTransaction(r)'
       /\ \A q \in Requests \ {r} : req'[q] = req[q]
  BY <1>5, <1>11, SucceedType
<1>14. db.rtSeq \in Nat /\ 1 .. (db.rtSeq + 1) = 1 .. db.rtSeq \cup {db.rtSeq + 1}
  BY DEF IndInv, TypeOK, IsStore
<1>15. granted' \in [1 .. db'.rtSeq -> SUBSET Scopes]
  BY <1>5, <1>7, <1>8, <1>10, <1>12, <1>14 DEF Insert, IndInv, TypeOK
<1>16. rev' \in [Revocations -> Revocation]
  BY <1>5 DEF IndInv, TypeOK
<1>17. ASSUME NEW q \in Requests, InTransaction(q)'
       PROVE  /\ InTransaction(q) /\ req'[q] = req[q]
              /\ SourcedBy(db', req[q].instance) \subseteq SourcedBy(db, req[q].instance)
  <2>1. q # r /\ req'[q] = req[q] /\ InTransaction(q)
    BY <1>13, <1>17 DEF InTransaction
  <2>2. req[q].instance # t
    BY <1>1, <1>6, <2>1 DEF IndInv, LockExclusive
  <2> QED
    BY <1>7, <1>10, <1>12, <2>1, <2>2 DEF SourcedBy
<1> QED
  BY <1>5, <1>12, <1>13, <1>15, <1>16, <1>17, TablesStep

\* Answering with the previous pair revokes the token presented and creates nothing.
LEMMA AnswerPreviousStep ==
    ASSUME IndInv, NEW r \in Requests, AnswerPrevious(r)
    PROVE  IndInv'
<1>1. /\ db' = RevokeRefresh(db, {req[r].instance}, now)
      /\ Succeed(r, req[r].gotAccess, req[r].gotRefresh)
      /\ UNCHANGED <<now, granted, rev>>
  BY DEF AnswerPrevious
<1>2. /\ WellFormed(db') /\ DOMAIN db'.at \subseteq DOMAIN db.at /\ DOMAIN db'.rt = DOMAIN db.rt
      /\ db'.rtSeq = db.rtSeq /\ \A a \in DOMAIN db'.at : db'.at[a] = db.at[a]
  BY <1>1, RevokeRefreshFields DEF IndInv, TypeOK
<1>3. req[r].gotAccess \in Nat /\ req[r].gotRefresh \in Nat
  BY DEF IndInv, TypeOK, Request
<1>4. /\ req' \in [Requests -> Request] /\ ~InTransaction(r)'
      /\ \A q \in Requests \ {r} : req'[q] = req[q]
  BY <1>1, <1>3, SucceedType
<1>5. \A t : SourcedBy(db', t) \subseteq SourcedBy(db, t)
  BY <1>2 DEF SourcedBy
<1>6. granted' \in [1 .. db'.rtSeq -> SUBSET Scopes] /\ rev' \in [Revocations -> Revocation]
  BY <1>1, <1>2 DEF IndInv, TypeOK
<1> QED
  BY <1>1, <1>2, <1>4, <1>5, <1>6, TablesStep DEF InTransaction

-----------------------------------------------------------------------------
\* The environment's steps touch no request object.
LEMMA IssueTokensStep ==
    ASSUME IndInv, NEW scope \in SUBSET Scopes, IssueTokens(scope)
    PROVE  IndInv'
<1>1. PICK A : A = CreateAccess(db, scope, now + AccessLife, NULL)
  OBVIOUS
<1>2. now + AccessLife \in Nat /\ NULL \in Nat
  BY RefreshAssumption DEF IndInv, TypeOK, NULL
<1>3. /\ WellFormed(A) /\ A.rt = db.rt /\ A.rtSeq = db.rtSeq /\ A.atSeq = db.atSeq + 1
      /\ DOMAIN A.at = DOMAIN db.at \cup {A.atSeq}
      /\ A.at[A.atSeq].source = NULL /\ \A a \in DOMAIN db.at : A.at[a] = db.at[a]
  <2>1. WellFormed(db) /\ NULL \in DOMAIN db.rt \cup {NULL}
    BY DEF IndInv
  <2>2. WellFormed(A) /\ AccessCreated(db, A, NULL)
    BY <1>1, <1>2, <2>1, CreateAccessWellFormed
  <2> QED
    BY <2>2 DEF AccessCreated
<1>4. \A t : t # NULL => SourcedBy(A, t) = SourcedBy(db, t)
  BY <1>3 DEF SourcedBy
<1>5. \A q \in Requests : InTransaction(q) => req[q].instance # NULL
  BY DEF IndInv, LockedRowExists, TypeOK, IsStore, NULL
<1>6. UNCHANGED <<now, req>> /\ req \in [Requests -> Request] /\ rev' \in [Revocations -> Revocation]
  BY DEF IssueTokens, IndInv, TypeOK
<1>7. CASE db' = A /\ UNCHANGED granted
  <2>1. granted' \in [1 .. db'.rtSeq -> SUBSET Scopes]
    BY <1>3, <1>7 DEF IndInv, TypeOK
  <2> QED
    BY <1>3, <1>4, <1>5, <1>6, <1>7, <2>1, TablesStep DEF InTransaction
<1>8. CASE /\ db' = CreateRefresh(A, A.rtSeq + 1, A.atSeq)
           /\ granted' = Insert(granted, A.rtSeq + 1, scope)
  <2>1. A.atSeq \in Nat /\ A.rtSeq + 1 \in Nat
    BY <1>3 DEF WellFormed, IsStore
  <2>2. /\ WellFormed(db') /\ db'.at = A.at /\ db'.rtSeq = db.rtSeq + 1
        /\ DOMAIN db'.rt = DOMAIN db.rt \cup {db'.rtSeq}
    <3>1. A.atSeq \in DOMAIN A.at
      BY <1>3
    <3>2. WellFormed(db') /\ RefreshCreated(A, db', A.rtSeq + 1, A.atSeq)
      BY <1>3, <1>8, <2>1, <3>1, CreateRefreshWellFormed
    <3> QED
      BY <1>3, <3>2 DEF RefreshCreated
  <2>3. \A t : SourcedBy(db', t) = SourcedBy(A, t)
    BY <2>2 DEF SourcedBy
  <2>4. db.rtSeq \in Nat /\ 1 .. (db.rtSeq + 1) = 1 .. db.rtSeq \cup {db.rtSeq + 1}
    BY DEF IndInv, TypeOK, IsStore
  <2>5. granted' \in [1 .. db'.rtSeq -> SUBSET Scopes]
    BY <1>3, <1>8, <2>2, <2>4 DEF Insert, IndInv, TypeOK
  <2> QED
    BY <1>4, <1>5, <1>6, <2>2, <2>3, <2>5, TablesStep DEF InTransaction
<1> QED
  BY <1>1, <1>7, <1>8 DEF IssueTokens

\* Revoking an access token waits for the lock of the row bound to it and creates nothing.
LEMMA RevokeAccessTokenStep ==
    ASSUME IndInv, NEW a \in DOMAIN db.at, RevokeAccessToken(a)
    PROVE  IndInv'
<1>1. db' = DeleteAccess(db, {a}) /\ UNCHANGED <<now, req, granted, rev>>
  BY DEF RevokeAccessToken
<1>2. WellFormed(db')
  BY <1>1, DeleteAccessWellFormed DEF IndInv
<1>3. /\ db'.rtSeq = db.rtSeq /\ DOMAIN db'.rt = DOMAIN db.rt
      /\ db'.at = [b \in DOMAIN db.at \ {a} |-> db.at[b]]
  <2>1. IsStore(db)
    BY DEF IndInv, TypeOK
  <2>2. AccessDeleted(db, db', {a})
    BY <1>1, <2>1, DeleteAccessFields
  <2> QED
    BY <2>2 DEF AccessDeleted
<1>4. \A t : SourcedBy(db', t) \subseteq SourcedBy(db, t)
  BY <1>3 DEF SourcedBy
<1> QED
  BY <1>1, <1>2, <1>3, <1>4, TablesStep DEF IndInv, TypeOK, InTransaction

\* revoke_token looks rows up and remembers which ...
LEMMA LookUpRefreshStep ==
    ASSUME IndInv, NEW v \in Revocations, NEW code \in 1 .. db.rtSeq, NEW hint, LookUpRefresh(v, code, hint)
    PROVE  rev' \in [Revocations -> Revocation] /\ UNCHANGED <<now, db, req, granted>>
<1>1. PICK rows : rows = {t \in DOMAIN db.rt : db.rt[t].token = code}
  OBVIOUS
<1>2. PICK raced \in BOOLEAN : raced = \E r \in Requests : req[r].phase \in Running /\ req[r].code = code
  OBVIOUS
<1>3. rev' = [rev EXCEPT ![v] = [rev[v] EXCEPT !.phase = "revoking", !.code = code, !.rows = rows,
                                              !.raced = raced]]
  BY <1>1, <1>2 DEF LookUpRefresh
<1>4. rev[v] \in Revocation /\ rows \in SUBSET Nat /\ code \in Nat
  BY <1>1 DEF IndInv, TypeOK, IsStore
<1>5. [rev[v] EXCEPT !.phase = "revoking", !.code = code, !.rows = rows, !.raced = raced] \in Revocation
  BY <1>4 DEF Revocation
<1> QED
  BY <1>3, <1>5 DEF LookUpRefresh, IndInv, TypeOK

\* ... revokes them one by one ...
LEMMA RevokeRowStep ==
    ASSUME IndInv, NEW v \in Revocations, RevokeRow(v)
    PROVE  /\ rev' \in [Revocations -> Revocation] /\ UNCHANGED <<now, req, granted>>
           /\ \E t \in rev[v].rows : db' = RevokeRefresh(db, {t}, now)
<1>1. PICK t \in rev[v].rows :
        /\ db' = RevokeRefresh(db, {t}, now)
        /\ rev' = [rev EXCEPT ![v] = [rev[v] EXCEPT !.rows = rev[v].rows \ {t}]]
  BY DEF RevokeRow
<1> DEFINE row == [rev[v] EXCEPT !.rows = rev[v].rows \ {t}]
<1>2. rev[v] \in Revocation
  BY DEF IndInv, TypeOK
<1>3. row \in Revocation
  BY <1>2 DEF Revocation
<1>4. rev' = [rev EXCEPT ![v] = row]
  BY <1>1
<1> HIDE DEF row
<1>5. rev' \in [Revocations -> Revocation]
  BY <1>3, <1>4 DEF IndInv, TypeOK
<1> QED
  BY <1>1, <1>5 DEF RevokeRow

\* ... and answers.
LEMMA AnswerRevocationStep ==
    ASSUME IndInv, NEW v \in Revocations, AnswerRevocation(v)
    PROVE  rev' \in [Revocations -> Revocation] /\ UNCHANGED <<now, db, req, granted>>
<1>1. rev[v] \in Revocation /\ now \in Nat
  BY DEF IndInv, TypeOK
<1>2. [rev[v] EXCEPT !.phase = "answered", !.at = now] \in Revocation
  BY <1>1 DEF Revocation
<1> QED
  BY <1>2 DEF AnswerRevocation, IndInv, TypeOK

\* The statements of revoke_token create nothing.
LEMMA RevokeRefreshTokenStep ==
    ASSUME IndInv, NEW v \in Revocations, RevokeRefreshToken(v)
    PROVE  IndInv'
<1>1. ASSUME UNCHANGED <<now, db, req, granted>>, rev' \in [Revocations -> Revocation] PROVE IndInv'
  BY <1>1, TablesStep DEF IndInv, TypeOK, InTransaction, WellFormed
<1>2. CASE \E code \in 1 .. db.rtSeq, hint \in {"none", "refresh_token"} : LookUpRefresh(v, code, hint)
  BY <1>1, <1>2, LookUpRefreshStep
<1>3. CASE RevokeRow(v)
  <2>1. PICK t : db' = RevokeRefresh(db, {t}, now)
    BY <1>3, RevokeRowStep
  <2>2. rev' \in [Revocations -> Revocation] /\ UNCHANGED <<now, req, granted>>
    BY <1>3, RevokeRowStep
  <2>3. /\ WellFormed(db') /\ DOMAIN db'.at \subseteq DOMAIN db.at /\ DOMAIN db'.rt = DOMAIN db.rt
        /\ db'.rtSeq = db.rtSeq /\ \A a \in DOMAIN db'.at : db'.at[a] = db.at[a]
    BY <2>1, RevokeRefreshFields DEF IndInv, TypeOK
  <2>4. \A u : SourcedBy(db', u) \subseteq SourcedBy(db, u)
    BY <2>3 DEF SourcedBy
  <2> QED
    BY <2>2, <2>3, <2>4, TablesStep DEF IndInv, TypeOK, InTransaction
<1>4. CASE AnswerRevocation(v)
  BY <1>1, <1>4, AnswerRevocationStep
<1> QED
  BY <1>2, <1>3, <1>4 DEF RevokeRefreshToken

\* The clock appears in no conjunct but its type.
LEMMA TickStep ==
    ASSUME IndInv, Tick
    PROVE  IndInv'
<1>1. now' \in 1 .. MaxTime /\ UNCHANGED <<db, req, granted, rev>>
  BY RefreshAssumption DEF Tick, IndInv, TypeOK
<1> QED
  BY <1>1 DEF IndInv, TypeOK, LockExclusive, LockedRowExists, PreviousStillAbsent, InTransaction

\* Every action preserves the inductive invariant.
LEMMA NextInv == IndInv /\ [Next]_vars => IndInv'
<1> SUFFICES ASSUME IndInv, [Next]_vars PROVE IndInv'
  OBVIOUS
<1>1. ASSUME NEW r \in Requests, Step(r) PROVE IndInv'
  <2>1. CASE Refuse(r)
    BY <2>1, AnswerStep DEF Refuse, Answered
  <2> QED
    BY <1>1, <2>1, ValidateStep, GetOriginalScopesStep, ReuseAccessStep, LockInstanceStep,
       ReadPreviousStep, IssueFreshStep, ReadPairStep, AnswerPreviousStep, RespondStep DEF Step
<1>2. ASSUME Environment PROVE IndInv'
  BY <1>2, IssueTokensStep, RevokeAccessTokenStep, RevokeRefreshTokenStep, TickStep
     DEF Environment, AuthorizedTokenDelete
<1>3. CASE UNCHANGED vars
  BY <1>3 DEF vars, IndInv, TypeOK, LockExclusive, LockedRowExists, PreviousStillAbsent,
              InTransaction
<1> QED
  BY <1>1, <1>2, <1>3 DEF Next

-----------------------------------------------------------------------------
\* The inductive invariant holds in every reachable state.
THEOREM Invariance == Spec => []IndInv
BY InitInv, NextInv, PTL DEF Spec

\* Type correctness of the tables, the request objects and the histories.
THEOREM TypeCorrect == Spec => []TypeOK
<1>1. IndInv => TypeOK
  BY DEF IndInv
<1> QED
  BY <1>1, Invariance, PTL

\* save_bearer_token never creates a second live successor of a refresh token.
THEOREM SuccessorUnique == Spec => []OneSuccessor
<1>1. IndInv => OneSuccessor
  BY DEF IndInv, WellFormed, OneSuccessor
<1> QED
  BY <1>1, Invariance, PTL

\* No revoked refresh token keeps an access token.
THEOREM RevocationTakesAccess == Spec => []RevokedIsUnbound
<1>1. IndInv => RevokedIsUnbound
  BY DEF IndInv, WellFormed, RevokedIsUnbound
<1> QED
  BY <1>1, Invariance, PTL

-----------------------------------------------------------------------------
StampsKept(S, D) ==
    \A t \in DOMAIN S.rt : S.rt[t].revoked # NULL => D.rt[t].revoked = S.rt[t].revoked

\* Deleting an access token (revoke of either kind of token, reuse of none) restamps
\* no refresh token.
LEMMA DeleteAccessKeepsStamps ==
    ASSUME NEW S, IsStore(S), NEW A
    PROVE  StampsKept(S, DeleteAccess(S, A))
<1>1. PICK D : D = DeleteAccess(S, A)
  OBVIOUS
<1>2. AccessDeleted(S, D, A)
  BY <1>1, DeleteAccessFields
<1>3. \A t \in DOMAIN S.rt : S.rt[t] \in RefreshRow
  BY DEF IsStore
<1>4. StampsKept(S, D)
  BY <1>2, <1>3 DEF AccessDeleted, StampsKept, RefreshRow
<1> QED
  BY <1>1, <1>4

\* RefreshToken.revoke skips the rows that bear a timestamp already.
LEMMA RevokeKeepsStamps ==
    ASSUME IndInv, NEW T
    PROVE  /\ StampsKept(db, RevokeRefresh(db, T, now))
           /\ DOMAIN RevokeRefresh(db, T, now).rt = DOMAIN db.rt
           /\ WellFormed(RevokeRefresh(db, T, now))
<1>1. PICK R : R = RevokeRefresh(db, T, now)
  OBVIOUS
<1>2. WellFormed(db) /\ now \in Nat
  BY DEF IndInv, TypeOK
<1>3. StampsKept(db, R) /\ DOMAIN R.rt = DOMAIN db.rt /\ WellFormed(R)
  BY <1>1, <1>2, RevokeRefreshFields DEF StampsKept
<1> QED
  BY <1>1, <1>3

\* Creating a pair adds rows: the refresh tokens that exist keep theirs.
LEMMA CreateKeepsRows ==
    ASSUME NEW S, IsStore(S), NEW scope, NEW expires, NEW source, NEW A, A = CreateAccess(S, scope, expires, source),
           NEW token, NEW access, NEW C, C = CreateRefresh(A, token, access)
    PROVE  A.rt = S.rt /\ \A t \in DOMAIN S.rt : C.rt[t] = S.rt[t]
<1>1. A.rt = S.rt /\ A.rtSeq = S.rtSeq
  BY DEF CreateAccess, IsStore
<1>2. S.rtSeq + 1 \notin DOMAIN S.rt
  BY DEF IsStore
<1>3. A = [at |-> A.at, rt |-> A.rt, atSeq |-> A.atSeq, rtSeq |-> A.rtSeq, strings |-> A.strings]
  BY DEF CreateAccess, IsStore
<1>4. C.rt = Insert(A.rt, A.rtSeq + 1, [token |-> token, access |-> access, revoked |-> NULL])
  BY <1>3 DEF CreateRefresh
<1> QED
  BY <1>1, <1>2, <1>4 DEF Insert

\* No step of the token endpoint restamps a revoked refresh token.
LEMMA StepKeepsStamps ==
    ASSUME IndInv, NEW r \in Requests, Step(r)
    PROVE  StampsKept(db, db')
<1>1. CASE UNCHANGED db
  BY <1>1 DEF StampsKept
<1>2. CASE ReuseAccess(r)
  <2>1. UNCHANGED db \/ db' = UpdateAccess(db, req[r].access, req[r].scope, req[r].expires)
    BY <1>2 DEF ReuseAccess, Answer
  <2>2. IsStore(db)
    BY DEF IndInv, TypeOK
  <2>3. UpdateAccess(db, req[r].access, req[r].scope, req[r].expires).rt = db.rt
    BY <2>2 DEF UpdateAccess, IsStore
  <2> QED
    BY <2>1, <2>3 DEF StampsKept
<1>3. CASE IssueFresh(r)
  <2>1. PICK R : R = RevokeRefresh(db, {req[r].instance}, now)
    OBVIOUS
  <2>2. PICK A : A = CreateAccess(R, req[r].scope, req[r].expires, req[r].instance)
    OBVIOUS
  <2>3. PICK token : db' = CreateRefresh(A, token, A.atSeq)
    BY <1>3, <2>1, <2>2 DEF IssueFresh
  <2>4. StampsKept(db, R) /\ DOMAIN R.rt = DOMAIN db.rt /\ IsStore(R)
    BY <2>1, RevokeKeepsStamps DEF WellFormed
  <2>5. \A t \in DOMAIN R.rt : db'.rt[t] = R.rt[t]
    BY <2>2, <2>3, <2>4, CreateKeepsRows
  <2> QED
    BY <2>4, <2>5 DEF StampsKept
<1>4. CASE AnswerPrevious(r)
  BY <1>4, RevokeKeepsStamps DEF AnswerPrevious
<1> QED
  BY <1>1, <1>2, <1>3, <1>4 DEF Step, Refuse, Validate, GetOriginalScopes, LockInstance,
     ReadPrevious, ReadPair, Respond, Answer

\* Nor does any other request.
LEMMA EnvironmentKeepsStamps ==
    ASSUME IndInv, Environment
    PROVE  StampsKept(db, db')
<1>0. IsStore(db)
  BY DEF IndInv, TypeOK
<1>1. ASSUME NEW scope \in SUBSET Scopes, IssueTokens(scope) PROVE StampsKept(db, db')
  <2>1. PICK A : A = CreateAccess(db, scope, now + AccessLife, NULL)
    OBVIOUS
  <2>2. PICK token, C : C = CreateRefresh(A, token, A.atSeq) /\ (db' = A \/ db' = C)
    BY <1>1, <2>1 DEF IssueTokens
  <2>3. A.rt = db.rt /\ \A t \in DOMAIN db.rt : C.rt[t] = db.rt[t]
    BY <1>0, <2>1, <2>2, CreateKeepsRows
  <2> QED
    BY <2>2, <2>3 DEF StampsKept
<1>2. ASSUME NEW a, RevokeAccessToken(a) PROVE StampsKept(db, db')
  BY <1>0, <1>2, DeleteAccessKeepsStamps DEF RevokeAccessToken
<1>3. ASSUME NEW v \in Revocations, RevokeRefreshToken(v) PROVE StampsKept(db, db')
  <2>1. UNCHANGED db \/ \E t \in rev[v].rows : db' = RevokeRefresh(db, {t}, now)
    BY <1>3 DEF RevokeRefreshToken, LookUpRefresh, RevokeRow, AnswerRevocation
  <2>2. CASE UNCHANGED db
    BY <2>2 DEF StampsKept
  <2>3. CASE \E t \in rev[v].rows : db' = RevokeRefresh(db, {t}, now)
    BY <2>3, RevokeKeepsStamps
  <2> QED
    BY <2>1, <2>2, <2>3
<1>4. CASE Tick
  BY <1>4 DEF Tick, StampsKept
<1> QED
  BY <1>1, <1>2, <1>3, <1>4 DEF Environment, AuthorizedTokenDelete

\* So no step of the token endpoint restamps.
LEMMA NextKeepsStamps == IndInv /\ [Next]_vars => StampsKept(db, db')
<1> SUFFICES ASSUME IndInv, [Next]_vars PROVE StampsKept(db, db')
  OBVIOUS
<1>1. CASE Next
  BY <1>1, StepKeepsStamps, EnvironmentKeepsStamps DEF Next
<1>2. CASE UNCHANGED vars
  BY <1>2 DEF vars, StampsKept
<1> QED
  BY <1>1, <1>2

\* A refresh token keeps the timestamp of its revocation: the grace period that starts
\* with it is never restarted, for any number of requests and any settings.
THEOREM RevocationFinal == Spec => RevocationIsFinal
<1>1. IndInv /\ [Next]_vars =>
        [\A t \in DOMAIN db.rt \cap DOMAIN db.rt' :
            db.rt[t].revoked # NULL => db'.rt[t].revoked = db.rt[t].revoked]_vars
  BY NextKeepsStamps DEF StampsKept
<1> QED
  BY <1>1, Invariance, PTL DEF Spec, RevocationIsFinal

\* The clock never goes back.
LEMMA ClockAdvances ==
    ASSUME IndInv, Next
    PROVE  now \in Nat /\ now' \in Nat /\ now <= now'
<1>1. now \in Nat
  BY DEF IndInv, TypeOK
<1>2. now' = now \/ now' = now + 1
  BY DEF Next, Step, Environment, Refuse, Validate, GetOriginalScopes, ReuseAccess, LockInstance,
         ReadPrevious, IssueFresh, ReadPair, AnswerPrevious, Respond, Answer, IssueTokens,
         RevokeAccessToken, AuthorizedTokenDelete, RevokeRefreshToken, LookUpRefresh, RevokeRow,
         AnswerRevocation, Tick
<1> QED
  BY <1>1, <1>2

-----------------------------------------------------------------------------
(***************************************************************************)
(* Chains of refreshes: ChainInv, on top of IndInv.                        *)
(***************************************************************************)
Chained(S, G) == UniqueBinding(S) /\ SourceSpent(S) /\ WithinGrants(S, G) /\ DistinctStrings(S)

\* What any commit leaves of the tables another request has read: keys and strings are
\* never used again, bindings end only with one of the rows, and so do sources.
Follows(S, D) ==
    /\ S.atSeq \in Nat /\ D.atSeq \in Nat /\ S.atSeq <= D.atSeq
    /\ S.rtSeq \in Nat /\ D.rtSeq \in Nat /\ S.rtSeq <= D.rtSeq
    /\ S.strings \in Nat /\ D.strings \in Nat /\ S.strings <= D.strings
    /\ \A a \in DOMAIN D.at :
          /\ \/ /\ a \in DOMAIN S.at
                /\ \/ D.at[a].source = S.at[a].source
                   \/ D.at[a].source = NULL /\ S.at[a].source \notin DOMAIN D.rt
             \/ a \in Nat /\ a > S.atSeq
          /\ \/ a \in DOMAIN S.at /\ D.at[a].token = S.at[a].token
             \/ D.at[a].token \in Nat /\ D.at[a].token > S.strings
    /\ \A t \in DOMAIN D.rt :
          \/ /\ t \in DOMAIN S.rt /\ D.rt[t].access \in {NULL, S.rt[t].access}
             /\ S.rt[t].access \in DOMAIN D.at => D.rt[t].access = S.rt[t].access
          \/ /\ t \in Nat /\ t > S.rtSeq
             /\ D.rt[t].access # NULL => D.rt[t].access \in Nat /\ D.rt[t].access > S.atSeq

GrantsKept(G, H) == \A t \in DOMAIN G : t \in DOMAIN H /\ H[t] = G[t]

\* What a request has read stays true of the tables other requests leave.
LEMMA FollowsAttached ==
    ASSUME NEW S, WellFormed(S), NEW D, Follows(S, D), NEW G \in [1 .. S.rtSeq -> SUBSET Scopes],
           NEW H, GrantsKept(G, H), NEW t, NEW a, NEW scope, Attached(S, G, t, a, scope)
    PROVE  Attached(D, H, t, a, scope)
<1>0. /\ S.atSeq \in Nat /\ S.rtSeq \in Nat /\ DOMAIN S.rt \subseteq 1 .. S.rtSeq
      /\ NULL \notin DOMAIN S.at /\ \A b \in DOMAIN S.at : S.at[b].source \in DOMAIN S.rt \cup {NULL}
  BY DEF WellFormed, IsStore, ForeignKeys, NULL
<1>1. t \in 1 .. S.rtSeq /\ t \in DOMAIN H /\ H[t] = G[t]
  BY DEF Attached, GrantsKept
<1>2. a \in 0 .. D.atSeq /\ scope \subseteq H[t]
  BY <1>1 DEF Attached, Follows
<1>3. ASSUME a \in DOMAIN D.at
      PROVE  BoundTo(D, a) = {t} \cap DOMAIN D.rt /\ (D.at[a].source # NULL => H[D.at[a].source] = H[t])
  <2>1. a \in DOMAIN S.at /\ a # NULL /\ a <= S.atSeq /\ a \in Nat
    BY <1>0, <1>3 DEF Attached, Follows
  <2>2. BoundTo(S, a) = {t} \cap DOMAIN S.rt /\ (S.at[a].source # NULL => G[S.at[a].source] = G[t])
    BY <2>1 DEF Attached
  <2>3. ASSUME NEW u \in BoundTo(D, a) PROVE u = t /\ u \in DOMAIN D.rt
    <3>1. u \in DOMAIN D.rt /\ D.rt[u].access = a
      BY DEF BoundTo
    <3>2. u \in DOMAIN S.rt /\ S.rt[u].access = a
      BY <2>1, <3>1 DEF Follows
    <3> QED
      BY <2>2, <3>1, <3>2 DEF BoundTo
  <2>4. ASSUME t \in DOMAIN D.rt PROVE t \in BoundTo(D, a)
    <3>1. t \in DOMAIN S.rt /\ (S.rt[t].access \in DOMAIN D.at => D.rt[t].access = S.rt[t].access)
      BY <1>0, <1>1, <2>4 DEF Follows
    <3>2. S.rt[t].access = a
      BY <2>2, <3>1 DEF BoundTo
    <3> QED
      BY <1>3, <2>4, <3>1, <3>2 DEF BoundTo
  <2>5. ASSUME D.at[a].source # NULL PROVE H[D.at[a].source] = H[t]
    <3>1. D.at[a].source = S.at[a].source
      BY <1>3, <2>1, <2>5 DEF Follows
    <3>2. S.at[a].source \in 1 .. S.rtSeq
      BY <1>0, <2>1, <2>5, <3>1
    <3> QED
      BY <1>1, <2>2, <2>5, <3>1, <3>2 DEF GrantsKept
  <2> QED
    BY <2>3, <2>4, <2>5
<1> QED
  BY <1>1, <1>2, <1>3 DEF Attached

\* ... and so does what it answered with, or is about to.
LEMMA FollowsTraced ==
    ASSUME NEW S, WellFormed(S), NEW D, Follows(S, D), NEW t, NEW string, Traced(S, t, string)
    PROVE  Traced(D, t, string)
<1>0. S.rtSeq \in Nat /\ S.strings \in Nat /\ t # NULL
  BY DEF WellFormed, IsStore, Traced, NULL
<1>1. t \in 1 .. D.rtSeq /\ string \in 0 .. D.strings
  BY <1>0 DEF Follows, Traced
<1>2. ASSUME t \in DOMAIN D.rt, NEW a \in DOMAIN D.at, D.at[a].token = string
      PROVE  D.at[a].source = t \/ D.rt[t].access = a
  <2>1. string <= S.strings /\ string \in Nat /\ t <= S.rtSeq /\ t \in Nat
    BY <1>0 DEF Traced
  <2>2. a \in DOMAIN S.at /\ S.at[a].token = string
    BY <1>2, <2>1 DEF Follows
  <2>3. t \in DOMAIN S.rt /\ (S.rt[t].access \in DOMAIN D.at => D.rt[t].access = S.rt[t].access)
    BY <1>2, <2>1 DEF Follows
  <2>4. S.at[a].source = t \/ S.rt[t].access = a
    BY <2>2, <2>3 DEF Traced
  <2>5. ASSUME S.at[a].source = t PROVE D.at[a].source = t
    <3>1. a <= S.atSeq /\ a \in Nat /\ S.atSeq \in Nat
      BY <2>2 DEF WellFormed, IsStore
    <3> QED
      BY <1>2, <2>5, <3>1 DEF Follows
  <2> QED
    BY <2>3, <2>4, <2>5
<1> QED
  BY <1>1, <1>2 DEF Traced

-----------------------------------------------------------------------------
\* Deleting access tokens and revoking refresh tokens keep the tables chained.
LEMMA ShrinkChained ==
    ASSUME NEW S, WellFormed(S), NEW D, Shrinks(S, D), NEW G, Chained(S, G)
    PROVE  Chained(D, G) /\ Follows(S, D)
<1>0. NULL \notin DOMAIN S.at /\ S.atSeq \in Nat /\ S.strings \in Nat /\ S.rtSeq \in Nat
  BY DEF WellFormed, IsStore, NULL
<1>1. \A t \in DOMAIN D.rt : t \in DOMAIN S.rt /\ (D.rt[t].access # NULL => D.rt[t].access = S.rt[t].access)
  BY DEF Shrinks
<1>2. UniqueBinding(D)
  BY <1>1 DEF Chained, UniqueBinding
<1>3. SourceSpent(D)
  BY DEF Chained, SourceSpent, Shrinks, WellFormed, ForeignKeys
<1>4. WithinGrants(D, G)
  <2> SUFFICES ASSUME NEW a \in DOMAIN D.at
               PROVE  /\ D.at[a].source # NULL => D.at[a].scope \subseteq G[D.at[a].source]
                      /\ \A t \in BoundTo(D, a) :
                            /\ D.at[a].scope \subseteq G[t]
                            /\ D.at[a].source # NULL => G[D.at[a].source] = G[t]
    BY DEF WithinGrants
  <2>1. a \in DOMAIN S.at /\ D.at[a] = S.at[a] /\ a # NULL
    BY <1>0 DEF Shrinks
  <2>2. BoundTo(D, a) \subseteq BoundTo(S, a)
    BY <1>1, <2>1 DEF BoundTo
  <2> QED
    BY <2>1, <2>2 DEF Chained, WithinGrants
<1>5. DistinctStrings(D)
  BY DEF Chained, DistinctStrings, Shrinks
<1>6. Follows(S, D)
  BY <1>0 DEF Shrinks, Follows
<1> QED
  BY <1>2, <1>3, <1>4, <1>5, <1>6 DEF Chained

\* An access token created alone, by save_bearer_token without a refresh token.
LEMMA AloneChained ==
    ASSUME NEW S, WellFormed(S), NEW C, AccessCreated(S, C, NULL), NEW G, Chained(S, G),
           C.at[C.atSeq].token = C.strings
    PROVE  Chained(C, G) /\ Follows(S, C)
<1>0. /\ S.atSeq \in Nat /\ S.strings \in Nat /\ C.rt = S.rt /\ C.atSeq = S.atSeq + 1
      /\ S.rtSeq \in Nat /\ C.rtSeq = S.rtSeq
      /\ C.strings = S.strings + 1 /\ DOMAIN C.at = DOMAIN S.at \cup {C.atSeq}
      /\ C.atSeq \notin DOMAIN S.at /\ C.at[C.atSeq].source = NULL
      /\ \A a \in DOMAIN S.at : C.at[a] = S.at[a]
  BY DEF WellFormed, IsStore, AccessCreated
<1>1. UniqueBinding(C) /\ SourceSpent(C)
  BY <1>0 DEF Chained, UniqueBinding, SourceSpent
<1>2. BoundTo(C, C.atSeq) = {}
  BY <1>0 DEF BoundTo, WellFormed, ForeignKeys, NULL
<1>3. \A a \in DOMAIN S.at : BoundTo(C, a) = BoundTo(S, a)
  BY <1>0 DEF BoundTo
<1>4. WithinGrants(C, G)
  BY <1>0, <1>2, <1>3 DEF Chained, WithinGrants
<1>5. DistinctStrings(C)
  BY <1>0 DEF Chained, DistinctStrings
<1>6. Follows(S, C)
  BY <1>0 DEF Follows
<1> QED
  BY <1>1, <1>4, <1>5, <1>6 DEF Chained

\* Where the grant of a new pair comes from.
Inherits(S, G, source, grant) ==
    source # NULL => source \in DOMAIN S.rt /\ S.rt[source].revoked # NULL /\ G[source] = grant

\* A new pair, from a grant or in exchange for the spent refresh token source, whose
\* grant it inherits.
LEMMA PairChained ==
    ASSUME NEW S, WellFormed(S), NEW source, NEW A, AccessCreated(S, A, source),
           NEW token, NEW C, RefreshCreated(A, C, token, A.atSeq),
           NEW G, Chained(S, G), G \in [1 .. S.rtSeq -> SUBSET Scopes],
           NEW grant, NEW H, H = Insert(G, S.rtSeq + 1, grant),
           A.at[A.atSeq].token = A.strings, A.at[A.atSeq].scope \subseteq grant,
           Inherits(S, G, source, grant)
    PROVE  Chained(C, H) /\ Follows(S, C) /\ GrantsKept(G, H)
<1> DEFINE a0 == S.atSeq + 1
           t0 == S.rtSeq + 1
<1>0. /\ S.atSeq \in Nat /\ S.strings \in Nat /\ S.rtSeq \in Nat /\ DOMAIN S.rt \subseteq 1 .. S.rtSeq
      /\ \A a \in DOMAIN S.at : S.at[a].source \in DOMAIN S.rt \cup {NULL}
      /\ \A t \in DOMAIN S.rt : S.rt[t].access \in DOMAIN S.at \cup {NULL}
      /\ DOMAIN S.at \subseteq 1 .. S.atSeq
  BY DEF WellFormed, IsStore, ForeignKeys
<1>1. /\ C.atSeq = a0 /\ C.strings = S.strings + 1 /\ DOMAIN C.at = DOMAIN S.at \cup {a0}
      /\ a0 \notin DOMAIN S.at /\ C.at[a0].source = source /\ \A a \in DOMAIN S.at : C.at[a] = S.at[a]
      /\ C.at[a0].token = C.strings /\ C.at[a0].scope \subseteq grant
  BY <1>0 DEF AccessCreated, RefreshCreated
<1>2. /\ DOMAIN C.rt = DOMAIN S.rt \cup {t0} /\ t0 \notin DOMAIN S.rt
      /\ C.rt[t0].access = a0 /\ \A t \in DOMAIN S.rt : C.rt[t] = S.rt[t]
  BY <1>0 DEF AccessCreated, RefreshCreated
<1>3. H[t0] = grant /\ \A t \in 1 .. S.rtSeq : H[t] = G[t]
  BY <1>0 DEF Insert
<1>10. a0 # NULL /\ t0 # NULL /\ t0 \notin 1 .. S.rtSeq
  BY <1>0 DEF NULL
<1> HIDE DEF a0, t0
<1>4. UniqueBinding(C)
  BY <1>0, <1>1, <1>2, <1>10 DEF Chained, UniqueBinding
<1>11. source # NULL => source \in DOMAIN S.rt /\ S.rt[source].revoked # NULL /\ G[source] = grant
  BY DEF Inherits
<1>5. SourceSpent(C)
  BY <1>0, <1>1, <1>2, <1>11 DEF Chained, SourceSpent
<1>6. WithinGrants(C, H)
  <2>1. BoundTo(C, a0) = {t0}
    BY <1>0, <1>1, <1>2, <1>10 DEF BoundTo
  <2>2. \A a \in DOMAIN S.at : BoundTo(C, a) = BoundTo(S, a)
    BY <1>1, <1>2 DEF BoundTo
  <2>3. source # NULL => H[source] = grant
    BY <1>0, <1>3, <1>11
  <2>4. ASSUME NEW a \in DOMAIN C.at
        PROVE  /\ C.at[a].source # NULL => C.at[a].scope \subseteq H[C.at[a].source]
               /\ \A t \in BoundTo(C, a) :
                     /\ C.at[a].scope \subseteq H[t]
                     /\ C.at[a].source # NULL => H[C.at[a].source] = H[t]
    <3>1. CASE a = a0
      BY <1>1, <1>3, <2>1, <2>3, <3>1
    <3>2. CASE a \in DOMAIN S.at
      <4>1. C.at[a] = S.at[a] /\ BoundTo(C, a) = BoundTo(S, a)
        BY <1>1, <2>2, <3>2
      <4>2. BoundTo(S, a) \subseteq 1 .. S.rtSeq /\ S.at[a].source \in 1 .. S.rtSeq \cup {NULL}
        BY <1>0, <3>2 DEF BoundTo
      <4>3. /\ S.at[a].source # NULL => S.at[a].scope \subseteq G[S.at[a].source]
            /\ \A t \in BoundTo(S, a) :
                  /\ S.at[a].scope \subseteq G[t]
                  /\ S.at[a].source # NULL => G[S.at[a].source] = G[t]
        BY <3>2 DEF Chained, WithinGrants
      <4> QED
        BY <1>3, <4>1, <4>2, <4>3
    <3> QED
      BY <1>1, <3>1, <3>2
  <2> QED
    BY <2>4 DEF WithinGrants
<1>7. DistinctStrings(C)
  BY <1>0, <1>1 DEF Chained, DistinctStrings
<1>8. Follows(S, C)
  <2>1. a0 > S.atSeq /\ S.atSeq <= a0 /\ a0 \in Nat /\ t0 > S.rtSeq /\ S.rtSeq <= t0 /\ t0 \in Nat
    BY <1>0 DEF a0, t0
  <2>2. C.rtSeq = t0
    BY DEF AccessCreated, RefreshCreated, t0
  <2> QED
    BY <1>0, <1>1, <1>2, <2>1, <2>2 DEF Follows
<1>9. GrantsKept(G, H)
  BY <1>3 DEF GrantsKept, Insert
<1> QED
  BY <1>4, <1>5, <1>6, <1>7, <1>8, <1>9 DEF Chained

\* Reissuing the access token attached to t with a scope within t's grant, whether t is
\* still in the table or not.
LEMMA ReissueChained ==
    ASSUME NEW S, WellFormed(S), NEW G, Chained(S, G), NEW t \in 1 .. S.rtSeq,
           NEW a \in DOMAIN S.at, NEW scope \in SUBSET Scopes, Attached(S, G, t, a, scope),
           NEW expires \in Nat, NEW C, C = UpdateAccess(S, a, scope, expires)
    PROVE  /\ Chained(C, G) /\ Follows(S, C)
           /\ Traced(C, t, C.strings)
<1>0. IsStore(S) /\ a # NULL
  BY DEF WellFormed, IsStore, NULL
<1>1. AccessUpdated(S, C, a, scope)
  BY UpdateAccessWellFormed
<1>2. C.at = [S.at EXCEPT ![a] = [token |-> C.strings, scope |-> scope, expires |-> expires,
                                  source |-> S.at[a].source]]
  BY <1>0, UpdateAccessRow
<1>3. /\ C.rt = S.rt /\ C.atSeq = S.atSeq /\ C.strings = S.strings + 1 /\ C.rtSeq = S.rtSeq
      /\ DOMAIN C.at = DOMAIN S.at /\ C.at[a].scope = scope /\ C.at[a].token = C.strings
      /\ \A b \in DOMAIN S.at : C.at[b].source = S.at[b].source
      /\ \A b \in DOMAIN S.at : b # a => C.at[b] = S.at[b]
  BY <1>0, <1>1, <1>2 DEF AccessUpdated, IsStore
<1>4. UniqueBinding(C) /\ SourceSpent(C)
  <2>1. UniqueBinding(C)
    BY <1>3 DEF Chained, UniqueBinding
  <2>2. \A b \in DOMAIN S.at : S.at[b].source # NULL => S.rt[S.at[b].source].revoked # NULL
    BY DEF Chained, SourceSpent
  <2> QED
    BY <1>3, <2>1, <2>2 DEF SourceSpent
<1>5. /\ BoundTo(S, a) = {t} \cap DOMAIN S.rt /\ scope \subseteq G[t]
      /\ S.at[a].source # NULL => G[S.at[a].source] = G[t]
  BY DEF Attached
<1>6. \A b : BoundTo(C, b) = BoundTo(S, b)
  BY <1>3 DEF BoundTo
<1>7. WithinGrants(C, G)
  <2>1. ASSUME NEW b \in DOMAIN S.at, b # a
        PROVE  /\ C.at[b].source # NULL => C.at[b].scope \subseteq G[C.at[b].source]
               /\ \A u \in BoundTo(C, b) :
                     /\ C.at[b].scope \subseteq G[u]
                     /\ C.at[b].source # NULL => G[C.at[b].source] = G[u]
    BY <1>3, <1>6, <2>1 DEF Chained, WithinGrants
  <2>2. /\ C.at[a].source # NULL => C.at[a].scope \subseteq G[C.at[a].source]
        /\ \A u \in BoundTo(C, a) :
              /\ C.at[a].scope \subseteq G[u]
              /\ C.at[a].source # NULL => G[C.at[a].source] = G[u]
    BY <1>3, <1>5, <1>6
  <2> QED
    BY <1>3, <2>1, <2>2 DEF WithinGrants
<1>8. S.strings \in Nat /\ S.atSeq \in Nat /\ S.rtSeq \in Nat
  BY <1>0 DEF IsStore
<1>9. DistinctStrings(C)
  BY <1>3, <1>8 DEF Chained, DistinctStrings
<1>10. Follows(S, C)
  BY <1>3, <1>8 DEF Follows
<1>11. Traced(C, t, C.strings)
  <2>1. \A b \in DOMAIN C.at : C.at[b].token = C.strings => b = a
    BY <1>3, <1>9 DEF DistinctStrings
  <2>2. t \in DOMAIN C.rt => C.rt[t].access = a
    BY <1>3, <1>5 DEF BoundTo
  <2> QED
    BY <1>3, <1>8, <2>1, <2>2 DEF Traced
<1> QED
  BY <1>4, <1>7, <1>9, <1>10, <1>11 DEF Chained

\* A refresh token has to do with one live access token: the one it was exchanged for or
\* the one bound to it, never with both.
LEMMA OneOfChain ==
    ASSUME NEW S, WellFormed(S), SourceSpent(S), NEW t \in DOMAIN S.rt,
           NEW a \in DOMAIN S.at, S.at[a].source = t \/ S.rt[t].access = a,
           NEW b \in DOMAIN S.at, S.at[b].source = t \/ S.rt[t].access = b
    PROVE  a = b
<1>1. t # NULL /\ a # NULL /\ b # NULL
  BY DEF WellFormed, IsStore, NULL
<1>2. S.at[a].source = t \/ S.at[b].source = t => S.rt[t].access = NULL
  BY <1>1 DEF SourceSpent, WellFormed, RevokedUnbound
<1> QED
  BY <1>1, <1>2 DEF WellFormed, UniqueSource
-----------------------------------------------------------------------------
\* What a request lays claim to: while its row is in the table the table tells, and once
\* it is gone nothing new is claimed.
ClaimsKept(q) ==
    \/ req'[q].instance \in DOMAIN db'.rt
    \/ req'[q].instance = req[q].instance /\ Claims(q)' \subseteq Claims(q)

\* Requests of one refresh token go on agreeing on its access token.
LEMMA ClaimsStep ==
    ASSUME ClaimsAgree, WellFormed(db'), SourceSpent(db'),
           \A q \in Requests : RequestOfChain(q)' /\ AnswerOfChain(q)' /\ ClaimsKept(q)
    PROVE  ClaimsAgree'
<1> SUFFICES ASSUME NEW r \in Requests, NEW q \in Requests, req'[r].instance = req'[q].instance,
                    NEW a \in Claims(r)', NEW b \in Claims(q)'
             PROVE  a = b
  BY DEF ClaimsAgree
<1>1. CASE req'[r].instance \in DOMAIN db'.rt
  <2>1. ASSUME NEW x \in Requests, req'[x].instance = req'[r].instance, NEW c \in Claims(x)'
        PROVE  /\ c \in DOMAIN db'.at
               /\ db'.at[c].source = req'[r].instance \/ db'.rt[req'[r].instance].access = c
    <3>1. CASE req'[x].phase \in Running /\ req'[x].access = c
      <4>1. c \in DOMAIN db'.at /\ Attached(db', granted', req'[x].instance, c, req'[x].scope)
        BY <2>1, <3>1 DEF RequestOfChain, Claims
      <4>2. req'[r].instance \in BoundTo(db', c)
        BY <1>1, <2>1, <4>1 DEF Attached
      <4> QED
        BY <4>1, <4>2 DEF BoundTo
    <3>2. CASE req'[x].phase \in Committed /\ db'.at[c].token = req'[x].gotAccess
      <4>1. c \in DOMAIN db'.at /\ Traced(db', req'[x].instance, req'[x].gotAccess)
        BY <2>1, <3>2 DEF AnswerOfChain, Claims
      <4> QED
        BY <1>1, <2>1, <3>2, <4>1 DEF Traced
    <3> QED
      BY <2>1, <3>1, <3>2 DEF Claims
  <2> QED
    BY <1>1, <2>1, OneOfChain
<1>2. CASE req'[r].instance \notin DOMAIN db'.rt
  BY <1>2 DEF ClaimsKept, ClaimsAgree
<1> QED
  BY <1>1, <1>2

\* What requests have read survives the commit of another request.
LEMMA OthersKeep ==
    ASSUME IndInv, NEW q \in Requests, RequestOfChain(q), AnswerOfChain(q), req'[q] = req[q],
           Follows(db, db'), GrantsKept(granted, granted')
    PROVE  RequestOfChain(q)' /\ AnswerOfChain(q)' /\ ClaimsKept(q)
<1> DEFINE t == req[q].instance
<1>0. WellFormed(db) /\ granted \in [1 .. db.rtSeq -> SUBSET Scopes]
  BY DEF IndInv, TypeOK
<1>1. RequestOfChain(q)'
  <2> SUFFICES ASSUME req[q].phase \in Running
               PROVE  Attached(db', granted', t, req[q].access, req[q].scope)
    BY DEF RequestOfChain
  <2>1. Attached(db, granted, t, req[q].access, req[q].scope)
    BY DEF RequestOfChain
  <2> QED
    BY <1>0, <2>1, FollowsAttached
<1>2. AnswerOfChain(q)'
  <2> SUFFICES ASSUME req[q].phase \in Committed \cup {"paired"} \/ (req[q].phase = "read" /\ req[q].previous # NULL)
               PROVE  Traced(db', t, req[q].gotAccess)
    BY DEF AnswerOfChain
  <2>1. Traced(db, t, req[q].gotAccess)
    BY DEF AnswerOfChain
  <2> QED
    BY <1>0, <2>1, FollowsTraced
<1>3. Claims(q)' \subseteq Claims(q)
  <2> SUFFICES ASSUME NEW a \in Claims(q)' PROVE a \in Claims(q)
    OBVIOUS
  <2>0. a \in DOMAIN db'.at
    BY DEF Claims
  <2>1. CASE req[q].phase \in Running /\ req[q].access = a
    <3>1. a \in 0 .. db.atSeq /\ db.atSeq \in Nat
      BY <1>0, <2>1 DEF RequestOfChain, Attached, WellFormed, IsStore
    <3>2. a \in DOMAIN db.at
      BY <2>0, <3>1 DEF Follows
    <3> QED
      BY <2>1, <3>2 DEF Claims
  <2>2. CASE req[q].phase \in Committed /\ db'.at[a].token = req[q].gotAccess
    <3>1. req[q].gotAccess \in 0 .. db.strings /\ db.strings \in Nat
      BY <1>0, <2>2 DEF AnswerOfChain, Traced, WellFormed, IsStore
    <3>2. a \in DOMAIN db.at /\ db.at[a].token = db'.at[a].token
      BY <2>0, <2>2, <3>1 DEF Follows
    <3> QED
      BY <2>2, <3>2 DEF Claims
  <2> QED
    BY <2>1, <2>2 DEF Claims
<1> QED
  BY <1>1, <1>2, <1>3 DEF ClaimsKept

\* A commit keeps the invariant if it keeps the tables chained and settles its own request.
LEMMA CommitStep ==
    ASSUME IndInv, ChainInv, WellFormed(db'), Chained(db', granted'), Follows(db, db'),
           GrantsKept(granted, granted'),
           \A q \in Requests : \/ req'[q] = req[q]
                               \/ RequestOfChain(q)' /\ AnswerOfChain(q)' /\ ClaimsKept(q)
    PROVE  ChainInv'
<1>1. ASSUME NEW q \in Requests PROVE RequestOfChain(q)' /\ AnswerOfChain(q)' /\ ClaimsKept(q)
  <2>1. RequestOfChain(q) /\ AnswerOfChain(q)
    BY DEF ChainInv
  <2> QED
    BY <2>1, OthersKeep
<1>2. ClaimsAgree'
  BY <1>1, ClaimsStep DEF ChainInv, Chained
<1> QED
  BY <1>1, <1>2 DEF ChainInv, Chained

\* A step of one request that leaves the tables alone and obtains nothing new.
LEMMA StatementStep ==
    ASSUME IndInv, ChainInv, NEW r \in Requests, NEW row,
           req' = [req EXCEPT ![r] = row], UNCHANGED <<now, db, granted>>,
           row.phase \in Running => Attached(db, granted, row.instance, row.access, row.scope),
           row.phase \in Committed \cup {"paired"} \/ (row.phase = "read" /\ row.previous # NULL) =>
               Traced(db, row.instance, row.gotAccess),
           \/ row.instance \in DOMAIN db.rt
           \/ /\ row.instance = req[r].instance
              /\ row.phase \in Running => req[r].phase \in Running /\ row.access = req[r].access
              /\ row.phase \in Committed => req[r].phase \in Committed /\ row.gotAccess = req[r].gotAccess
    PROVE  ChainInv'
<1>1. req'[r] = row /\ \A q \in Requests \ {r} : req'[q] = req[q]
  BY DEF IndInv, TypeOK
<1>2. ASSUME NEW q \in Requests PROVE RequestOfChain(q)' /\ AnswerOfChain(q)' /\ ClaimsKept(q)
  <2>1. CASE q = r
    <3>1. RequestOfChain(q)' /\ AnswerOfChain(q)'
      BY <1>1, <2>1 DEF RequestOfChain, AnswerOfChain
    <3>2. ClaimsKept(q)
      BY <1>1, <2>1 DEF ClaimsKept, Claims
    <3> QED
      BY <3>1, <3>2
  <2>2. CASE q # r
    BY <1>1, <2>2 DEF ChainInv, RequestOfChain, AnswerOfChain, ClaimsKept, Claims
  <2> QED
    BY <2>1, <2>2
<1>3. ClaimsAgree'
  <2>1. WellFormed(db') /\ SourceSpent(db')
    BY DEF IndInv, ChainInv
  <2> QED
    BY <1>2, <2>1, ClaimsStep DEF ChainInv
<1> QED
  BY <1>2, <1>3 DEF ChainInv

\* Answering an error: nothing is promised about the request any more.
LEMMA ErrorChain ==
    ASSUME IndInv, ChainInv, NEW r \in Requests, NEW outcome \in Answered \ {"ok"}, Answer(r, outcome)
    PROVE  ChainInv'
<1> DEFINE row == Leave(req[r], outcome)
<1>1. req[r] \in Request
  BY DEF IndInv, TypeOK
<1>2. row.phase = outcome /\ row.instance = req[r].instance
  BY <1>1, LeaveFields
<1>3. req' = [req EXCEPT ![r] = row] /\ UNCHANGED <<now, db, granted>>
  BY DEF Answer
<1>4. outcome \notin Running \cup Committed \cup {"paired", "read"}
  BY DEF Answered, Running, Committed
<1> HIDE DEF row
<1> QED
  BY <1>2, <1>3, <1>4, StatementStep

\* The response names what save_bearer_token returned.
LEMMA RespondChain ==
    ASSUME IndInv, ChainInv, NEW r \in Requests, Respond(r)
    PROVE  ChainInv'
<1>1. CASE Answer(r, "ok")
  <2> DEFINE row == Leave(req[r], "ok")
  <2>1. req[r] \in Request /\ req[r].phase = "saved"
    BY DEF IndInv, TypeOK, Respond
  <2>2. /\ row.phase = "ok" /\ row.instance = req[r].instance
        /\ row.gotAccess = req[r].gotAccess
    BY <2>1, LeaveFields DEF Answered
  <2>3. Traced(db, req[r].instance, req[r].gotAccess)
    BY <2>1 DEF ChainInv, AnswerOfChain, Committed
  <2>4. req' = [req EXCEPT ![r] = row] /\ UNCHANGED <<now, db, granted>>
    BY <1>1 DEF Answer
  <2> HIDE DEF row
  <2> QED
    BY <2>1, <2>2, <2>3, <2>4, StatementStep DEF Running, Committed
<1>2. CASE Answer(r, "server_error")
  BY <1>2, ErrorChain DEF Answered
<1> QED
  BY <1>1, <1>2 DEF Respond

\* validate_refresh_token reads a refresh token with the access token bound to it.
LEMMA ValidateChain ==
    ASSUME IndInv, ChainInv, NEW r \in Requests, Validate(r)
    PROVE  ChainInv'
<1>0. PICK code \in 0 .. db.rtSeq, wanted \in SUBSET Scopes :
        \E t \in First(Candidates(code)) :
          req' = [req EXCEPT ![r] = [@ EXCEPT !.phase = "validated", !.code = code,
                    !.instance = t, !.access = db.rt[t].access, !.wanted = wanted,
                    !.scope = IF db.rt[t].access = NULL THEN {} ELSE db.at[db.rt[t].access].scope,
                    !.late = Dead(code)]]
  BY DEF Validate
<1>1. PICK t \in First(Candidates(code)) :
        req' = [req EXCEPT ![r] = [@ EXCEPT !.phase = "validated", !.code = code,
                  !.instance = t, !.access = db.rt[t].access, !.wanted = wanted,
                  !.scope = IF db.rt[t].access = NULL THEN {} ELSE db.at[db.rt[t].access].scope,
                  !.late = Dead(code)]]
  BY <1>0
<1> DEFINE a == db.rt[t].access
           scope == IF a = NULL THEN {} ELSE db.at[a].scope
           row == [req[r] EXCEPT !.phase = "validated", !.code = code, !.instance = t,
                      !.access = a, !.wanted = wanted, !.scope = scope, !.late = Dead(code)]
<1>2. t \in DOMAIN db.rt
  BY DEF First, Candidates
<1>3. a \in DOMAIN db.at \cup {NULL} /\ a \in 0 .. db.atSeq
  BY <1>2 DEF IndInv, WellFormed, ForeignKeys, IsStore, NULL
<1>9. t \in DOMAIN granted /\ NULL \notin DOMAIN db.at
  BY <1>2 DEF IndInv, TypeOK, IsStore, NULL
<1>4. /\ scope \subseteq granted[t]
      /\ a # NULL => /\ BoundTo(db, a) = {t}
                     /\ db.at[a].source # NULL => granted[db.at[a].source] = granted[t]
  <2>1. CASE a = NULL
    BY <2>1
  <2>2. CASE a # NULL
    <3>1. a \in DOMAIN db.at /\ t \in BoundTo(db, a)
      BY <1>2, <1>3, <2>2 DEF BoundTo
    <3>2. BoundTo(db, a) = {t}
      BY <1>2, <2>2, <3>1 DEF BoundTo, ChainInv, UniqueBinding
    <3> QED
      BY <2>2, <3>1, <3>2 DEF ChainInv, WithinGrants
  <2> QED
    BY <2>1, <2>2
<1> HIDE DEF scope
<1>5. Attached(db, granted, t, a, scope)
  BY <1>2, <1>3, <1>4, <1>9 DEF Attached
<1>6. req[r] \in Request
  BY DEF IndInv, TypeOK
<1>7. row.phase = "validated" /\ row.instance = t /\ row.access = a /\ row.scope = scope
  BY <1>6 DEF Request
<1>8. req' = [req EXCEPT ![r] = row] /\ UNCHANGED <<now, db, granted>>
  BY <1>1 DEF Validate, scope
<1> HIDE DEF row, a
<1> QED
  BY <1>2, <1>5, <1>7, <1>8, StatementStep DEF Committed

\* Settling the scopes: the original scopes come from the chain the request is of.
LEMMA GetOriginalScopesChain ==
    ASSUME IndInv, ChainInv, NEW r \in Requests, GetOriginalScopes(r)
    PROVE  ChainInv'
<1> DEFINE t == req[r].instance
           scope == IF req[r].wanted = {} THEN OriginalScope(r) ELSE req[r].wanted
           row == [req[r] EXCEPT !.phase = "scoped", !.scope = scope, !.expires = now + AccessLife]
<1>1. req[r] \in Request /\ req[r].phase = "validated"
  BY DEF IndInv, TypeOK, GetOriginalScopes
<1>2. Attached(db, granted, t, req[r].access, req[r].scope)
  BY <1>1 DEF ChainInv, RequestOfChain, Running
<1>3. OriginalScope(r) \subseteq granted[t]
  <2>1. CASE req[r].access = NULL
    <3>1. \A a \in SourcedBy(db, t) : db.at[a].scope \subseteq granted[t]
      <4>1. t # NULL
        BY <1>2 DEF Attached, IndInv, TypeOK, NULL
      <4> QED
        BY <4>1 DEF SourcedBy, ChainInv, WithinGrants
    <3>2. OriginalScope(r) = UNION {db.at[a].scope : a \in SourcedBy(db, t)}
      BY <2>1 DEF OriginalScope
    <3> QED
      BY <3>1, <3>2
  <2>2. CASE req[r].access # NULL
    BY <1>2, <2>2 DEF OriginalScope, Attached
  <2> QED
    BY <2>1, <2>2
<1>4. CASE req[r].wanted \subseteq OriginalScope(r)
  <2>1. scope \subseteq granted[t]
    BY <1>3, <1>4
  <2>2. req' = [req EXCEPT ![r] = row] /\ UNCHANGED <<now, db, granted>>
    BY <1>4 DEF GetOriginalScopes
  <2> HIDE DEF scope
  <2>3. row.phase = "scoped" /\ row.instance = t /\ row.access = req[r].access /\ row.scope = scope
    BY <1>1 DEF Request
  <2>4. Attached(db, granted, t, req[r].access, scope)
    BY <1>2, <2>1 DEF Attached
  <2> HIDE DEF row
  <2> QED
    BY <1>1, <2>2, <2>3, <2>4, StatementStep DEF Running, Committed
<1>5. CASE ~(req[r].wanted \subseteq OriginalScope(r))
  BY <1>5, ErrorChain DEF GetOriginalScopes, Answered
<1> QED
  BY <1>4, <1>5

\* Taking the lock reads nothing.
LEMMA LockInstanceChain ==
    ASSUME IndInv, ChainInv, NEW r \in Requests, LockInstance(r)
    PROVE  ChainInv'
<1> DEFINE row == [req[r] EXCEPT !.phase = "locked"]
<1>1. req[r] \in Request /\ req[r].phase = "scoped"
  BY DEF IndInv, TypeOK, LockInstance
<1>2. Attached(db, granted, req[r].instance, req[r].access, req[r].scope)
  BY <1>1 DEF ChainInv, RequestOfChain, Running
<1>3. /\ row.phase = "locked" /\ row.instance = req[r].instance /\ row.access = req[r].access
      /\ row.scope = req[r].scope
  BY <1>1 DEF Request
<1>4. CASE req' = [req EXCEPT ![r] = row] /\ UNCHANGED <<now, db, granted>>
  <2> HIDE DEF row
  <2> QED
    BY <1>1, <1>2, <1>3, <1>4, StatementStep DEF Running, Committed
<1>5. CASE Answer(r, "server_error")
  BY <1>5, ErrorChain DEF Answered
<1> QED
  BY <1>4, <1>5 DEF LockInstance

\* The access token read under the lock was obtained with the locked refresh token.
LEMMA ReadPreviousChain ==
    ASSUME IndInv, ChainInv, NEW r \in Requests, ReadPrevious(r)
    PROVE  ChainInv'
<1> DEFINE t == req[r].instance
           successors == SourcedBy(db, t)
<1>1. PICK a \in IF successors = {} THEN {NULL} ELSE First(successors) :
        req' = [req EXCEPT ![r] = [@ EXCEPT !.phase = "read", !.previous = a,
                  !.gotAccess = IF a = NULL THEN NULL ELSE db.at[a].token]]
  BY DEF ReadPrevious
<1> DEFINE got == IF a = NULL THEN NULL ELSE db.at[a].token
           row == [req[r] EXCEPT !.phase = "read", !.previous = a, !.gotAccess = got]
<1>2. req[r] \in Request /\ req[r].phase = "locked"
  BY DEF IndInv, TypeOK, ReadPrevious
<1>3. Attached(db, granted, t, req[r].access, req[r].scope)
  BY <1>2 DEF ChainInv, RequestOfChain, Running
<1>4. a # NULL => a \in DOMAIN db.at /\ db.at[a].source = t
  BY DEF First, SourcedBy
<1>5. a # NULL => Traced(db, t, got)
  <2>1. t \in 1 .. db.rtSeq
    BY <1>3 DEF Attached, IndInv, TypeOK
  <2> QED
    BY <1>4, <2>1 DEF Traced, ChainInv, DistinctStrings
<1> HIDE DEF got
<1>6. /\ row.phase = "read" /\ row.instance = t /\ row.access = req[r].access
      /\ row.scope = req[r].scope /\ row.previous = a /\ row.gotAccess = got
  BY <1>2 DEF Request
<1>7. req' = [req EXCEPT ![r] = row] /\ UNCHANGED <<now, db, granted>>
  BY <1>1 DEF ReadPrevious, got
<1> HIDE DEF row
<1> QED
  BY <1>2, <1>3, <1>5, <1>6, <1>7, StatementStep DEF Running, Committed

\* Reading the other string of the pair changes nothing about the first.
LEMMA ReadPairChain ==
    ASSUME IndInv, ChainInv, NEW r \in Requests, ReadPair(r)
    PROVE  ChainInv'
<1>1. CASE Answer(r, "server_error")
  BY <1>1, ErrorChain DEF Answered
<1>2. ASSUME NEW string, req' = [req EXCEPT ![r] = [@ EXCEPT !.phase = "paired", !.gotRefresh = string]],
             UNCHANGED <<now, db, granted>>
      PROVE  ChainInv'
  <2> DEFINE row == [req[r] EXCEPT !.phase = "paired", !.gotRefresh = string]
  <2>1. req[r] \in Request /\ req[r].phase = "read" /\ req[r].previous # NULL
    BY DEF IndInv, TypeOK, ReadPair
  <2>2. /\ row.phase = "paired" /\ row.instance = req[r].instance /\ row.access = req[r].access
        /\ row.scope = req[r].scope /\ row.gotAccess = req[r].gotAccess
    BY <2>1 DEF Request
  <2>3. /\ Attached(db, granted, req[r].instance, req[r].access, req[r].scope)
        /\ Traced(db, req[r].instance, req[r].gotAccess)
    BY <2>1 DEF ChainInv, RequestOfChain, AnswerOfChain, Running
  <2>4. req' = [req EXCEPT ![r] = row]
    BY <1>2
  <2> HIDE DEF row
  <2> QED
    BY <1>2, <2>1, <2>2, <2>3, <2>4, StatementStep DEF Running, Committed
<1> QED
  BY <1>1, <1>2 DEF ReadPair
-----------------------------------------------------------------------------
\* A transaction of several row operations leaves what each of them leaves.
LEMMA FollowsTransitive ==
    ASSUME NEW S, WellFormed(S), NEW D, Follows(S, D), NEW E, Follows(D, E)
    PROVE  Follows(S, E)
<1>0. /\ S.atSeq \in Nat /\ S.rtSeq \in Nat
      /\ \A a \in DOMAIN S.at : a \in Nat /\ a <= S.atSeq
      /\ \A t \in DOMAIN S.rt : t \in Nat /\ t <= S.rtSeq
      /\ \A a \in DOMAIN S.at : S.at[a].source \in DOMAIN S.rt \cup {NULL}
      /\ \A t \in DOMAIN S.rt : S.rt[t].access \in DOMAIN S.at \cup {NULL}
  BY DEF WellFormed, IsStore, ForeignKeys
<1>1. /\ S.atSeq <= E.atSeq /\ S.strings <= E.strings /\ S.rtSeq <= E.rtSeq
      /\ S.strings \in Nat /\ E.strings \in Nat /\ D.strings \in Nat /\ S.strings <= D.strings
      /\ E.atSeq \in Nat /\ D.atSeq \in Nat /\ S.atSeq <= D.atSeq
      /\ E.rtSeq \in Nat /\ D.rtSeq \in Nat /\ S.rtSeq <= D.rtSeq
  BY DEF Follows
<1>4. \A t \in DOMAIN S.rt : t \in DOMAIN E.rt => t \in DOMAIN D.rt
  BY <1>0, <1>1 DEF Follows
<1> DEFINE Kept(a) ==
             /\ \/ /\ a \in DOMAIN S.at
                   /\ \/ E.at[a].source = S.at[a].source
                      \/ E.at[a].source = NULL /\ S.at[a].source \notin DOMAIN E.rt
                \/ a \in Nat /\ a > S.atSeq
             /\ \/ a \in DOMAIN S.at /\ E.at[a].token = S.at[a].token
                \/ E.at[a].token \in Nat /\ E.at[a].token > S.strings
           Source(a) ==
                \/ E.at[a].source = D.at[a].source
                \/ E.at[a].source = NULL /\ D.at[a].source \notin DOMAIN E.rt
<1>2. ASSUME NEW a \in DOMAIN E.at PROVE Kept(a)
  <2>1. CASE a \in Nat /\ a > D.atSeq
    <3>1. a > S.atSeq
      BY <1>0, <1>1, <2>1
    <3>2. \/ a \in DOMAIN D.at /\ E.at[a].token = D.at[a].token
          \/ E.at[a].token \in Nat /\ E.at[a].token > D.strings
      BY DEF Follows
    <3>3. \/ a \in DOMAIN S.at /\ E.at[a].token = S.at[a].token
          \/ E.at[a].token \in Nat /\ E.at[a].token > S.strings
      BY <1>1, <3>2 DEF Follows
    <3> QED
      BY <2>1, <3>1, <3>3
  <2>2. CASE a \in DOMAIN D.at /\ Source(a)
    <3>1. \/ a \in DOMAIN D.at /\ E.at[a].token = D.at[a].token
          \/ E.at[a].token \in Nat /\ E.at[a].token > D.strings
      BY DEF Follows
    <3>2. \/ a \in DOMAIN S.at /\ E.at[a].token = S.at[a].token
          \/ E.at[a].token \in Nat /\ E.at[a].token > S.strings
      BY <1>1, <2>2, <3>1 DEF Follows
    <3>3. CASE a \in Nat /\ a > S.atSeq
      BY <3>2, <3>3
    <3>4. CASE a \in DOMAIN S.at /\ D.at[a].source = S.at[a].source
      BY <2>2, <3>2, <3>4
    <3>5. CASE a \in DOMAIN S.at /\ D.at[a].source = NULL /\ S.at[a].source \notin DOMAIN D.rt
      <4>1. E.at[a].source = NULL
        BY <2>2, <3>5
      <4>2. S.at[a].source = NULL \/ S.at[a].source \notin DOMAIN E.rt
        BY <1>0, <1>4, <3>5
      <4> QED
        BY <3>2, <3>5, <4>1, <4>2
    <3> QED
      BY <2>2, <3>3, <3>4, <3>5 DEF Follows
  <2>3. (a \in Nat /\ a > D.atSeq) \/ (a \in DOMAIN D.at /\ Source(a))
    BY DEF Follows
  <2> HIDE DEF Kept, Source
  <2> QED
    BY <2>1, <2>2, <2>3
<1>3. ASSUME NEW t \in DOMAIN E.rt
      PROVE  \/ /\ t \in DOMAIN S.rt /\ E.rt[t].access \in {NULL, S.rt[t].access}
                /\ S.rt[t].access \in DOMAIN E.at => E.rt[t].access = S.rt[t].access
             \/ /\ t \in Nat /\ t > S.rtSeq
                /\ E.rt[t].access # NULL => E.rt[t].access \in Nat /\ E.rt[t].access > S.atSeq
  <2>1. CASE t \in Nat /\ t > D.rtSeq
    <3>1. t > S.rtSeq /\ t \notin DOMAIN S.rt
      BY <1>0, <1>1, <2>1
    <3>2. E.rt[t].access # NULL => E.rt[t].access \in Nat /\ E.rt[t].access > S.atSeq
      BY <1>0, <1>1, <3>1 DEF Follows
    <3> QED
      BY <2>1, <3>1, <3>2
  <2>2. CASE t \in DOMAIN D.rt /\ E.rt[t].access \in {NULL, D.rt[t].access}
             /\ (D.rt[t].access \in DOMAIN E.at => E.rt[t].access = D.rt[t].access)
    <3>1. CASE t \in DOMAIN S.rt /\ D.rt[t].access \in {NULL, S.rt[t].access}
               /\ (S.rt[t].access \in DOMAIN D.at => D.rt[t].access = S.rt[t].access)
      <4>1. S.rt[t].access \in DOMAIN E.at /\ S.rt[t].access # NULL => S.rt[t].access \in DOMAIN D.at
        BY <1>0, <1>1, <3>1 DEF Follows
      <4> QED
        BY <2>2, <3>1, <4>1
    <3>2. CASE t \in Nat /\ t > S.rtSeq
               /\ (D.rt[t].access # NULL => D.rt[t].access \in Nat /\ D.rt[t].access > S.atSeq)
      BY <2>2, <3>2
    <3> QED
      BY <2>2, <3>1, <3>2 DEF Follows
  <2> QED
    BY <2>1, <2>2 DEF Follows
<1> QED
  BY <1>0, <1>1, <1>2, <1>3 DEF Follows

\* The request that commits successfully.
LEMMA SucceedRow ==
    ASSUME IndInv, NEW r \in Requests, NEW access, NEW refresh, Succeed(r, access, refresh)
    PROVE  /\ req'[r].phase = "saved" /\ req'[r].instance = req[r].instance
           /\ req'[r].gotAccess = access /\ req'[r].gotRefresh = refresh /\ req'[r].late = req[r].late
           /\ \A q \in Requests \ {r} : req'[q] = req[q]
<1>1. req[r] \in Request /\ req \in [Requests -> Request]
  BY DEF IndInv, TypeOK
<1>2. req'[r] = [Leave(req[r], "saved") EXCEPT !.gotAccess = access, !.gotRefresh = refresh]
      /\ \A q \in Requests \ {r} : req'[q] = req[q]
  BY <1>1 DEF Succeed
<1>3. /\ Leave(req[r], "saved") \in Request /\ Leave(req[r], "saved").phase = "saved"
      /\ Leave(req[r], "saved").instance = req[r].instance /\ Leave(req[r], "saved").late = req[r].late
  BY <1>1, LeaveFields
<1> QED
  BY <1>2, <1>3 DEF Request

\* A successful answer is of its chain if the access token it names is.
LEMMA SucceedChain ==
    ASSUME IndInv, NEW r \in Requests, NEW access, NEW refresh, Succeed(r, access, refresh),
           Traced(db', req[r].instance, access),
           \/ req[r].instance \in DOMAIN db'.rt
           \/ \A a \in DOMAIN db'.at : db'.at[a].token = access => a \in Claims(r)
    PROVE  /\ RequestOfChain(r)' /\ AnswerOfChain(r)' /\ ClaimsKept(r)
           /\ \A q \in Requests \ {r} : req'[q] = req[q]
<1>1. /\ req'[r].phase = "saved" /\ req'[r].instance = req[r].instance /\ req'[r].gotAccess = access
      /\ \A q \in Requests \ {r} : req'[q] = req[q]
  BY SucceedRow
<1>2. RequestOfChain(r)'
  BY <1>1 DEF RequestOfChain, Running
<1>3. AnswerOfChain(r)'
  BY <1>1 DEF AnswerOfChain
<1>4. ClaimsKept(r)
  BY <1>1 DEF ClaimsKept, Claims, Running
<1> QED
  BY <1>1, <1>2, <1>3, <1>4

\* Without rotation: the access token still there is the one that was bound to the instance,
\* and if the instance is gone nothing else is bound to it.
LEMMA ReuseAccessChain ==
    ASSUME IndInv, ChainInv, NEW r \in Requests, ReuseAccess(r)
    PROVE  ChainInv'
<1> DEFINE a == req[r].access
           t == req[r].instance
<1>1. CASE a \in DOMAIN db.at
  <2>1. /\ db' = UpdateAccess(db, a, req[r].scope, req[r].expires)
        /\ Succeed(r, db.strings + 1, req[r].code)
        /\ UNCHANGED <<now, granted, rev>> /\ req[r].phase = "scoped"
    BY <1>1 DEF ReuseAccess
  <2>2. Attached(db, granted, t, a, req[r].scope)
    BY <2>1 DEF ChainInv, RequestOfChain, Running
  <2>4. /\ req[r].scope \in SUBSET Scopes /\ req[r].expires \in Nat /\ WellFormed(db)
        /\ Chained(db, granted) /\ t \in 1 .. db.rtSeq
    BY <2>2 DEF IndInv, TypeOK, Request, ChainInv, Chained, Attached
  <2>5. Chained(db', granted) /\ Follows(db, db') /\ Traced(db', t, db'.strings)
    BY <1>1, <2>1, <2>2, <2>4, ReissueChained
  <2>6. db'.strings = db.strings + 1 /\ DOMAIN db'.at = DOMAIN db.at /\ db'.at[a].token = db'.strings
        /\ WellFormed(db')
    <3>1. AccessUpdated(db, db', a, req[r].scope) /\ WellFormed(db')
      <4> HIDE DEF a
      <4> QED
        BY <1>1, <2>1, <2>4, UpdateAccessWellFormed
    <3>2. db'.at = [db.at EXCEPT ![a] = [token |-> db'.strings, scope |-> req[r].scope,
                                         expires |-> req[r].expires, source |-> db.at[a].source]]
      <4> HIDE DEF a
      <4> QED
        BY <1>1, <2>1, <2>4, UpdateAccessRow DEF WellFormed
    <3>3. db'.strings = db.strings + 1
      BY <2>1, <2>4 DEF UpdateAccess, WellFormed, IsStore
    <3> QED
      BY <1>1, <3>1, <3>2, <3>3
  <2>9. \A b \in DOMAIN db'.at : db'.at[b].token = db'.strings => b \in Claims(r)
    <3>1. a \in Claims(r)
      BY <1>1, <2>1 DEF Claims, Running
    <3> QED
      BY <1>1, <2>5, <2>6, <3>1 DEF Chained, DistinctStrings
  <2>7. /\ RequestOfChain(r)' /\ AnswerOfChain(r)' /\ ClaimsKept(r)
        /\ \A q \in Requests \ {r} : req'[q] = req[q]
    BY <2>1, <2>5, <2>6, <2>9, SucceedChain
  <2>8. granted' = granted /\ GrantsKept(granted, granted')
    BY <2>1 DEF GrantsKept
  <2> QED
    BY <2>5, <2>6, <2>7, <2>8, CommitStep
<1>2. CASE a \notin DOMAIN db.at
  BY <1>2, ErrorChain DEF ReuseAccess, Answered
<1> QED
  BY <1>1, <1>2

\* The exchange, as the row operations it consists of.
NewSuccessor(A, scope, source) ==
    /\ A.at[A.atSeq].token = A.strings /\ A.at[A.atSeq].scope = scope /\ A.at[A.atSeq].source = source

ExchangeCommits(r, t, R, A) ==
    /\ t \in DOMAIN db.rt /\ SourcedBy(db, t) = {} /\ req[r].scope \subseteq granted[t]
    /\ WellFormed(R) /\ Shrinks(db, R) /\ R.rt[t].revoked # NULL
    /\ AccessCreated(R, A, t) /\ NewSuccessor(A, req[r].scope, t)
    /\ \E refresh \in Nat :
          /\ Rotate => refresh = A.rtSeq + 1
          /\ ~Rotate => refresh = req[r].code
          /\ RefreshCreated(A, db', refresh, A.atSeq)
          /\ Succeed(r, A.strings, refresh)
    /\ WellFormed(db')
    /\ granted' = Insert(granted, db.rtSeq + 1, granted[t])
    /\ UNCHANGED <<now, rev>>

\* save_bearer_token, when nothing the refresh token was exchanged for lives.
LEMMA IssueFreshTables ==
    ASSUME IndInv, ChainInv, NEW r \in Requests, IssueFresh(r), NEW t, t = req[r].instance,
           NEW R, R = RevokeRefresh(db, {t}, now),
           NEW A, A = CreateAccess(R, req[r].scope, req[r].expires, t)
    PROVE  ExchangeCommits(r, t, R, A)
<1>1. PICK refresh : refresh = IF Rotate THEN A.rtSeq + 1 ELSE req[r].code
  OBVIOUS
<1>2. /\ db' = CreateRefresh(A, refresh, A.atSeq)
      /\ Succeed(r, A.strings, refresh)
      /\ granted' = Insert(granted, A.rtSeq + 1, granted[t])
      /\ UNCHANGED <<now, rev>>
      /\ req[r].phase = "read" /\ req[r].previous = NULL
  BY <1>1 DEF IssueFresh
<1>3. t \in DOMAIN db.rt /\ SourcedBy(db, t) = {}
  BY <1>2 DEF IndInv, LockedRowExists, PreviousStillAbsent, InTransaction
<1>4. req[r].scope \subseteq granted[t]
  BY <1>2 DEF ChainInv, RequestOfChain, Running, Attached
<1>5. WellFormed(db) /\ UniqueBinding(db) /\ now \in Nat /\ now # NULL
  BY DEF IndInv, TypeOK, ChainInv, NULL
<1>6. Shrinks(db, R)
  BY <1>5, RevokeRefreshShrinks
<1>7. WellFormed(R) /\ R.rt[t].revoked # NULL
  BY <1>3, <1>5, RevokeRefreshFields
<1>8. \A a \in DOMAIN R.at : R.at[a].source # t
  <2>1. \A a \in DOMAIN R.at : a \in DOMAIN db.at /\ R.at[a] = db.at[a]
    BY <1>6 DEF Shrinks
  <2> QED
    BY <1>3, <2>1 DEF SourcedBy
<1>9. /\ req[r].scope \in SUBSET Scopes /\ req[r].expires \in Nat /\ req[r].code \in Nat
      /\ t \in Nat /\ t \in DOMAIN R.rt \cup {NULL}
  BY <1>3, <1>6 DEF IndInv, TypeOK, Request, IsStore, Shrinks
<1>10. WellFormed(A) /\ AccessCreated(R, A, t)
  BY <1>7, <1>8, <1>9, CreateAccessWellFormed
<1>11. A.at[A.atSeq] = [token |-> A.strings, scope |-> req[r].scope,
                        expires |-> req[r].expires, source |-> t]
  <2>1. IsStore(R)
    BY <1>7 DEF WellFormed
  <2> QED
    BY <2>1, CreateAccessRow
<1>12. A.atSeq \in DOMAIN A.at /\ A.atSeq \in Nat /\ A.rtSeq = db.rtSeq /\ A.rtSeq \in Nat
  BY <1>6, <1>10 DEF WellFormed, IsStore, AccessCreated, Shrinks
<1>13. refresh \in Nat
  BY <1>1, <1>9, <1>12
<1>14. WellFormed(db') /\ RefreshCreated(A, db', refresh, A.atSeq)
  BY <1>2, <1>10, <1>12, <1>13, CreateRefreshWellFormed
<1>15. NewSuccessor(A, req[r].scope, t)
  BY <1>11 DEF NewSuccessor
<1>16. granted' = Insert(granted, db.rtSeq + 1, granted[t])
  BY <1>2, <1>12
<1>17. (Rotate => refresh = A.rtSeq + 1) /\ (~Rotate => refresh = req[r].code)
  BY <1>1
<1> QED
  BY <1>2, <1>3, <1>4, <1>6, <1>7, <1>10, <1>13, <1>14, <1>15, <1>16, <1>17 DEF ExchangeCommits

\* What the exchange leaves in the tables, seen from the tables it found.
LEMMA ExchangeRows ==
    ASSUME IndInv, NEW r, NEW t, NEW R, NEW A, ExchangeCommits(r, t, R, A)
    PROVE  /\ DOMAIN db'.rt = DOMAIN db.rt \cup {db.rtSeq + 1} /\ db.rtSeq + 1 \notin DOMAIN db.rt
           /\ db'.rtSeq = db.rtSeq + 1 /\ A.rtSeq = db.rtSeq
           /\ \A u \in DOMAIN db.rt : db'.rt[u] = R.rt[u] /\ db'.rt[u].token = db.rt[u].token
           /\ db'.rt[db.rtSeq + 1].access = A.atSeq /\ db'.rt[db.rtSeq + 1].revoked = NULL
           /\ A.atSeq \in DOMAIN db'.at /\ db'.at[A.atSeq].token = A.strings
           /\ A.strings = db'.strings /\ A.strings \in Nat \ {0}
<1>1. PICK refresh \in Nat : RefreshCreated(A, db', refresh, A.atSeq)
  BY DEF ExchangeCommits
<1>2. Shrinks(db, R) /\ AccessCreated(R, A, t) /\ A.at[A.atSeq].token = A.strings
  BY DEF ExchangeCommits, NewSuccessor
<1>3. db.atSeq \in Nat /\ db.rtSeq \in Nat /\ db.strings \in Nat
  BY DEF IndInv, TypeOK, IsStore
<1>4. /\ A.rt = R.rt /\ A.rtSeq = db.rtSeq /\ A.atSeq = db.atSeq + 1
      /\ DOMAIN A.at = DOMAIN R.at \cup {A.atSeq} /\ A.strings = db.strings + 1
      /\ DOMAIN R.rt = DOMAIN db.rt /\ \A u \in DOMAIN db.rt : R.rt[u].token = db.rt[u].token
  BY <1>2 DEF Shrinks, AccessCreated
<1>5. /\ db'.at = A.at /\ db'.rtSeq = A.rtSeq + 1 /\ db'.strings = A.strings
      /\ DOMAIN db'.rt = DOMAIN A.rt \cup {db'.rtSeq} /\ db'.rtSeq \notin DOMAIN A.rt
      /\ db'.rt[db'.rtSeq].access = A.atSeq
      /\ db'.rt[db'.rtSeq].revoked = NULL /\ \A u \in DOMAIN A.rt : db'.rt[u] = A.rt[u]
  BY <1>1 DEF RefreshCreated
<1> QED
  BY <1>1, <1>2, <1>3, <1>4, <1>5

\* The exchange hands on the grant.
LEMMA ExchangeChained ==
    ASSUME IndInv, ChainInv, NEW r, NEW t, NEW R, NEW A, ExchangeCommits(r, t, R, A)
    PROVE  Chained(db', granted') /\ Follows(db, db') /\ GrantsKept(granted, granted')
<1>1. /\ t \in DOMAIN db.rt /\ req[r].scope \subseteq granted[t]
      /\ WellFormed(R) /\ Shrinks(db, R) /\ R.rt[t].revoked # NULL /\ AccessCreated(R, A, t)
      /\ NewSuccessor(A, req[r].scope, t)
      /\ granted' = Insert(granted, db.rtSeq + 1, granted[t])
  BY DEF ExchangeCommits
<1>2. PICK refresh : RefreshCreated(A, db', refresh, A.atSeq)
  BY DEF ExchangeCommits
<1>3. WellFormed(db) /\ Chained(db, granted) /\ granted \in [1 .. db.rtSeq -> SUBSET Scopes]
  BY DEF IndInv, TypeOK, ChainInv, Chained
<1>4. Chained(R, granted) /\ Follows(db, R) /\ R.rtSeq = db.rtSeq /\ t \in DOMAIN R.rt
  BY <1>1, <1>3, ShrinkChained DEF Shrinks
<1>5. A.at[A.atSeq].token = A.strings /\ A.at[A.atSeq].scope \subseteq granted[t]
  BY <1>1 DEF NewSuccessor
<1>6. /\ Inherits(R, granted, t, granted[t]) /\ granted \in [1 .. R.rtSeq -> SUBSET Scopes]
      /\ granted' = Insert(granted, R.rtSeq + 1, granted[t])
  BY <1>1, <1>3, <1>4 DEF Inherits
<1>7. Chained(db', granted') /\ Follows(R, db') /\ GrantsKept(granted, granted')
  BY <1>1, <1>2, <1>4, <1>5, <1>6, PairChained
<1>8. Follows(db, db')
  BY <1>3, <1>4, <1>7, FollowsTransitive
<1> QED
  BY <1>7, <1>8

\* The exchange answers with the access token it creates.
LEMMA IssueFreshChain ==
    ASSUME IndInv, ChainInv, NEW r \in Requests, IssueFresh(r)
    PROVE  ChainInv'
<1>1. PICK t, R : t = req[r].instance /\ R = RevokeRefresh(db, {t}, now)
  OBVIOUS
<1>2. PICK A : A = CreateAccess(R, req[r].scope, req[r].expires, t)
  OBVIOUS
<1>3. ExchangeCommits(r, t, R, A)
  BY <1>1, <1>2, IssueFreshTables
<1>4. /\ t \in DOMAIN db.rt /\ AccessCreated(R, A, t) /\ WellFormed(db')
      /\ A.at[A.atSeq].token = A.strings /\ A.at[A.atSeq].source = t
  BY <1>3 DEF ExchangeCommits, NewSuccessor
<1>5. PICK refresh : RefreshCreated(A, db', refresh, A.atSeq) /\ Succeed(r, A.strings, refresh)
  BY <1>3 DEF ExchangeCommits
<1>6. Chained(db', granted') /\ Follows(db, db') /\ GrantsKept(granted, granted')
  BY <1>3, ExchangeChained
<1>7. t \in DOMAIN db'.rt
  BY <1>3, <1>4, ExchangeRows
<1>8. Traced(db', t, A.strings)
  <2>1. /\ db'.at = A.at /\ db'.strings = A.strings /\ A.atSeq \in DOMAIN A.at
    BY <1>4, <1>5 DEF AccessCreated, RefreshCreated
  <2>2. t \in 1 .. db'.rtSeq /\ A.strings \in 0 .. db'.strings
    BY <1>4, <1>6, <1>7, <2>1 DEF Follows, WellFormed, IsStore
  <2>3. \A a \in DOMAIN db'.at : db'.at[a].token = A.strings => a = A.atSeq
    BY <1>4, <1>6, <2>1 DEF Chained, DistinctStrings
  <2> QED
    BY <1>4, <2>1, <2>2, <2>3 DEF Traced
<1>9. /\ RequestOfChain(r)' /\ AnswerOfChain(r)' /\ ClaimsKept(r)
      /\ \A q \in Requests \ {r} : req'[q] = req[q]
  BY <1>1, <1>5, <1>7, <1>8, SucceedChain
<1> QED
  BY <1>4, <1>6, <1>9, CommitStep

\* Answering with the previous pair spends the token presented; the answer was traced to
\* it when it was read.
LEMMA AnswerPreviousChain ==
    ASSUME IndInv, ChainInv, NEW r \in Requests, AnswerPrevious(r)
    PROVE  ChainInv'
<1>1. /\ db' = RevokeRefresh(db, {req[r].instance}, now) /\ UNCHANGED granted
      /\ Succeed(r, req[r].gotAccess, req[r].gotRefresh) /\ req[r].phase = "paired"
  BY DEF AnswerPrevious
<1>2. WellFormed(db) /\ UniqueBinding(db) /\ now \in Nat /\ Chained(db, granted)
  BY DEF IndInv, TypeOK, ChainInv, Chained
<1>3. Shrinks(db, db') /\ WellFormed(db')
  BY <1>1, <1>2, RevokeRefreshShrinks, RevokeRefreshFields
<1>4. Chained(db', granted) /\ Follows(db, db')
  BY <1>2, <1>3, ShrinkChained
<1>5. Traced(db, req[r].instance, req[r].gotAccess)
  BY <1>1 DEF ChainInv, AnswerOfChain
<1>6. Traced(db', req[r].instance, req[r].gotAccess)
  BY <1>2, <1>4, <1>5, FollowsTraced
<1>7. req[r].instance \in DOMAIN db'.rt
  <2>1. req[r].instance \in DOMAIN db.rt
    BY <1>1 DEF IndInv, LockedRowExists, InTransaction
  <2> QED
    BY <1>3, <2>1 DEF Shrinks
<1>8. /\ RequestOfChain(r)' /\ AnswerOfChain(r)' /\ ClaimsKept(r)
      /\ \A q \in Requests \ {r} : req'[q] = req[q]
  BY <1>1, <1>6, <1>7, SucceedChain
<1>9. granted' = granted /\ GrantsKept(granted, granted')
  BY <1>1 DEF GrantsKept
<1> QED
  BY <1>3, <1>4, <1>8, <1>9, CommitStep

\* A grant by another flow starts a chain, or creates an access token outside of any.
LEMMA IssueTokensChained ==
    ASSUME IndInv, ChainInv, NEW scope \in SUBSET Scopes, IssueTokens(scope)
    PROVE  /\ Chained(db', granted') /\ Follows(db, db') /\ GrantsKept(granted, granted')
           /\ WellFormed(db')
           /\ \/ db'.rt = db.rt /\ db'.rtSeq = db.rtSeq
              \/ /\ DOMAIN db'.rt = DOMAIN db.rt \cup {db.rtSeq + 1} /\ db'.rtSeq = db.rtSeq + 1
                 /\ db'.rt[db.rtSeq + 1].token = db.rtSeq + 1
                 /\ db'.rt[db.rtSeq + 1].revoked = NULL
                 /\ \A t \in DOMAIN db.rt : db'.rt[t] = db.rt[t]
<1>1. PICK A : A = CreateAccess(db, scope, now + AccessLife, NULL)
  OBVIOUS
<1>2. now + AccessLife \in Nat /\ NULL \in Nat /\ WellFormed(db) /\ NULL \in DOMAIN db.rt \cup {NULL}
      /\ Chained(db, granted) /\ granted \in [1 .. db.rtSeq -> SUBSET Scopes]
  BY RefreshAssumption DEF IndInv, TypeOK, NULL, ChainInv, Chained
<1>3. WellFormed(A) /\ AccessCreated(db, A, NULL)
  BY <1>1, <1>2, CreateAccessWellFormed
<1>4. A.at[A.atSeq].token = A.strings /\ A.at[A.atSeq].scope = scope
  <2>1. A.at[A.atSeq] = [token |-> A.strings, scope |-> scope,
                         expires |-> now + AccessLife, source |-> NULL]
    BY <1>1, <1>2, CreateAccessRow DEF WellFormed
  <2> QED
    BY <2>1
<1>5. CASE db' = A /\ UNCHANGED granted
  <2>1. Chained(db', granted) /\ Follows(db, db')
    BY <1>2, <1>3, <1>4, <1>5, AloneChained
  <2>2. granted' = granted /\ GrantsKept(granted, granted')
    BY <1>5 DEF GrantsKept
  <2> QED
    BY <1>3, <1>5, <2>1, <2>2 DEF AccessCreated
<1>6. CASE db' = CreateRefresh(A, A.rtSeq + 1, A.atSeq) /\ granted' = Insert(granted, A.rtSeq + 1, scope)
  <2>1. /\ A.atSeq \in DOMAIN A.at /\ A.atSeq \in Nat /\ A.rtSeq = db.rtSeq /\ A.rtSeq + 1 \in Nat
        /\ A.rt = db.rt
    BY <1>3 DEF AccessCreated, WellFormed, IsStore
  <2>2. RefreshCreated(A, db', A.rtSeq + 1, A.atSeq) /\ WellFormed(db')
    BY <1>3, <1>6, <2>1, CreateRefreshWellFormed
  <2>3. granted' = Insert(granted, db.rtSeq + 1, scope)
    BY <1>6, <2>1
  <2>4. Inherits(db, granted, NULL, scope) /\ A.at[A.atSeq].scope \subseteq scope
    BY <1>4 DEF Inherits
  <2>5. Chained(db', granted') /\ Follows(db, db') /\ GrantsKept(granted, granted')
    BY <1>2, <1>3, <1>4, <2>2, <2>3, <2>4, PairChained
  <2> QED
    BY <2>1, <2>2, <2>5 DEF RefreshCreated
<1> QED
  BY <1>1, <1>5, <1>6 DEF IssueTokens

\* No request has anything to do with it.
LEMMA IssueTokensChain ==
    ASSUME IndInv, ChainInv, NEW scope \in SUBSET Scopes, IssueTokens(scope)
    PROVE  ChainInv'
<1>1. \A q \in Requests : req'[q] = req[q]
  BY DEF IssueTokens
<1> QED
  BY <1>1, IssueTokensChained, CommitStep

\* Revoking either kind of token only takes away.
LEMMA RevocationsChain ==
    ASSUME IndInv, ChainInv, WellFormed(db'), Shrinks(db, db'), UNCHANGED <<req, granted>>
    PROVE  ChainInv'
<1>1. WellFormed(db) /\ Chained(db, granted)
  BY DEF IndInv, ChainInv, Chained
<1>2. Chained(db', granted) /\ Follows(db, db')
  BY <1>1, ShrinkChained
<1>3. granted' = granted /\ GrantsKept(granted, granted') /\ \A q \in Requests : req'[q] = req[q]
  BY DEF GrantsKept
<1> QED
  BY <1>2, <1>3, CommitStep

\* What the revocation endpoint and AuthorizedTokenDeleteView do to the tables.
LEMMA RevocationsShrink ==
    ASSUME IndInv, ChainInv
    PROVE  /\ \A a : RevokeAccessToken(a) => Shrinks(db, db')
           /\ \A v \in Revocations : RevokeRefreshToken(v) => Shrinks(db, db')
<1>1. WellFormed(db) /\ UniqueBinding(db) /\ now \in Nat
  BY DEF IndInv, TypeOK, ChainInv
<1>2. ASSUME NEW a, RevokeAccessToken(a) PROVE Shrinks(db, db')
  BY <1>1, <1>2, DeleteAccessShrinks DEF RevokeAccessToken
<1>3. ASSUME NEW v \in Revocations, RevokeRefreshToken(v) PROVE Shrinks(db, db')
  <2>1. UNCHANGED db \/ \E t \in rev[v].rows : db' = RevokeRefresh(db, {t}, now)
    BY <1>3 DEF RevokeRefreshToken, LookUpRefresh, RevokeRow, AnswerRevocation
  <2>2. CASE UNCHANGED db
    BY <1>1, <2>2 DEF Shrinks, WellFormed, ForeignKeys
  <2>3. CASE \E t \in rev[v].rows : db' = RevokeRefresh(db, {t}, now)
    BY <1>1, <2>3, RevokeRefreshShrinks
  <2> QED
    BY <2>1, <2>2, <2>3
<1> QED
  BY <1>2, <1>3

\* Every action keeps what requests know of their chains.
LEMMA NextChain == IndInv /\ ChainInv /\ [Next]_vars => ChainInv'
<1> SUFFICES ASSUME IndInv, ChainInv, [Next]_vars PROVE ChainInv'
  OBVIOUS
<1>0. WellFormed(db')
  BY NextInv DEF IndInv
<1>1. ASSUME NEW r \in Requests, Step(r) PROVE ChainInv'
  <2>1. CASE Refuse(r)
    BY <2>1, ErrorChain DEF Refuse, Answered
  <2> QED
    BY <1>1, <2>1, ValidateChain, GetOriginalScopesChain, ReuseAccessChain, LockInstanceChain,
       ReadPreviousChain, IssueFreshChain, ReadPairChain, AnswerPreviousChain, RespondChain DEF Step
<1>2. ASSUME Environment PROVE ChainInv'
  <2>1. CASE \E scope \in SUBSET Scopes : IssueTokens(scope)
    BY <2>1, IssueTokensChain
  <2>2. ASSUME NEW a, RevokeAccessToken(a) PROVE ChainInv'
    BY <1>0, <2>2, RevocationsShrink, RevocationsChain DEF RevokeAccessToken
  <2>3. ASSUME NEW v \in Revocations, RevokeRefreshToken(v) PROVE ChainInv'
    <3>1. UNCHANGED <<req, granted>>
      BY <2>3 DEF RevokeRefreshToken, LookUpRefresh, RevokeRow, AnswerRevocation
    <3> QED
      BY <1>0, <2>3, <3>1, RevocationsShrink, RevocationsChain
  <2>4. CASE Tick
    BY <2>4 DEF Tick, ChainInv, RequestOfChain, AnswerOfChain, ClaimsAgree, Claims
  <2> QED
    BY <1>2, <2>1, <2>2, <2>3, <2>4 DEF Environment, AuthorizedTokenDelete
<1>3. CASE UNCHANGED vars
  BY <1>3 DEF vars, ChainInv, RequestOfChain, AnswerOfChain, ClaimsAgree, Claims
<1> QED
  BY <1>1, <1>2, <1>3 DEF Next

\* Empty tables hold no chain.
LEMMA InitChain == Init => ChainInv
BY DEF Init, EmptyStore, NewRequest, ChainInv, UniqueBinding, SourceSpent, WithinGrants,
       DistinctStrings, RequestOfChain, AnswerOfChain, ClaimsAgree, Claims, Running, Committed

\* What holds along every chain of refreshes, in every reachable state.
THEOREM ChainInvariance == Spec => []ChainInv
  BY InitChain, Invariance, NextChain, PTL DEF Spec

\* Where chains hold, the access token bound to a refresh token is within its grant.
LEMMA ScopesWithin == IndInv /\ ChainInv => ScopeWithinGrant
<1> SUFFICES ASSUME IndInv, ChainInv, NEW t \in DOMAIN db.rt, db.rt[t].access # NULL
             PROVE  db.at[db.rt[t].access].scope \subseteq granted[t]
  BY DEF ScopeWithinGrant
<1>1. db.rt[t].access \in DOMAIN db.at /\ t \in BoundTo(db, db.rt[t].access)
  BY DEF IndInv, WellFormed, ForeignKeys, BoundTo
<1> QED
  BY <1>1 DEF ChainInv, WithinGrants

\* The scope of a token stays within what the resource owner granted to the first pair
\* of its chain, however refreshes and replays interleave.
THEOREM GrantNeverOutgrown == Spec => []ScopeWithinGrant
  BY ScopesWithin, Invariance, ChainInvariance, PTL

\* Where claims agree, so do the answers of which both access tokens live.
LEMMA ClaimsAnswered == ChainInv => LiveAnswersAgree
<1> SUFFICES ASSUME ChainInv, NEW r \in Requests, NEW q \in Requests,
                    req[r].phase = "ok", req[q].phase = "ok", req[r].instance = req[q].instance,
                    NEW a \in DOMAIN db.at, db.at[a].token = req[r].gotAccess,
                    NEW b \in DOMAIN db.at, db.at[b].token = req[q].gotAccess
             PROVE  a = b
  BY DEF LiveAnswersAgree, LiveString
<1>1. a \in Claims(r) /\ b \in Claims(q)
  BY DEF Claims, Committed
<1> QED
  BY <1>1 DEF ChainInv, ClaimsAgree

\* Two clients answered for the same refresh token never hold different access tokens
\* that are both alive, with or without rotation and whatever the grace period.
THEOREM AnswersAgree == Spec => []LiveAnswersAgree
  BY ClaimsAnswered, ChainInvariance, PTL

-----------------------------------------------------------------------------
(***************************************************************************)
(* What a step does to refresh tokens: strings stay with their rows, and   *)
(* timestamps are set once, to the time of the step.                       *)
(***************************************************************************)
\* A row that is new when the tables become D is the only one, and its string is in X.
Moves(S, D, when, X) ==
    /\ Follows(S, D)
    /\ D.rtSeq = S.rtSeq \/ (D.rtSeq = S.rtSeq + 1 /\ D.rtSeq \in DOMAIN D.rt)
    /\ \A t \in DOMAIN D.rt :
         \/ /\ t \in DOMAIN S.rt /\ D.rt[t].token = S.rt[t].token
            /\ \/ D.rt[t].revoked = S.rt[t].revoked
               \/ S.rt[t].revoked = NULL /\ D.rt[t].revoked = when
         \/ /\ t = S.rtSeq + 1 /\ t = D.rtSeq
            /\ D.rt[t].revoked = NULL /\ D.rt[t].token \in X

\* A step that leaves the tables alone.
LEMMA StillMoves ==
    ASSUME NEW S, WellFormed(S), NEW when, NEW X
    PROVE  Moves(S, S, when, X)
BY DEF WellFormed, IsStore, Moves, Follows

\* RefreshToken.revoke, on rows that may be revoked or gone.
LEMMA RevokeMoves ==
    ASSUME NEW S, WellFormed(S), NEW G, Chained(S, G), NEW T, NEW when \in Nat \ {NULL},
           NEW R, R = RevokeRefresh(S, T, when), NEW X
    PROVE  Moves(S, R, when, X)
<1>1. PICK unspent : unspent = {t \in T \cap DOMAIN S.rt : S.rt[t].revoked = NULL}
  OBVIOUS
<1>2. UniqueBinding(S)
  BY DEF Chained
<1>3. RefreshSpent(S, R, unspent, when)
  BY <1>1, <1>2, RevokeRefreshExact
<1>4. Shrinks(S, R)
  BY <1>2, RevokeRefreshShrinks
<1>5. Follows(S, R)
  BY <1>4, ShrinkChained
<1>6. \A t \in DOMAIN S.rt : /\ t \in unspent => R.rt[t].revoked = when /\ S.rt[t].revoked = NULL
                             /\ t \notin unspent => R.rt[t].revoked = S.rt[t].revoked
  BY <1>1, <1>3 DEF RefreshSpent
<1> QED
  BY <1>4, <1>5, <1>6 DEF Moves, Shrinks

\* Deleting access tokens.
LEMMA DeleteMoves ==
    ASSUME NEW S, WellFormed(S), NEW G, Chained(S, G), NEW A, NEW when,
           NEW D, D = DeleteAccess(S, A), NEW X
    PROVE  Moves(S, D, when, X)
<1>1. Shrinks(S, D)
  BY DeleteAccessShrinks
<1>2. Follows(S, D)
  BY <1>1, ShrinkChained
<1>3. AccessDeleted(S, D, A) /\ \A t \in DOMAIN S.rt : S.rt[t] \in RefreshRow
  BY DeleteAccessFields DEF WellFormed, IsStore
<1>4. D.rt = [t \in DOMAIN S.rt |-> IF S.rt[t].access \in A
                                   THEN [S.rt[t] EXCEPT !.access = NULL] ELSE S.rt[t]]
  BY <1>3 DEF AccessDeleted
<1>5. ASSUME NEW t \in DOMAIN S.rt PROVE D.rt[t].revoked = S.rt[t].revoked
  BY <1>3, <1>4 DEF RefreshRow
<1> QED
  BY <1>1, <1>2, <1>5 DEF Moves, Shrinks

\* The exchange: the new row bears its key, or without rotation the string presented.
LEMMA ExchangeMoves ==
    ASSUME IndInv, ChainInv, NEW r \in Requests, IssueFresh(r)
    PROVE  /\ Moves(db, db', now, {IF Rotate THEN db.rtSeq + 1 ELSE req[r].code})
           /\ DOMAIN db.rt \subseteq DOMAIN db'.rt
<1>1. PICK t, R : t = req[r].instance /\ R = RevokeRefresh(db, {t}, now)
  OBVIOUS
<1>2. PICK A : A = CreateAccess(R, req[r].scope, req[r].expires, t)
  OBVIOUS
<1>3. ExchangeCommits(r, t, R, A)
  BY <1>1, <1>2, IssueFreshTables
<1>4. WellFormed(db) /\ Chained(db, granted) /\ now \in Nat \ {NULL} /\ db.rtSeq \in Nat
  BY DEF IndInv, TypeOK, ChainInv, Chained, IsStore, NULL
<1>5. Moves(db, R, now, {})
  BY <1>1, <1>4, RevokeMoves
<1>6. DOMAIN R.rt = DOMAIN db.rt /\ R.rtSeq = db.rtSeq
  BY <1>3 DEF ExchangeCommits, Shrinks
<1>7. Follows(db, db')
  BY <1>3, ExchangeChained
<1>8. PICK refresh : /\ Rotate => refresh = A.rtSeq + 1
                     /\ ~Rotate => refresh = req[r].code
                     /\ RefreshCreated(A, db', refresh, A.atSeq)
  BY <1>3 DEF ExchangeCommits
<1>9. /\ DOMAIN db'.rt = DOMAIN db.rt \cup {db.rtSeq + 1} /\ db'.rtSeq = db.rtSeq + 1
      /\ A.rtSeq = db.rtSeq /\ \A u \in DOMAIN db.rt : db'.rt[u] = R.rt[u]
  BY <1>3, ExchangeRows
<1>10. db'.rt[db'.rtSeq].token = refresh /\ db'.rt[db'.rtSeq].revoked = NULL
  BY <1>8 DEF RefreshCreated
<1>11. refresh \in {IF Rotate THEN db.rtSeq + 1 ELSE req[r].code}
  BY <1>8, <1>9
<1>12. ASSUME NEW u \in DOMAIN db.rt
       PROVE  /\ db'.rt[u].token = db.rt[u].token
              /\ \/ db'.rt[u].revoked = db.rt[u].revoked
                 \/ db.rt[u].revoked = NULL /\ db'.rt[u].revoked = now
  BY <1>5, <1>6, <1>9 DEF Moves
<1> QED
  BY <1>7, <1>9, <1>10, <1>11, <1>12 DEF Moves

-----------------------------------------------------------------------------
(***************************************************************************)
(* The statements of a request that write nothing, and the three commits.  *)
(***************************************************************************)
Waits(r) ==
    /\ UNCHANGED <<now, db, granted, rev>> /\ \A q \in Requests \ {r} : req'[q] = req[q]
    /\ req'[r].late = req[r].late
    /\ req'[r].phase \in Running =>
          /\ req[r].phase \in Running
          /\ req'[r].code = req[r].code /\ req'[r].instance = req[r].instance
    /\ req'[r].phase \in Committed =>
          /\ req[r].phase \in Committed
          /\ req'[r].gotAccess = req[r].gotAccess /\ req'[r].gotRefresh = req[r].gotRefresh
    /\ req'[r].phase = "read" /\ req'[r].previous # NULL =>
          /\ req'[r].previous \in DOMAIN db.at
          /\ req'[r].gotAccess = db.at[req'[r].previous].token
    /\ req'[r].phase = "paired" =>
          /\ req[r].phase = "read" /\ req[r].previous # NULL
          /\ req'[r].previous = req[r].previous /\ req'[r].gotAccess = req[r].gotAccess
          /\ \E u \in BoundTo(db, req[r].previous) : req'[r].gotRefresh = db.rt[u].token

Commits(r) ==
    \/ ReuseAccess(r) /\ req[r].access \in DOMAIN db.at
    \/ IssueFresh(r)
    \/ AnswerPrevious(r)

\* An answer without tokens.
LEMMA ErrorWaits ==
    ASSUME IndInv, NEW r \in Requests, NEW outcome \in Answered \ {"ok"}, Answer(r, outcome)
    PROVE  Waits(r)
<1> DEFINE row == Leave(req[r], outcome)
<1>1. req[r] \in Request /\ req \in [Requests -> Request]
  BY DEF IndInv, TypeOK
<1>2. row.phase = outcome /\ row.late = req[r].late
  BY <1>1, LeaveFields
<1>3. req' = [req EXCEPT ![r] = row] /\ UNCHANGED <<now, db, granted, rev>>
  BY DEF Answer
<1> HIDE DEF row
<1>4. req'[r] = row /\ \A q \in Requests \ {r} : req'[q] = req[q]
  BY <1>1, <1>3
<1>5. row.phase \notin Running \cup Committed \cup {"read", "paired"}
  BY <1>2 DEF Answered, Running, Committed
<1> QED
  BY <1>2, <1>3, <1>4, <1>5 DEF Waits

\* A statement before the pair is read.
LEMMA StatementWaits ==
    ASSUME IndInv, NEW r \in Requests, NEW row, req' = [req EXCEPT ![r] = row],
           UNCHANGED <<now, db, granted, rev>>, row.phase \in {"scoped", "locked", "read"},
           req[r].phase \in Running, row.late = req[r].late, row.code = req[r].code,
           row.instance = req[r].instance,
           row.phase = "read" /\ row.previous # NULL =>
               row.previous \in DOMAIN db.at /\ row.gotAccess = db.at[row.previous].token
    PROVE  Waits(r)
<1>1. req'[r] = row /\ \A q \in Requests \ {r} : req'[q] = req[q]
  BY DEF IndInv, TypeOK
<1>2. row.phase \notin Committed \cup {"paired"}
  BY DEF Committed
<1> QED
  BY <1>1, <1>2 DEF Waits

\* The second string of the pair is that of a row bound to the access token.
LEMMA ReadPairWaits ==
    ASSUME IndInv, ChainInv, NEW r \in Requests, ReadPair(r)
    PROVE  Waits(r)
<1>1. req[r] \in Request /\ req \in [Requests -> Request] /\ req[r].phase = "read" /\ req[r].previous # NULL
  BY DEF IndInv, TypeOK, ReadPair
<1>2. PICK R : R = RevokeRefresh(db, {req[r].instance}, now)
  OBVIOUS
<1>3. CASE Answer(r, "server_error")
  BY <1>3, ErrorWaits DEF Answered
<1>4. ASSUME NEW u \in First(BoundTo(R, req[r].previous)),
             req' = [req EXCEPT ![r] = [@ EXCEPT !.phase = "paired", !.gotRefresh = db.rt[u].token]],
             UNCHANGED <<now, db, granted, rev>>
      PROVE  Waits(r)
  <2> DEFINE string == db.rt[u].token
             row == [req[r] EXCEPT !.phase = "paired", !.gotRefresh = string]
  <2>1. /\ row.phase = "paired" /\ row.late = req[r].late /\ row.code = req[r].code
        /\ row.instance = req[r].instance /\ row.previous = req[r].previous
        /\ row.gotAccess = req[r].gotAccess /\ row.gotRefresh = string
    BY <1>1 DEF Request
  <2>2. req' = [req EXCEPT ![r] = row]
    BY <1>4
  <2> HIDE DEF row
  <2>3. req'[r] = row /\ \A q \in Requests \ {r} : req'[q] = req[q]
    BY <1>1, <2>2
  <2>4. u \in BoundTo(db, req[r].previous)
    <3>1. WellFormed(db) /\ UniqueBinding(db) /\ now \in Nat
      BY DEF IndInv, TypeOK, ChainInv
    <3>2. Shrinks(db, R)
      BY <1>2, <3>1, RevokeRefreshShrinks
    <3> QED
      BY <1>1, <3>2 DEF First, BoundTo, Shrinks
  <2>5. row.phase \notin Committed \cup {"read"} /\ req[r].phase \in Running
    BY <1>1, <2>1 DEF Committed, Running
  <2> QED
    BY <1>1, <1>4, <2>1, <2>3, <2>4, <2>5 DEF Waits
<1> QED
  BY <1>2, <1>3, <1>4 DEF ReadPair

\* The response names what was committed.
LEMMA RespondWaits ==
    ASSUME IndInv, NEW r \in Requests, Respond(r)
    PROVE  Waits(r)
<1>1. CASE Answer(r, "ok")
  <2> DEFINE row == Leave(req[r], "ok")
  <2>1. req[r] \in Request /\ req \in [Requests -> Request] /\ req[r].phase = "saved"
    BY DEF IndInv, TypeOK, Respond
  <2>2. /\ row.phase = "ok" /\ row.late = req[r].late
        /\ row.gotAccess = req[r].gotAccess /\ row.gotRefresh = req[r].gotRefresh
    BY <2>1, LeaveFields DEF Answered
  <2>3. req' = [req EXCEPT ![r] = row] /\ UNCHANGED <<now, db, granted, rev>>
    BY <1>1 DEF Answer
  <2> HIDE DEF row
  <2>4. req'[r] = row /\ \A q \in Requests \ {r} : req'[q] = req[q]
    BY <2>1, <2>3
  <2> QED
    BY <2>1, <2>2, <2>3, <2>4 DEF Waits, Running, Committed
<1>2. CASE Answer(r, "server_error")
  BY <1>2, ErrorWaits DEF Answered
<1> QED
  BY <1>1, <1>2 DEF Respond

\* Whatever save_bearer_token has not committed changes no table and answers no token.
LEMMA StatementOrCommit ==
    ASSUME IndInv, ChainInv, NEW r \in Requests, Step(r)
    PROVE  Validate(r) \/ Waits(r) \/ Commits(r)
<1>0. req[r] \in Request /\ req \in [Requests -> Request]
  BY DEF IndInv, TypeOK
<1>1. CASE GetOriginalScopes(r)
  <2>1. PICK scope, expires : req' = [req EXCEPT ![r] = [@ EXCEPT !.phase = "scoped",
                                 !.scope = scope, !.expires = expires]]
                              \/ Answer(r, "invalid_scope")
    BY <1>1 DEF GetOriginalScopes
  <2> DEFINE row == [req[r] EXCEPT !.phase = "scoped", !.scope = scope, !.expires = expires]
  <2>2. /\ row.phase = "scoped" /\ row.late = req[r].late /\ row.code = req[r].code
        /\ row.instance = req[r].instance
    BY <1>0 DEF Request
  <2>3. req' = [req EXCEPT ![r] = row] \/ Answer(r, "invalid_scope")
    BY <2>1
  <2>4. UNCHANGED <<now, db, granted, rev>> /\ req[r].phase \in Running
    BY <1>1 DEF GetOriginalScopes, Answer, Running
  <2> HIDE DEF row
  <2> QED
    BY <2>2, <2>3, <2>4, StatementWaits, ErrorWaits DEF Answered
<1>2. CASE LockInstance(r)
  <2> DEFINE row == [req[r] EXCEPT !.phase = "locked"]
  <2>1. /\ row.phase = "locked" /\ row.late = req[r].late /\ row.code = req[r].code
        /\ row.instance = req[r].instance /\ req[r].phase \in Running
    BY <1>0, <1>2 DEF Request, LockInstance, Running
  <2>2. (req' = [req EXCEPT ![r] = row] \/ Answer(r, "server_error"))
        /\ UNCHANGED <<now, db, granted, rev>>
    BY <1>2 DEF LockInstance, Answer
  <2> HIDE DEF row
  <2> QED
    BY <2>1, <2>2, StatementWaits, ErrorWaits DEF Answered
<1>3. CASE ReadPrevious(r)
  <2> DEFINE successors == SourcedBy(db, req[r].instance)
  <2>1. PICK a \in IF successors = {} THEN {NULL} ELSE First(successors) :
          req' = [req EXCEPT ![r] = [@ EXCEPT !.phase = "read", !.previous = a,
                    !.gotAccess = IF a = NULL THEN NULL ELSE db.at[a].token]]
    BY <1>3 DEF ReadPrevious
  <2> DEFINE got == IF a = NULL THEN NULL ELSE db.at[a].token
             row == [req[r] EXCEPT !.phase = "read", !.previous = a, !.gotAccess = got]
  <2>2. a # NULL => a \in DOMAIN db.at /\ got = db.at[a].token
    BY DEF First, SourcedBy
  <2> HIDE DEF got
  <2>3. /\ row.phase = "read" /\ row.late = req[r].late /\ row.code = req[r].code
        /\ row.instance = req[r].instance /\ row.previous = a /\ row.gotAccess = got
    BY <1>0 DEF Request
  <2>4. req' = [req EXCEPT ![r] = row] /\ UNCHANGED <<now, db, granted, rev>>
    BY <1>3, <2>1 DEF ReadPrevious, got
  <2>5. req[r].phase \in Running
    BY <1>3 DEF ReadPrevious, Running
  <2> HIDE DEF row
  <2> QED
    BY <2>2, <2>3, <2>4, <2>5, StatementWaits
<1>4. CASE ReuseAccess(r)
  BY <1>4, ErrorWaits DEF ReuseAccess, Commits, Answered
<1>5. CASE Refuse(r)
  BY <1>5, ErrorWaits DEF Refuse, Answered
<1> QED
  BY <1>1, <1>2, <1>3, <1>4, <1>5, ReadPairWaits, RespondWaits DEF Step, Commits

\* The row validate_refresh_token settles on is in the table, bears the string presented
\* and is usable.
LEMMA ValidateRow ==
    ASSUME IndInv, NEW r \in Requests, Validate(r)
    PROVE  /\ req'[r].phase = "validated" /\ req'[r].late = Dead(req'[r].code)
           /\ req'[r].instance \in DOMAIN db.rt /\ Usable(db.rt[req'[r].instance])
           /\ db.rt[req'[r].instance].token = req'[r].code /\ Overlap(req'[r].code)
           /\ \A q \in Requests \ {r} : req'[q] = req[q]
           /\ UNCHANGED <<now, db, granted>>
<1>1. PICK code \in 0 .. db.rtSeq, wanted \in SUBSET Scopes :
        \E t \in First(Candidates(code)) :
          /\ req' = [req EXCEPT ![r] = [@ EXCEPT !.phase = "validated", !.code = code,
                    !.instance = t, !.access = db.rt[t].access, !.wanted = wanted,
                    !.scope = IF db.rt[t].access = NULL THEN {} ELSE db.at[db.rt[t].access].scope,
                    !.late = Dead(code)]]
          /\ Overlap(code)
  BY DEF Validate
<1>2. PICK t \in First(Candidates(code)) :
        /\ req' = [req EXCEPT ![r] = [@ EXCEPT !.phase = "validated", !.code = code,
                  !.instance = t, !.access = db.rt[t].access, !.wanted = wanted,
                  !.scope = IF db.rt[t].access = NULL THEN {} ELSE db.at[db.rt[t].access].scope,
                  !.late = Dead(code)]]
        /\ Overlap(code)
  BY <1>1
<1> DEFINE scope == IF db.rt[t].access = NULL THEN {} ELSE db.at[db.rt[t].access].scope
           late  == Dead(code)
           row == [req[r] EXCEPT !.phase = "validated", !.code = code, !.instance = t,
                      !.access = db.rt[t].access, !.wanted = wanted, !.scope = scope, !.late = late]
<1>3. req[r] \in Request /\ req \in [Requests -> Request]
  BY DEF IndInv, TypeOK
<1>4. t \in DOMAIN db.rt /\ Usable(db.rt[t]) /\ db.rt[t].token = code
  BY DEF First, Candidates
<1> HIDE DEF late, scope
<1>5. row.phase = "validated" /\ row.late = late /\ row.instance = t /\ row.code = code
  BY <1>3 DEF Request
<1>6. req' = [req EXCEPT ![r] = row]
  BY <1>2 DEF scope, late
<1> HIDE DEF row
<1>7. req'[r] = row /\ \A q \in Requests \ {r} : req'[q] = req[q]
  BY <1>3, <1>6
<1>8. req'[r].code = code /\ req'[r].instance = t /\ req'[r].late = Dead(code)
  BY <1>5, <1>7 DEF late
<1> QED
  BY <1>2, <1>4, <1>5, <1>7, <1>8 DEF Validate

-----------------------------------------------------------------------------
(***************************************************************************)
(* Every step moves the tables, and keeps what strings promise.            *)
(***************************************************************************)
\* What a refresh request does to refresh tokens: only IssueFresh inserts one.
LEMMA StepMoves ==
    ASSUME IndInv, ChainInv, NEW r \in Requests, Step(r)
    PROVE  /\ Moves(db, db', now, {IF Rotate THEN db.rtSeq + 1 ELSE req[r].code})
           /\ IssueFresh(r) \/ Moves(db, db', now, {})
           /\ DOMAIN db.rt \subseteq DOMAIN db'.rt
<1>0. WellFormed(db) /\ Chained(db, granted) /\ now \in Nat \ {NULL}
  BY DEF IndInv, TypeOK, ChainInv, Chained, NULL
<1>1. CASE IssueFresh(r)
  BY <1>1, ExchangeMoves
<1>2. ASSUME \A X : Moves(db, db', now, X), DOMAIN db.rt \subseteq DOMAIN db'.rt
      PROVE  /\ Moves(db, db', now, {IF Rotate THEN db.rtSeq + 1 ELSE req[r].code})
             /\ IssueFresh(r) \/ Moves(db, db', now, {})
             /\ DOMAIN db.rt \subseteq DOMAIN db'.rt
  BY <1>2
<1>3. CASE Validate(r) \/ Waits(r)
  <2>1. db' = db
    BY <1>3 DEF Validate, Waits
  <2> QED
    BY <1>0, <1>2, <2>1, StillMoves
<1>4. CASE AnswerPrevious(r)
  <2>1. db' = RevokeRefresh(db, {req[r].instance}, now)
    BY <1>4 DEF AnswerPrevious
  <2>2. DOMAIN db'.rt = DOMAIN db.rt
    BY <1>0, <2>1, RevokeRefreshFields
  <2> QED
    BY <1>0, <1>2, <2>1, <2>2, RevokeMoves
<1>5. CASE ReuseAccess(r) /\ req[r].access \in DOMAIN db.at
  <2> DEFINE a == req[r].access
             t == req[r].instance
  <2>1. /\ db' = UpdateAccess(db, a, req[r].scope, req[r].expires) /\ req[r].phase = "scoped"
    BY <1>5 DEF ReuseAccess
  <2>2. Attached(db, granted, t, a, req[r].scope)
    BY <2>1 DEF ChainInv, RequestOfChain, Running
  <2>3. /\ req[r].scope \in SUBSET Scopes /\ req[r].expires \in Nat /\ t \in 1 .. db.rtSeq
    BY <2>2 DEF IndInv, TypeOK, Request, Attached
  <2>4. Follows(db, db')
    BY <1>0, <1>5, <2>1, <2>2, <2>3, ReissueChained
  <2>5. db'.rt = db.rt /\ db'.rtSeq = db.rtSeq
    BY <1>0, <2>1 DEF UpdateAccess, WellFormed, IsStore
  <2> QED
    BY <1>2, <2>4, <2>5 DEF Moves
<1> QED
  BY <1>1, <1>3, <1>4, <1>5, StatementOrCommit DEF Commits

\* What other requests do to refresh tokens.
LEMMA EnvironmentMoves ==
    ASSUME IndInv, ChainInv, Environment
    PROVE  Moves(db, db', now, {db.rtSeq + 1}) /\ DOMAIN db.rt \subseteq DOMAIN db'.rt
<1>0. WellFormed(db) /\ Chained(db, granted) /\ now \in Nat \ {NULL}
  BY DEF IndInv, TypeOK, ChainInv, Chained, NULL
<1>1. CASE UNCHANGED db
  BY <1>0, <1>1, StillMoves
<1>2. ASSUME NEW scope \in SUBSET Scopes, IssueTokens(scope)
      PROVE  Moves(db, db', now, {db.rtSeq + 1}) /\ DOMAIN db.rt \subseteq DOMAIN db'.rt
  BY <1>2, IssueTokensChained DEF Moves
<1>3. ASSUME NEW a, RevokeAccessToken(a)
      PROVE  Moves(db, db', now, {db.rtSeq + 1}) /\ DOMAIN db.rt \subseteq DOMAIN db'.rt
  <2>1. db' = DeleteAccess(db, {a})
    BY <1>3 DEF RevokeAccessToken
  <2>2. Shrinks(db, db')
    BY <1>0, <2>1, DeleteAccessShrinks
  <2> QED
    BY <1>0, <2>1, <2>2, DeleteMoves DEF Shrinks
<1>4. ASSUME NEW t, db' = RevokeRefresh(db, {t}, now)
      PROVE  Moves(db, db', now, {db.rtSeq + 1}) /\ DOMAIN db.rt \subseteq DOMAIN db'.rt
  <2>1. DOMAIN db'.rt = DOMAIN db.rt
    BY <1>0, <1>4, RevokeRefreshFields
  <2> QED
    BY <1>0, <1>4, <2>1, RevokeMoves
<1>5. ASSUME NEW v \in Revocations, RevokeRefreshToken(v)
      PROVE  UNCHANGED db \/ \E t : db' = RevokeRefresh(db, {t}, now)
  BY <1>5 DEF RevokeRefreshToken, LookUpRefresh, RevokeRow, AnswerRevocation
<1> QED
  BY <1>1, <1>2, <1>3, <1>4, <1>5 DEF Environment, AuthorizedTokenDelete, Tick

\* A new row's string is its key, so that keys remain strings.
LEMMA MovesRotation ==
    ASSUME RotationInv, NEW X, Moves(db, db', now, X), Rotate => X \subseteq {db.rtSeq + 1}
    PROVE  RotationInv'
BY DEF RotationInv, Moves

\* Every step keeps what rotation promises about strings.
LEMMA NextRotation == IndInv /\ ChainInv /\ RotationInv /\ [Next]_vars => RotationInv'
<1> SUFFICES ASSUME IndInv, ChainInv, RotationInv, [Next]_vars PROVE RotationInv'
  OBVIOUS
<1>1. ASSUME NEW r \in Requests, Step(r) PROVE RotationInv'
  <2>1. Moves(db, db', now, {IF Rotate THEN db.rtSeq + 1 ELSE req[r].code})
    BY <1>1, StepMoves
  <2>2. Rotate => {IF Rotate THEN db.rtSeq + 1 ELSE req[r].code} \subseteq {db.rtSeq + 1}
    OBVIOUS
  <2> QED
    BY <2>1, <2>2, MovesRotation
<1>2. CASE Environment
  BY <1>2, EnvironmentMoves, MovesRotation
<1>3. CASE UNCHANGED vars
  BY <1>3 DEF vars, RotationInv
<1> QED
  BY <1>1, <1>2, <1>3 DEF Next

\* Empty tables hold no string.
LEMMA InitRotation == Init => RotationInv
BY DEF Init, EmptyStore, RotationInv

\* With ROTATE_REFRESH_TOKEN, in every reachable state.
THEOREM RotationInvariance == Spec => []RotationInv
  BY InitRotation, NextRotation, Invariance, ChainInvariance, PTL DEF Spec

\* With rotation a refresh token's string names one row, so revoke_token's get() never
\* raises MultipleObjectsReturned.
THEOREM StringNamesOneRow == ASSUME Rotate PROVE Spec => []OneRowPerString
<1>1. RotationInv => OneRowPerString
  BY DEF RotationInv, OneRowPerString
<1> QED
  BY <1>1, RotationInvariance, PTL

-----------------------------------------------------------------------------
(***************************************************************************)
(* The pair of an answer: what was read of it, without a lock, stays true  *)
(* of its rows for as long as they are there.                              *)
(***************************************************************************)
\* An access token with an old string is an old one, and so is what is bound to it.
LEMMA FollowsPair ==
    ASSUME NEW S, WellFormed(S), NEW D, Follows(S, D)
    PROVE  /\ \A a \in DOMAIN D.at : D.at[a].token \in 1 .. S.strings =>
                 a \in DOMAIN S.at /\ S.at[a].token = D.at[a].token
           /\ \A a \in 1 .. S.atSeq : BoundTo(D, a) \subseteq BoundTo(S, a)
<1>1. S.atSeq \in Nat /\ S.strings \in Nat /\ NULL \notin 1 .. S.atSeq
  BY DEF WellFormed, IsStore, NULL
<1>2. ASSUME NEW a \in DOMAIN D.at, D.at[a].token \in 1 .. S.strings
      PROVE  a \in DOMAIN S.at /\ S.at[a].token = D.at[a].token
  BY <1>1, <1>2 DEF Follows
<1>3. ASSUME NEW a \in 1 .. S.atSeq, NEW u \in BoundTo(D, a) PROVE u \in BoundTo(S, a)
  <2>1. u \in DOMAIN D.rt /\ D.rt[u].access = a /\ a # NULL /\ a \in Nat /\ a <= S.atSeq
    BY <1>1 DEF BoundTo
  <2>2. u \in DOMAIN S.rt /\ S.rt[u].access = a
    BY <1>1, <2>1 DEF Follows
  <2> QED
    BY <2>2 DEF BoundTo
<1> QED
  BY <1>2, <1>3

\* What a request knows of its pair survives what others do to the tables.
LEMMA MovesKnows ==
    ASSUME NEW S, WellFormed(S), NEW D, NEW when, NEW X, Moves(S, D, when, X),
           NEW x, KnowsPair(S, x), x.phase \in Running => x.instance \in 1 .. S.rtSeq
    PROVE  KnowsPair(D, x)
<1>1. /\ Follows(S, D) /\ S.rtSeq \in Nat /\ S.atSeq \in Nat /\ S.strings \in Nat
      /\ S.atSeq <= D.atSeq /\ S.strings <= D.strings /\ D.atSeq \in Nat /\ D.strings \in Nat
      /\ DOMAIN S.at \subseteq 1 .. S.atSeq
  BY DEF Moves, Follows, WellFormed, IsStore
<1>2. \A u \in DOMAIN D.rt : u \in 1 .. S.rtSeq => u \in DOMAIN S.rt /\ D.rt[u].token = S.rt[u].token
  BY <1>1 DEF Moves
<1>3. ASSUME NEW a \in 1 .. S.atSeq, NEW s, \A u \in BoundTo(S, a) : S.rt[u].token = s
      PROVE  \A u \in BoundTo(D, a) : D.rt[u].token = s
  <2> SUFFICES ASSUME NEW u \in BoundTo(D, a) PROVE D.rt[u].token = s
    OBVIOUS
  <2>1. u \in BoundTo(S, a) /\ u \in DOMAIN D.rt
    BY <1>1, FollowsPair DEF BoundTo
  <2>2. u \in 1 .. S.rtSeq /\ S.rt[u].token = s
    BY <1>3, <2>1 DEF BoundTo, WellFormed, IsStore
  <2> QED
    BY <1>2, <2>1, <2>2
<1>4. x.phase \in Running /\ x.instance \in DOMAIN D.rt => D.rt[x.instance].token = x.code
  BY <1>2 DEF KnowsPair
<1>5. ASSUME x.phase \in {"read", "paired"}, x.previous # NULL
      PROVE  /\ x.previous \in 1 .. D.atSeq /\ x.gotAccess \in 1 .. D.strings
             /\ \A a \in DOMAIN D.at : D.at[a].token = x.gotAccess => a = x.previous
  <2>1. /\ x.previous \in 1 .. S.atSeq /\ x.gotAccess \in 1 .. S.strings
        /\ \A a \in DOMAIN S.at : S.at[a].token = x.gotAccess => a = x.previous
    BY <1>5 DEF KnowsPair
  <2> QED
    BY <1>1, <2>1, FollowsPair
<1>6. ASSUME x.phase = "paired"
      PROVE  x.previous # NULL /\ \A u \in BoundTo(D, x.previous) : D.rt[u].token = x.gotRefresh
  <2>1. x.previous # NULL /\ \A u \in BoundTo(S, x.previous) : S.rt[u].token = x.gotRefresh
    BY <1>6 DEF KnowsPair
  <2>2. x.previous \in 1 .. S.atSeq
    BY <1>6, <2>1 DEF KnowsPair
  <2> QED
    BY <1>3, <2>1, <2>2
<1>7. ASSUME x.phase \in Committed
      PROVE  /\ x.gotAccess \in 1 .. D.strings
             /\ \A a \in DOMAIN D.at : D.at[a].token = x.gotAccess =>
                   \A u \in BoundTo(D, a) : D.rt[u].token = x.gotRefresh
  <2>1. /\ x.gotAccess \in 1 .. S.strings
        /\ \A a \in DOMAIN S.at : S.at[a].token = x.gotAccess =>
              \A u \in BoundTo(S, a) : S.rt[u].token = x.gotRefresh
    BY <1>7 DEF KnowsPair
  <2>2. ASSUME NEW a \in DOMAIN D.at, D.at[a].token = x.gotAccess
        PROVE  \A u \in BoundTo(D, a) : D.rt[u].token = x.gotRefresh
    <3>1. a \in DOMAIN S.at /\ S.at[a].token = x.gotAccess
      BY <1>1, <2>1, <2>2, FollowsPair
    <3>2. \A u \in BoundTo(S, a) : S.rt[u].token = x.gotRefresh
      BY <2>1, <3>1
    <3> QED
      BY <1>1, <1>3, <3>1, <3>2
  <2>3. x.gotAccess \in 1 .. D.strings
    BY <1>1, <2>1
  <2> QED
    BY <2>2, <2>3
<1> QED
  BY <1>4, <1>5, <1>6, <1>7 DEF KnowsPair

\* ... and while refresh tokens keep their rows the pair stays a pair.
LEMMA FollowsKeeps ==
    ASSUME NEW S, WellFormed(S), NEW D, Follows(S, D), DOMAIN S.rt \subseteq DOMAIN D.rt,
           NEW x, KnowsPair(S, x), KeepsPair(S, x)
    PROVE  KeepsPair(D, x)
<1>1. \A t \in DOMAIN S.rt : t \in 1 .. S.rtSeq /\ S.rtSeq \in Nat
  BY DEF WellFormed, IsStore
<1>2. ASSUME NEW a \in DOMAIN D.at, BoundTo(S, a) # {} PROVE BoundTo(D, a) # {}
  <2>1. PICK u \in DOMAIN S.rt : S.rt[u].access = a
    BY <1>2 DEF BoundTo
  <2>2. u \in DOMAIN D.rt /\ D.rt[u].access = a
    BY <1>1, <1>2, <2>1 DEF Follows
  <2> QED
    BY <2>2 DEF BoundTo
<1>3. x.phase = "paired" /\ x.previous \in DOMAIN D.at => BoundTo(D, x.previous) # {}
  <2> SUFFICES ASSUME x.phase = "paired", x.previous \in DOMAIN D.at PROVE BoundTo(D, x.previous) # {}
    OBVIOUS
  <2>1. x.previous \in 1 .. S.atSeq /\ S.atSeq \in Nat
    BY DEF KnowsPair, WellFormed, IsStore
  <2>2. x.previous \in DOMAIN S.at
    BY <2>1 DEF Follows
  <2> QED
    BY <1>2, <2>2 DEF KeepsPair
<1>4. ASSUME x.phase \in Committed, NEW a \in DOMAIN D.at, D.at[a].token = x.gotAccess
      PROVE  BoundTo(D, a) # {}
  <2>1. x.gotAccess \in 1 .. S.strings
    BY <1>4 DEF KnowsPair
  <2>2. a \in DOMAIN S.at /\ S.at[a].token = x.gotAccess
    BY <1>4, <2>1, FollowsPair
  <2> QED
    BY <1>2, <1>4, <2>2 DEF KeepsPair
<1> QED
  BY <1>3, <1>4 DEF KeepsPair

\* What statements that write nothing add to it.
LEMMA StatementPair ==
    ASSUME IndInv, ChainInv, PairInv, NEW r \in Requests, Validate(r) \/ Waits(r)
    PROVE  /\ KnowsPair(db', req'[r])
           /\ KeepsPair(db, req[r]) => KeepsPair(db', req'[r])
<1>0. KnowsPair(db, req[r]) /\ WellFormed(db) /\ UniqueBinding(db) /\ DistinctStrings(db)
  BY DEF PairInv, IndInv, ChainInv
<1>1. CASE Validate(r)
  <2>1. /\ req'[r].phase = "validated" /\ db' = db
        /\ db.rt[req'[r].instance].token = req'[r].code
    BY <1>1, ValidateRow
  <2> QED
    BY <2>1 DEF KnowsPair, KeepsPair, Committed
<1>2. CASE Waits(r)
  <2>0. db' = db
    BY <1>2 DEF Waits
  <2>1. req'[r].phase \in Running /\ req'[r].instance \in DOMAIN db.rt =>
           db.rt[req'[r].instance].token = req'[r].code
    BY <1>0, <1>2 DEF Waits, KnowsPair
  <2>2. ASSUME req'[r].phase \in {"read", "paired"}, req'[r].previous # NULL
        PROVE  /\ req'[r].previous \in 1 .. db.atSeq /\ req'[r].gotAccess \in 1 .. db.strings
               /\ \A a \in DOMAIN db.at : db.at[a].token = req'[r].gotAccess => a = req'[r].previous
    <3>1. CASE req'[r].phase = "read"
      <4>1. req'[r].previous \in DOMAIN db.at /\ req'[r].gotAccess = db.at[req'[r].previous].token
        BY <1>2, <2>2, <3>1 DEF Waits
      <4> QED
        BY <1>0, <4>1 DEF WellFormed, IsStore, DistinctStrings
    <3>2. CASE req'[r].phase = "paired"
      <4>1. /\ req[r].phase = "read" /\ req[r].previous # NULL
            /\ req'[r].previous = req[r].previous /\ req'[r].gotAccess = req[r].gotAccess
        BY <1>2, <3>2 DEF Waits
      <4> QED
        BY <1>0, <4>1 DEF KnowsPair
    <3> QED
      BY <2>2, <3>1, <3>2
  <2>3. ASSUME req'[r].phase = "paired"
        PROVE  /\ req'[r].previous # NULL /\ BoundTo(db, req'[r].previous) # {}
               /\ \A u \in BoundTo(db, req'[r].previous) : db.rt[u].token = req'[r].gotRefresh
    <3>1. /\ req[r].previous # NULL /\ req'[r].previous = req[r].previous
          /\ \E u \in BoundTo(db, req[r].previous) : req'[r].gotRefresh = db.rt[u].token
      BY <1>2, <2>3 DEF Waits
    <3>2. PICK u \in BoundTo(db, req[r].previous) : req'[r].gotRefresh = db.rt[u].token
      BY <3>1
    <3>3. \A w \in BoundTo(db, req[r].previous) : w = u
      BY <1>0, <3>1 DEF BoundTo, UniqueBinding
    <3> QED
      BY <3>1, <3>2, <3>3
  <2>4. req'[r].phase \in Committed =>
          /\ req[r].phase \in Committed
          /\ req'[r].gotAccess = req[r].gotAccess /\ req'[r].gotRefresh = req[r].gotRefresh
    BY <1>2 DEF Waits
  <2>5. KnowsPair(db, req'[r])
    BY <1>0, <2>1, <2>2, <2>3, <2>4 DEF KnowsPair
  <2>6. KeepsPair(db, req[r]) => KeepsPair(db, req'[r])
    BY <2>3, <2>4 DEF KeepsPair
  <2> QED
    BY <2>0, <2>5, <2>6
<1> QED
  BY <1>1, <1>2

\* A committed pair: the string names one access token, and what is bound to that bears
\* the other string.
LEMMA CommittedPair ==
    ASSUME IndInv, NEW r \in Requests, NEW access, NEW refresh, Succeed(r, access, refresh),
           access \in 1 .. db'.strings, NEW a, \A b \in DOMAIN db'.at : db'.at[b].token = access => b = a,
           a \in DOMAIN db'.at => \A u \in BoundTo(db', a) : db'.rt[u].token = refresh
    PROVE  /\ KnowsPair(db', req'[r])
           /\ (a \in DOMAIN db'.at => BoundTo(db', a) # {}) => KeepsPair(db', req'[r])
<1>1. req'[r].phase = "saved" /\ req'[r].gotAccess = access /\ req'[r].gotRefresh = refresh
  BY SucceedRow
<1>2. KnowsPair(db', req'[r])
  BY <1>1 DEF KnowsPair, Running
<1>3. (a \in DOMAIN db'.at => BoundTo(db', a) # {}) => KeepsPair(db', req'[r])
  BY <1>1 DEF KeepsPair
<1> QED
  BY <1>2, <1>3

\* Without rotation the answer is the access token's new string and the string presented.
LEMMA ReusePair ==
    ASSUME IndInv, ChainInv, PairInv, NEW r \in Requests, ReuseAccess(r), req[r].access \in DOMAIN db.at
    PROVE  /\ KnowsPair(db', req'[r])
           /\ req[r].instance \in DOMAIN db.rt => KeepsPair(db', req'[r])
<1>1. PICK a, t : a = req[r].access /\ t = req[r].instance
  OBVIOUS
<1>2. /\ db' = UpdateAccess(db, a, req[r].scope, req[r].expires)
      /\ Succeed(r, db.strings + 1, req[r].code) /\ req[r].phase = "scoped"
  BY <1>1 DEF ReuseAccess
<1>3. Attached(db, granted, t, a, req[r].scope) /\ KnowsPair(db, req[r])
  BY <1>1, <1>2 DEF ChainInv, RequestOfChain, Running, PairInv
<1>4. /\ WellFormed(db) /\ Chained(db, granted) /\ t \in 1 .. db.rtSeq /\ db.strings \in Nat
      /\ req[r].scope \in SUBSET Scopes /\ req[r].expires \in Nat /\ a \in DOMAIN db.at
  BY <1>1, <1>3 DEF IndInv, TypeOK, Request, Attached, ChainInv, Chained, IsStore
<1>5. AccessUpdated(db, db', a, req[r].scope)
  BY <1>2, <1>4, UpdateAccessWellFormed
<1>6. db'.at = [db.at EXCEPT ![a] = [token |-> db'.strings, scope |-> req[r].scope,
                                     expires |-> req[r].expires, source |-> db.at[a].source]]
  BY <1>2, <1>4, UpdateAccessRow DEF WellFormed
<1>7. db'.rt = db.rt /\ db'.strings = db.strings + 1 /\ DOMAIN db'.at = DOMAIN db.at
  BY <1>5 DEF AccessUpdated
<1>8. \A b \in DOMAIN db'.at : db'.at[b].token = db.strings + 1 => b = a
  BY <1>4, <1>6, <1>7 DEF Chained, DistinctStrings
<1>9. BoundTo(db', a) = {t} \cap DOMAIN db.rt
  BY <1>3, <1>4, <1>7 DEF Attached, BoundTo
<1>10. t \in DOMAIN db.rt => db'.rt[t].token = req[r].code
  BY <1>1, <1>2, <1>3, <1>7 DEF KnowsPair, Running
<1>11. db.strings + 1 \in 1 .. db'.strings
  BY <1>4, <1>7
<1>12. \A u \in BoundTo(db', a) : db'.rt[u].token = req[r].code
  BY <1>9, <1>10
<1> QED
  BY <1>1, <1>2, <1>8, <1>9, <1>11, <1>12, CommittedPair

\* The exchange answers with the two rows it inserts.
LEMMA IssuePair ==
    ASSUME IndInv, ChainInv, NEW r \in Requests, IssueFresh(r)
    PROVE  KnowsPair(db', req'[r]) /\ KeepsPair(db', req'[r])
<1>1. PICK t, R : t = req[r].instance /\ R = RevokeRefresh(db, {t}, now)
  OBVIOUS
<1>2. PICK A : A = CreateAccess(R, req[r].scope, req[r].expires, t)
  OBVIOUS
<1>3. ExchangeCommits(r, t, R, A)
  BY <1>1, <1>2, IssueFreshTables
<1>4. PICK refresh : RefreshCreated(A, db', refresh, A.atSeq) /\ Succeed(r, A.strings, refresh)
  BY <1>3 DEF ExchangeCommits
<1>5. /\ DOMAIN db'.rt = DOMAIN db.rt \cup {db.rtSeq + 1} /\ db'.rtSeq = db.rtSeq + 1
      /\ \A u \in DOMAIN db.rt : db'.rt[u] = R.rt[u]
      /\ db'.rt[db.rtSeq + 1].access = A.atSeq
      /\ A.atSeq \in DOMAIN db'.at /\ db'.at[A.atSeq].token = A.strings
      /\ A.strings = db'.strings /\ A.strings \in Nat \ {0}
  BY <1>3, ExchangeRows
<1>6. Chained(db', granted')
  BY <1>3, ExchangeChained
<1>7. db'.rt[db.rtSeq + 1].token = refresh
  BY <1>4, <1>5 DEF RefreshCreated
<1>8. \A b \in DOMAIN db'.at : db'.at[b].token = A.strings => b = A.atSeq
  BY <1>5, <1>6 DEF Chained, DistinctStrings
<1>9. WellFormed(db') /\ A.atSeq # NULL
  <2>1. WellFormed(db')
    BY <1>3 DEF ExchangeCommits
  <2> QED
    BY <1>5, <2>1 DEF WellFormed, IsStore, NULL
<1>10. BoundTo(db', A.atSeq) = {db.rtSeq + 1}
  BY <1>5, <1>6, <1>9 DEF BoundTo, Chained, UniqueBinding
<1>11. A.strings \in 1 .. db'.strings
  BY <1>5
<1>12. \A u \in BoundTo(db', A.atSeq) : db'.rt[u].token = refresh
  BY <1>7, <1>10
<1> QED
  BY <1>4, <1>8, <1>10, <1>11, <1>12, CommittedPair

\* The pair of the previous exchange is answered as it was read.
LEMMA AnswerPair ==
    ASSUME IndInv, ChainInv, PairInv, NEW r \in Requests, AnswerPrevious(r)
    PROVE  /\ KnowsPair(db', req'[r])
           /\ KeepsPair(db, req[r]) => KeepsPair(db', req'[r])
<1> DEFINE x == req[r]
<1>0. PICK a : a = req[r].previous
  OBVIOUS
<1>1. /\ db' = RevokeRefresh(db, {req[r].instance}, now)
      /\ Succeed(r, req[r].gotAccess, req[r].gotRefresh) /\ req[r].phase = "paired"
  BY DEF AnswerPrevious
<1>2. WellFormed(db) /\ Chained(db, granted) /\ now \in Nat \ {NULL}
  BY DEF IndInv, TypeOK, ChainInv, Chained, NULL
<1>3. Moves(db, db', now, {}) /\ DOMAIN db'.rt = DOMAIN db.rt
  BY <1>1, <1>2, RevokeMoves, RevokeRefreshFields
<1>4. KnowsPair(db, x) /\ (x.phase \in Running => x.instance \in 1 .. db.rtSeq)
  <2>1. x.instance \in DOMAIN db.rt
    BY <1>1 DEF IndInv, LockedRowExists, InTransaction
  <2> QED
    BY <1>2, <2>1 DEF PairInv, WellFormed, IsStore
<1> HIDE DEF x
<1>5. KnowsPair(db', x)
  BY <1>2, <1>3, <1>4, MovesKnows
<1>6. KeepsPair(db, x) => KeepsPair(db', x)
  BY <1>2, <1>3, <1>4, FollowsKeeps DEF Moves
<1> USE DEF x
<1>7. /\ a # NULL /\ req[r].gotAccess \in 1 .. db'.strings
      /\ \A b \in DOMAIN db'.at : db'.at[b].token = req[r].gotAccess => b = a
      /\ \A u \in BoundTo(db', a) : db'.rt[u].token = req[r].gotRefresh
  BY <1>0, <1>1, <1>5 DEF KnowsPair
<1>8. KeepsPair(db, req[r]) => (a \in DOMAIN db'.at => BoundTo(db', a) # {})
  BY <1>0, <1>1, <1>6 DEF KeepsPair
<1> HIDE DEF x
<1>9. PICK access, refresh : access = req[r].gotAccess /\ refresh = req[r].gotRefresh
  OBVIOUS
<1>10. /\ Succeed(r, access, refresh) /\ access \in 1 .. db'.strings
       /\ \A b \in DOMAIN db'.at : db'.at[b].token = access => b = a
       /\ \A u \in BoundTo(db', a) : db'.rt[u].token = refresh
  BY <1>1, <1>7, <1>9
<1>11. /\ KnowsPair(db', req'[r])
       /\ (a \in DOMAIN db'.at => BoundTo(db', a) # {}) => KeepsPair(db', req'[r])
  BY <1>10, CommittedPair
<1> QED
  BY <1>8, <1>11

\* Every step of a request keeps what it knows, and its pair while its row is there.
LEMMA StepPair ==
    ASSUME IndInv, ChainInv, PairInv, NEW r \in Requests, Step(r)
    PROVE  /\ KnowsPair(db', req'[r])
           /\ AllRows /\ KeepsPair(db, req[r]) => KeepsPair(db', req'[r])
<1>1. CASE ReuseAccess(r) /\ req[r].access \in DOMAIN db.at
  <2>1. AllRows => req[r].instance \in DOMAIN db.rt
    <3>1. req[r].phase = "scoped"
      BY <1>1 DEF ReuseAccess
    <3> QED
      BY <3>1 DEF AllRows, ChainInv, RequestOfChain, Running, Attached, IndInv, TypeOK
  <2> QED
    BY <1>1, <2>1, ReusePair
<1> QED
  BY <1>1, StatementOrCommit, StatementPair, IssuePair, AnswerPair DEF Commits

\* Every step keeps what the other requests know.
LEMMA OthersPair ==
    ASSUME IndInv, ChainInv, PairInv, NEW X, Moves(db, db', now, X),
           NEW q \in Requests, req'[q] = req[q]
    PROVE  /\ KnowsPair(db', req'[q])
           /\ DOMAIN db.rt \subseteq DOMAIN db'.rt /\ KeepsPair(db, req[q]) => KeepsPair(db', req'[q])
<1> DEFINE x == req[q]
<1>1. WellFormed(db) /\ KnowsPair(db, x) /\ (x.phase \in Running => x.instance \in 1 .. db.rtSeq)
  BY DEF IndInv, TypeOK, ChainInv, RequestOfChain, Attached, PairInv
<1>2. req'[q] = x
  OBVIOUS
<1> HIDE DEF x
<1>3. KnowsPair(db', x)
  BY <1>1, MovesKnows
<1>4. DOMAIN db.rt \subseteq DOMAIN db'.rt /\ KeepsPair(db, x) => KeepsPair(db', x)
  BY <1>1, FollowsKeeps DEF Moves
<1> QED
  BY <1>2, <1>3, <1>4 DEF x

\* What one request does to its own pair and to those of others.
LEMMA RequestPairs ==
    ASSUME IndInv, ChainInv, PairInv, NEW r \in Requests, Step(r)
    PROVE  PairInv' /\ (AllRows /\ PairKept => PairKept')
<1>1. KnowsPair(db', req'[r]) /\ (AllRows /\ KeepsPair(db, req[r]) => KeepsPair(db', req'[r]))
  BY StepPair
<1>2. PICK X : Moves(db, db', now, X) /\ DOMAIN db.rt \subseteq DOMAIN db'.rt
  BY StepMoves
<1>3. \A q \in Requests \ {r} : req'[q] = req[q]
  <2>1. CASE Commits(r)
    <3>1. PICK access, refresh : Succeed(r, access, refresh)
      BY <2>1 DEF Commits, ReuseAccess, IssueFresh, AnswerPrevious
    <3> QED
      BY <3>1, SucceedRow
  <2> QED
    BY <2>1, StatementOrCommit, ValidateRow DEF Waits
<1>4. \A q \in Requests \ {r} : /\ KnowsPair(db', req'[q])
                                /\ KeepsPair(db, req[q]) => KeepsPair(db', req'[q])
  BY <1>2, <1>3, OthersPair
<1> QED
  BY <1>1, <1>4 DEF PairInv, PairKept

\* What everybody else does to the pairs of all requests.
LEMMA OtherPairs ==
    ASSUME IndInv, ChainInv, PairInv, NEW X, Moves(db, db', now, X), UNCHANGED req
    PROVE  PairInv' /\ (DOMAIN db.rt \subseteq DOMAIN db'.rt /\ PairKept => PairKept')
<1>1. \A q \in Requests : /\ KnowsPair(db', req'[q])
                          /\ DOMAIN db.rt \subseteq DOMAIN db'.rt /\ KeepsPair(db, req[q]) =>
                                KeepsPair(db', req'[q])
  BY OthersPair
<1> QED
  BY <1>1 DEF PairInv, PairKept

\* Every step keeps what requests know of their pairs ...
LEMMA NextPairs ==
    ASSUME IndInv, ChainInv, PairInv, [Next]_vars
    PROVE  PairInv' /\ (AllRows /\ PairKept => PairKept')
<1>1. ASSUME NEW r \in Requests, Step(r) PROVE PairInv' /\ (AllRows /\ PairKept => PairKept')
  BY <1>1, RequestPairs
<1>2. ASSUME Environment PROVE PairInv' /\ (PairKept => PairKept')
  <2>1. UNCHANGED req
    BY <1>2 DEF Environment, IssueTokens, RevokeAccessToken, AuthorizedTokenDelete,
       RevokeRefreshToken, LookUpRefresh, RevokeRow, AnswerRevocation, Tick
  <2> QED
    BY <1>2, <2>1, EnvironmentMoves, OtherPairs
<1>3. CASE UNCHANGED vars
  BY <1>3 DEF vars, PairInv, PairKept
<1> QED
  BY <1>1, <1>2, <1>3 DEF Next

\* ... from the start.
LEMMA InitPairs == Init => PairInv /\ PairKept
BY DEF Init, EmptyStore, NewRequest, PairInv, PairKept, KnowsPair, KeepsPair, Running, Committed

\* What a request has read of the pair it answers with is never contradicted.
THEOREM PairInvariance == Spec => []PairInv
<1>1. IndInv /\ ChainInv /\ PairInv /\ [Next]_vars => PairInv'
  BY NextPairs
<1> QED
  BY <1>1, InitPairs, Invariance, ChainInvariance, PTL DEF Spec

\* A bound refresh token is not revoked, so a kept pair can be refreshed.
LEMMA KeptPairHolds == IndInv /\ PairInv /\ PairKept => AnsweredPairHolds
<1> SUFFICES ASSUME IndInv, PairInv, PairKept, NEW r \in Requests, req[r].phase \in Committed,
                    NEW a \in DOMAIN db.at, db.at[a].token = req[r].gotAccess
             PROVE  \E t \in BoundTo(db, a) : db.rt[t].token = req[r].gotRefresh /\ db.rt[t].revoked = NULL
  BY DEF AnsweredPairHolds
<1>1. PICK t : t \in BoundTo(db, a)
  BY DEF PairKept, KeepsPair
<1>2. db.rt[t].token = req[r].gotRefresh
  BY <1>1 DEF PairInv, KnowsPair
<1>3. db.rt[t].revoked = NULL
  BY <1>1 DEF BoundTo, IndInv, WellFormed, IsStore, RevokedUnbound, NULL
<1> QED
  BY <1>1, <1>2, <1>3

\* No request deletes a refresh token's row.
LEMMA NextAllRows == IndInv /\ ChainInv /\ AllRows /\ [Next]_vars => AllRows'
<1> SUFFICES ASSUME IndInv, ChainInv, AllRows, [Next]_vars PROVE AllRows'
  OBVIOUS
<1>1. ASSUME NEW X, Moves(db, db', now, X), DOMAIN db.rt \subseteq DOMAIN db'.rt PROVE AllRows'
  <2>1. db.rtSeq \in Nat /\ DOMAIN db.rt = 1 .. db.rtSeq
    BY DEF AllRows, IndInv, TypeOK, IsStore
  <2>2. \A t \in DOMAIN db'.rt : t \in 1 .. db'.rtSeq
    BY <1>1, <2>1 DEF Moves
  <2>3. \A t \in 1 .. db'.rtSeq : t \in DOMAIN db'.rt
    BY <1>1, <2>1 DEF Moves
  <2> QED
    BY <2>2, <2>3 DEF AllRows
<1>2. ASSUME NEW r \in Requests, Step(r) PROVE AllRows'
  BY <1>1, <1>2, StepMoves
<1>3. CASE Environment
  BY <1>1, <1>3, EnvironmentMoves
<1>4. CASE UNCHANGED vars
  BY <1>4 DEF vars, AllRows
<1> QED
  BY <1>2, <1>3, <1>4 DEF Next

\* Every refresh token ever issued still has its row.
LEMMA RowsStay == Spec => []AllRows
<1>1. Init => AllRows
  BY DEF Init, EmptyStore, AllRows
<1> QED
  BY <1>1, Invariance, ChainInvariance, NextAllRows, PTL DEF Spec

\* With or without rotation, and although the two strings of an answer are read one after
\* the other and without a lock, whoever holds a pair that was answered can refresh with
\* it as long as its access token lives: nobody else has, or has been given another half.
THEOREM AnsweredPairKept == Spec => []AnsweredPairHolds
<1>1. IndInv /\ ChainInv /\ PairInv /\ AllRows /\ PairKept /\ [Next]_vars => PairKept'
  BY NextPairs
<1>2. Spec => []PairKept
  BY <1>1, InitPairs, Invariance, ChainInvariance, PairInvariance, RowsStay, PTL DEF Spec
<1> QED
  BY <1>2, KeptPairHolds, Invariance, PairInvariance, PTL

-----------------------------------------------------------------------------
(***************************************************************************)
(* Revocation at the endpoint: the rows its lookup found end up stamped,   *)
(* and only a refresh the revocation knows to be under way adds another.   *)
(***************************************************************************)
\* What a request does to what has been said of it: it goes on with the string it
\* presented, or is over.
GoesOn(q) ==
    req'[q].phase \in Running \cup Committed =>
        /\ req[q].phase \in Running \cup Committed /\ req'[q].late = req[q].late
        /\ req'[q].phase \in Running => req[q].phase \in Running /\ req'[q].code = req[q].code

\* A revocation settled on its rows stays settled when the tables move.
LEMMA CancelCommit ==
    ASSUME IndInv, CancelInv, NEW X, Moves(db, db', now, X), now' \in Nat, now <= now',
           UNCHANGED rev, \A q \in Requests : GoesOn(q),
           \A x \in X : /\ x \in 1 .. db'.rtSeq
                        /\ \A v \in Revocations :
                              rev[v].phase # "new" /\ (Rotate \/ ~rev[v].raced) => rev[v].code # x
    PROVE  CancelInv'
<1>0. /\ now \in Nat /\ now # NULL /\ db.rtSeq \in Nat /\ db'.rtSeq \in Nat /\ db.rtSeq <= db'.rtSeq
      /\ \A t \in DOMAIN db.rt : db.rt[t].revoked \in Nat
      /\ \A v \in Revocations : rev[v] \in Revocation
  BY DEF IndInv, TypeOK, IsStore, RefreshRow, NULL, Moves, Follows
<1>1. ASSUME NEW t \in DOMAIN db'.rt PROVE db'.rt[t].revoked <= now' /\ db'.rt[t].token \in 1 .. db'.rtSeq
  <2>1. CASE t \in DOMAIN db.rt /\ db'.rt[t].token = db.rt[t].token
             /\ db'.rt[t].revoked \in {db.rt[t].revoked, now}
    <3>1. db.rt[t].revoked <= now /\ db.rt[t].token \in 1 .. db.rtSeq
      BY <2>1 DEF CancelInv
    <3> QED
      BY <1>0, <2>1, <3>1
  <2>2. CASE db'.rt[t].revoked = NULL /\ db'.rt[t].token \in X
    BY <2>2 DEF NULL
  <2> QED
    BY <2>1, <2>2 DEF Moves
<1>2. ASSUME NEW v \in Revocations PROVE Cancels(v)'
  <2>0. Cancels(v) /\ rev'[v] = rev[v] /\ rev[v] \in Revocation
    BY <1>0 DEF CancelInv
  <2>1. (rev[v].phase # "new" => rev[v].code \in 1 .. db'.rtSeq) /\ rev[v].at <= now'
    BY <1>0, <2>0 DEF Cancels, Revocation
  <2>2. rev[v].phase # "new" /\ ~rev[v].raced =>
           \A r \in Requests : req'[r].phase \in Running => req'[r].code # rev[v].code
    BY <2>0 DEF Cancels, GoesOn
  <2>3. ASSUME rev[v].phase # "new", Rotate \/ ~rev[v].raced,
               NEW t \in DOMAIN db'.rt, db'.rt[t].token = rev[v].code
        PROVE  \/ rev[v].phase = "revoking" /\ t \in rev[v].rows
               \/ /\ db'.rt[t].revoked # NULL
                  /\ rev[v].phase = "answered" => db'.rt[t].revoked <= rev[v].at
    <3>1. CASE t \in DOMAIN db.rt /\ db'.rt[t].token = db.rt[t].token
      <4>1. \/ rev[v].phase = "revoking" /\ t \in rev[v].rows
            \/ /\ db.rt[t].revoked # NULL
               /\ rev[v].phase = "answered" => db.rt[t].revoked <= rev[v].at
        BY <2>0, <2>3, <3>1 DEF Cancels
      <4>2. db.rt[t].revoked # NULL => db'.rt[t].revoked = db.rt[t].revoked
        <5>1. t # db.rtSeq + 1
          BY <1>0, <3>1 DEF IndInv, WellFormed, IsStore
        <5> QED
          BY <5>1 DEF Moves
      <4> QED
        BY <4>1, <4>2
    <3>2. CASE db'.rt[t].token \in X
      BY <2>3, <3>2
    <3> QED
      BY <3>1, <3>2 DEF Moves
  <2> QED
    BY <2>0, <2>1, <2>2, <2>3 DEF Cancels
<1>3. \A q \in Requests : req'[q].phase \in Running \cup Committed => ~req'[q].late
  BY DEF CancelInv, GoesOn
<1> QED
  BY <1>1, <1>2, <1>3 DEF CancelInv

\* A usable row is none of those a revocation in force has left.
LEMMA UsableAlive ==
    ASSUME IndInv, CancelInv, NEW t \in DOMAIN db.rt, Usable(db.rt[t]),
           NEW v \in Revocations, Over(v), Rotate \/ ~rev[v].raced
    PROVE  db.rt[t].token # rev[v].code
<1>1. rev[v].phase = "answered" /\ rev[v].at + Grace <= now
  BY DEF Over
<1>2. /\ rev[v].at \in Nat /\ now \in Nat /\ Grace \in Nat /\ db.rt[t].revoked \in Nat
  BY RefreshAssumption DEF IndInv, TypeOK, Revocation, IsStore, RefreshRow
<1>3. db.rt[t].token = rev[v].code => db.rt[t].revoked # NULL /\ db.rt[t].revoked <= rev[v].at
  BY <1>1 DEF CancelInv, Cancels
<1> QED
  BY <1>1, <1>2, <1>3 DEF Usable

\* A request that validates a string presents one no revocation in force is about.
LEMMA ValidateCancel ==
    ASSUME IndInv, CancelInv, NEW r \in Requests, Validate(r)
    PROVE  CancelInv'
<1>1. PICK code, t : code = req'[r].code /\ t = req'[r].instance
  OBVIOUS
<1>2. /\ req'[r].late = Dead(code) /\ t \in DOMAIN db.rt /\ Usable(db.rt[t]) /\ db.rt[t].token = code
      /\ Overlap(code) /\ \A q \in Requests \ {r} : req'[q] = req[q]
      /\ UNCHANGED <<now, db, granted>>
  BY <1>1, ValidateRow
<1>3. ~Dead(code)
  BY <1>2, UsableAlive DEF Dead
<1>4. ASSUME NEW v \in Revocations PROVE Cancels(v)'
  <2>1. Cancels(v) /\ rev[v] \in Revocation
    BY DEF CancelInv, IndInv, TypeOK
  <2>2. rev'[v] = IF rev[v].code = code /\ rev[v].phase # "new" /\ ~Over(v)
                  THEN [rev[v] EXCEPT !.raced = TRUE] ELSE rev[v]
    BY <1>2 DEF Overlap
  <2>3. /\ rev'[v].phase = rev[v].phase /\ rev'[v].code = rev[v].code
        /\ rev'[v].rows = rev[v].rows /\ rev'[v].at = rev[v].at
        /\ ~rev'[v].raced => ~rev[v].raced
    BY <2>1, <2>2 DEF Revocation
  <2>4. ASSUME rev'[v].phase # "new", ~rev'[v].raced PROVE code # rev[v].code
    <3>1. rev[v].code = code => Over(v)
      BY <2>1, <2>2, <2>3, <2>4 DEF Revocation
    <3> QED
      BY <1>2, <2>3, <2>4, <3>1, UsableAlive
  <2>5. rev'[v].phase # "new" /\ ~rev'[v].raced =>
           \A q \in Requests : req'[q].phase \in Running => req'[q].code # rev'[v].code
    BY <1>1, <1>2, <2>1, <2>3, <2>4 DEF Cancels
  <2> QED
    BY <1>2, <2>1, <2>3, <2>5 DEF Cancels
<1>5. \A q \in Requests : req'[q].phase \in Running \cup Committed => ~req'[q].late
  BY <1>2, <1>3 DEF CancelInv
<1> QED
  BY <1>2, <1>4, <1>5 DEF CancelInv

\* A refresh that commits brings back no string but its own, and that only without rotation.
LEMMA StepCancel ==
    ASSUME IndInv, ChainInv, PairInv, CancelInv, NEW r \in Requests, Step(r)
    PROVE  CancelInv'
<1>0. now \in Nat /\ db.rtSeq \in Nat
  BY DEF IndInv, TypeOK, IsStore
<1>1. CASE Validate(r)
  BY <1>1, ValidateCancel
<1>2. CASE Waits(r)
  <2>1. \A q \in Requests : GoesOn(q)
    BY <1>2 DEF Waits, GoesOn
  <2>2. Moves(db, db', now, {})
    BY <1>2, StillMoves DEF Waits, IndInv
  <2> QED
    BY <1>0, <1>2, <2>1, <2>2, CancelCommit DEF Waits
<1>3. CASE Commits(r)
  <2>1. PICK access, refresh : Succeed(r, access, refresh) /\ UNCHANGED <<now, rev>>
    BY <1>3 DEF Commits, ReuseAccess, IssueFresh, AnswerPrevious
  <2>2. req[r].phase \in Running
    BY <1>3 DEF Commits, ReuseAccess, IssueFresh, AnswerPrevious, Running
  <2>3. /\ req'[r].phase = "saved" /\ req'[r].late = req[r].late
        /\ \A q \in Requests \ {r} : req'[q] = req[q]
    BY <2>1, SucceedRow
  <2>4. \A q \in Requests : GoesOn(q)
    BY <2>2, <2>3 DEF GoesOn, Running
  <2>5. CASE IssueFresh(r)
    <3> DEFINE x == IF Rotate THEN db.rtSeq + 1 ELSE req[r].code
    <3>1. Moves(db, db', now, {x})
      BY <1>3, <2>5, ExchangeMoves
    <3>2. req[r].phase = "read" /\ req[r].instance \in DOMAIN db.rt
      BY <2>5 DEF IssueFresh, IndInv, LockedRowExists, InTransaction
    <3>3. req[r].code \in 1 .. db.rtSeq
      BY <3>2 DEF PairInv, KnowsPair, Running, CancelInv
    <3>4. db'.rtSeq \in Nat /\ db.rtSeq + 1 <= db'.rtSeq
      <4>1. PICK t, R : t = req[r].instance /\ R = RevokeRefresh(db, {t}, now)
        OBVIOUS
      <4>2. PICK A : A = CreateAccess(R, req[r].scope, req[r].expires, t)
        OBVIOUS
      <4>3. db'.rtSeq = db.rtSeq + 1
        BY <2>5, <4>1, <4>2, IssueFreshTables, ExchangeRows
      <4> QED
        BY <1>0, <4>3
    <3>5. x \in 1 .. db'.rtSeq
      BY <1>0, <3>3, <3>4
    <3>6. ASSUME NEW v \in Revocations, rev[v].phase # "new", Rotate \/ ~rev[v].raced
          PROVE  rev[v].code # x
      <4>1. Cancels(v)
        BY DEF CancelInv
      <4>2. CASE Rotate
        BY <1>0, <3>6, <4>1, <4>2 DEF Cancels
      <4>3. CASE ~Rotate
        BY <2>2, <3>6, <4>1, <4>3 DEF Cancels
      <4> QED
        BY <4>2, <4>3
    <3> HIDE DEF x
    <3> QED
      BY <1>0, <2>1, <2>4, <3>1, <3>5, <3>6, CancelCommit
  <2>6. CASE ~IssueFresh(r)
    <3>1. Moves(db, db', now, {})
      BY <2>6, StepMoves
    <3> QED
      BY <1>0, <2>1, <2>4, <3>1, CancelCommit
  <2> QED
    BY <2>5, <2>6
<1> QED
  BY <1>1, <1>2, <1>3, StatementOrCommit

\* The revocation endpoint's own statements.
LEMMA RevocationCancel ==
    ASSUME IndInv, ChainInv, CancelInv, NEW v \in Revocations, RevokeRefreshToken(v)
    PROVE  CancelInv'
<1>0. /\ now \in Nat \ {NULL} /\ db.rtSeq \in Nat /\ WellFormed(db) /\ Chained(db, granted)
      /\ \A t \in DOMAIN db.rt : db.rt[t].revoked \in Nat
      /\ rev \in [Revocations -> Revocation] /\ Cancels(v)
  BY DEF IndInv, TypeOK, ChainInv, Chained, IsStore, RefreshRow, NULL, CancelInv
<1>1. ASSUME NEW code \in 1 .. db.rtSeq, NEW hint, LookUpRefresh(v, code, hint) PROVE CancelInv'
  <2>1. PICK rows : rows = {t \in DOMAIN db.rt : db.rt[t].token = code}
    OBVIOUS
  <2>2. PICK raced \in BOOLEAN : raced = \E r \in Requests : req[r].phase \in Running /\ req[r].code = code
    OBVIOUS
  <2>3. /\ rev' = [rev EXCEPT ![v] = [rev[v] EXCEPT !.phase = "revoking", !.code = code, !.rows = rows,
                                              !.raced = raced]]
        /\ UNCHANGED <<now, db, req, granted>>
    BY <1>1, <2>1, <2>2 DEF LookUpRefresh
  <2>4. /\ rev'[v].phase = "revoking" /\ rev'[v].code = code /\ rev'[v].rows = rows
        /\ rev'[v].raced = raced /\ rev'[v].at = rev[v].at
        /\ \A w \in Revocations \ {v} : rev'[w] = rev[w]
    BY <1>0, <2>3 DEF Revocation
  <2>5. Cancels(v)'
    BY <1>0, <2>1, <2>2, <2>3, <2>4 DEF Cancels
  <2>6. \A w \in Revocations \ {v} : Cancels(w)'
    BY <2>3, <2>4 DEF Cancels, CancelInv
  <2> QED
    BY <2>3, <2>5, <2>6 DEF CancelInv
<1>2. ASSUME RevokeRow(v) PROVE CancelInv'
  <2>1. PICK t \in rev[v].rows :
          /\ db' = RevokeRefresh(db, {t}, now)
          /\ rev' = [rev EXCEPT ![v] = [rev[v] EXCEPT !.rows = rev[v].rows \ {t}]]
          /\ UNCHANGED <<now, req, granted>> /\ rev[v].phase = "revoking"
    BY <1>2 DEF RevokeRow
  <2>2. /\ rev'[v].phase = rev[v].phase /\ rev'[v].code = rev[v].code
        /\ rev'[v].rows = rev[v].rows \ {t}
        /\ rev'[v].raced = rev[v].raced /\ rev'[v].at = rev[v].at
        /\ \A w \in Revocations \ {v} : rev'[w] = rev[w]
    BY <1>0, <2>1 DEF Revocation
  <2>3. /\ Moves(db, db', now, {}) /\ DOMAIN db'.rt = DOMAIN db.rt /\ db'.rtSeq = db.rtSeq
        /\ t \in DOMAIN db.rt => db'.rt[t].revoked # NULL
    BY <1>0, <2>1, RevokeMoves, RevokeRefreshFields
  <2>4. \A u \in DOMAIN db.rt :
          /\ db'.rt[u].token = db.rt[u].token
          /\ \/ db'.rt[u].revoked = db.rt[u].revoked
             \/ db.rt[u].revoked = NULL /\ db'.rt[u].revoked = now
    BY <2>3 DEF Moves
  <2>5. Cancels(v)'
    BY <1>0, <2>1, <2>2, <2>3, <2>4 DEF Cancels
  <2>6. ASSUME NEW w \in Revocations \ {v} PROVE Cancels(w)'
    <3>1. Cancels(w) /\ rev'[w] = rev[w]
      BY <2>2 DEF CancelInv
    <3>2. ASSUME rev[w].phase # "new", Rotate \/ ~rev[w].raced,
                 NEW u \in DOMAIN db.rt, db'.rt[u].token = rev[w].code
          PROVE  \/ rev[w].phase = "revoking" /\ u \in rev[w].rows
                 \/ /\ db'.rt[u].revoked # NULL
                    /\ rev[w].phase = "answered" => db'.rt[u].revoked <= rev[w].at
      <4>1. \/ rev[w].phase = "revoking" /\ u \in rev[w].rows
            \/ /\ db.rt[u].revoked # NULL
               /\ rev[w].phase = "answered" => db.rt[u].revoked <= rev[w].at
        BY <2>4, <3>1, <3>2 DEF Cancels
      <4>2. CASE db.rt[u].revoked # NULL
        <5>1. db'.rt[u].revoked = db.rt[u].revoked
          BY <2>4, <4>2
        <5> QED
          BY <4>1, <5>1
      <4> QED
        BY <4>1, <4>2
    <3>3. /\ rev[w].phase # "new" => rev[w].code \in 1 .. db'.rtSeq
          /\ rev[w].at <= now'
      BY <2>1, <2>3, <3>1 DEF Cancels
    <3>4. rev[w].phase # "new" /\ ~rev[w].raced =>
              \A r \in Requests : req'[r].phase \in Running => req'[r].code # rev[w].code
      BY <2>1, <3>1 DEF Cancels
    <3> QED
      BY <2>3, <3>1, <3>2, <3>3, <3>4 DEF Cancels
  <2>7. ASSUME NEW u \in DOMAIN db'.rt
        PROVE  db'.rt[u].revoked <= now' /\ db'.rt[u].token \in 1 .. db'.rtSeq
    <3>1. u \in DOMAIN db.rt
      BY <2>3
    <3>2. db.rt[u].revoked <= now /\ db.rt[u].token \in 1 .. db.rtSeq
      BY <3>1 DEF CancelInv
    <3>3. /\ db'.rt[u].token = db.rt[u].token
          /\ db'.rt[u].revoked \in {db.rt[u].revoked, now}
      BY <2>4, <3>1
    <3>4. now' = now /\ db'.rtSeq = db.rtSeq /\ now \in Nat
      BY <1>0, <2>1, <2>3
    <3> QED
      BY <3>2, <3>3, <3>4
  <2> QED
    BY <2>1, <2>5, <2>6, <2>7 DEF CancelInv
<1>3. ASSUME AnswerRevocation(v) PROVE CancelInv'
  <2>1. /\ rev' = [rev EXCEPT ![v] = [rev[v] EXCEPT !.phase = "answered", !.at = now]]
        /\ UNCHANGED <<now, db, req, granted>> /\ rev[v].phase = "revoking" /\ rev[v].rows = {}
    BY <1>3 DEF AnswerRevocation
  <2>2. /\ rev'[v].phase = "answered" /\ rev'[v].code = rev[v].code
        /\ rev'[v].raced = rev[v].raced /\ rev'[v].at = now
        /\ \A w \in Revocations \ {v} : rev'[w] = rev[w]
    BY <1>0, <2>1 DEF Revocation
  <2>3. Cancels(v)'
    BY <1>0, <2>1, <2>2 DEF Cancels, CancelInv
  <2>4. \A w \in Revocations \ {v} : Cancels(w)'
    BY <2>1, <2>2 DEF Cancels, CancelInv
  <2> QED
    BY <2>1, <2>3, <2>4 DEF CancelInv
<1> QED
  BY <1>1, <1>2, <1>3 DEF RevokeRefreshToken

\* New grants draw new strings, and the clock only advances.
LEMMA EnvironmentCancel ==
    ASSUME IndInv, ChainInv, CancelInv, Environment
    PROVE  CancelInv'
<1>0. now \in Nat /\ db.rtSeq \in Nat /\ \A q \in Requests : req'[q] = req[q] => GoesOn(q)
  BY DEF IndInv, TypeOK, IsStore, GoesOn
<1>1. ASSUME NEW scope \in SUBSET Scopes, IssueTokens(scope) PROVE CancelInv'
  <2>1. CASE db'.rtSeq = db.rtSeq /\ db'.rt = db.rt
    <3>1. Moves(db, db', now, {})
      BY <1>0, <1>1, <2>1, IssueTokensChained DEF Moves
    <3> QED
      BY <1>0, <1>1, <3>1, CancelCommit DEF IssueTokens
  <2>2. CASE db'.rtSeq = db.rtSeq + 1
    <3>1. Moves(db, db', now, {db.rtSeq + 1})
      BY EnvironmentMoves
    <3>2. db.rtSeq + 1 \in 1 .. db'.rtSeq
      BY <1>0, <2>2
    <3>3. \A v \in Revocations : rev[v].phase # "new" => rev[v].code # db.rtSeq + 1
      BY <1>0 DEF CancelInv, Cancels
    <3> QED
      BY <1>0, <1>1, <3>1, <3>2, <3>3, CancelCommit DEF IssueTokens
  <2> QED
    BY <1>1, <2>1, <2>2, IssueTokensChained
<1>2. ASSUME NEW a, RevokeAccessToken(a) PROVE CancelInv'
  <2>1. Moves(db, db', now, {})
    BY <1>2, DeleteMoves DEF RevokeAccessToken, IndInv, ChainInv, Chained
  <2> QED
    BY <1>0, <1>2, <2>1, CancelCommit DEF RevokeAccessToken
<1>3. CASE Tick
  <2>1. Moves(db, db', now, {}) /\ now' = now + 1 /\ UNCHANGED <<db, req, rev>>
    BY <1>3, StillMoves DEF Tick, IndInv
  <2> QED
    BY <1>0, <2>1, CancelCommit
<1> QED
  BY <1>1, <1>2, <1>3, RevocationCancel DEF Environment, AuthorizedTokenDelete

\* Every step keeps revocations in force, and lets nobody late go on.
LEMMA NextCancel == IndInv /\ ChainInv /\ PairInv /\ CancelInv /\ [Next]_vars => CancelInv'
<1> SUFFICES ASSUME IndInv, ChainInv, PairInv, CancelInv, [Next]_vars PROVE CancelInv'
  OBVIOUS
<1>1. CASE Next
  BY <1>1, StepCancel, EnvironmentCancel DEF Next
<1>2. CASE UNCHANGED vars
  BY <1>2 DEF vars, CancelInv, Cancels
<1> QED
  BY <1>1, <1>2

\* Nothing is revoked at first.
LEMMA InitCancel == Init => CancelInv
BY DEF Init, EmptyStore, NewRequest, NewRevocation, CancelInv, Cancels, Running, Committed, NULL

\* A revocation that was answered stays in force, in every reachable state.
THEOREM CancelInvariance == Spec => []CancelInv
  BY InitCancel, NextCancel, Invariance, ChainInvariance, PairInvariance, PTL DEF Spec

\* Once the endpoint has answered for a string and the grace period is over, whoever
\* presents the string obtains nothing: with rotation whatever was under way meanwhile,
\* without it unless a refresh with the string was.
THEOREM RevocationEndsExchange == Spec => []RevokedBuysNothing
<1>1. CancelInv => RevokedBuysNothing
  BY DEF CancelInv, RevokedBuysNothing
<1> QED
  BY <1>1, CancelInvariance, PTL
-----------------------------------------------------------------------------
(***************************************************************************)
(* The refinement: every commit is an action of RefreshPromise, everything *)
(* before it a stutter.                                                    *)
(***************************************************************************)
\* The mapping keeps the keys of both tables.
LEMMA MappedDomains ==
    ASSUME NEW S
    PROVE  DOMAIN MappedAccess(S) = DOMAIN S.at /\ DOMAIN MappedRefresh(S) = DOMAIN S.rt
BY DEF MappedAccess, MappedRefresh

MappedSpent(S, V) ==
    [t \in DOMAIN S.rt |-> IF t \in V THEN [access |-> NULL, spent |-> TRUE] ELSE MappedRefresh(S)[t]]

Held(S, V) == {S.rt[t].access : t \in V}

MappedWithout(S, A) == [a \in DOMAIN S.at \ A |-> MappedAccess(S)[a]]

\* RefreshToken.revoke, seen through the mapping, whichever of the rows it was asked to
\* revoke had been revoked before.
LEMMA RevokeMapped ==
    ASSUME NEW S, WellFormed(S), UniqueBinding(S), NEW T, NEW when \in Nat \ {NULL},
           NEW R, R = RevokeRefresh(S, T, when),
           NEW V, V \subseteq T \cap DOMAIN S.rt,
           \A t \in T \cap DOMAIN S.rt : S.rt[t].revoked = NULL => t \in V
    PROVE  /\ MappedAccess(R) = MappedWithout(S, Held(S, V))
           /\ MappedRefresh(R) = MappedSpent(S, V)
<1>1. PICK unspent : unspent = {t \in T \cap DOMAIN S.rt : S.rt[t].revoked = NULL}
  OBVIOUS
<1>2. RefreshSpent(S, R, unspent, when)
  BY <1>1, RevokeRefreshExact
<1>3. R.at = [a \in DOMAIN S.at \ {S.rt[t].access : t \in unspent} |-> S.at[a]]
  BY <1>2 DEF RefreshSpent
<1>4. R.rt = [t \in DOMAIN S.rt |->
                 IF t \in unspent
                 THEN [token |-> S.rt[t].token, access |-> NULL, revoked |-> when]
                 ELSE S.rt[t]]
  BY <1>2 DEF RefreshSpent
<1>5. NULL \notin DOMAIN S.at /\ \A t \in V : t \notin unspent => S.rt[t].revoked # NULL /\ S.rt[t].access = NULL
  BY <1>1 DEF WellFormed, IsStore, RevokedUnbound, NULL
<1>6. unspent \subseteq V /\ V \subseteq DOMAIN S.rt
  BY <1>1
<1>7. DOMAIN S.at \ {S.rt[t].access : t \in unspent} = DOMAIN S.at \ Held(S, V)
  BY <1>5, <1>6 DEF Held
<1>8. MappedAccess(R) = MappedWithout(S, Held(S, V))
  BY <1>3, <1>7 DEF MappedAccess, MappedWithout
<1>9. MappedRefresh(R) = MappedSpent(S, V)
  <2>1. DOMAIN R.rt = DOMAIN S.rt
    BY <1>4
  <2>2. ASSUME NEW t \in DOMAIN S.rt
        PROVE  [access |-> R.rt[t].access, spent |-> R.rt[t].revoked # NULL] = MappedSpent(S, V)[t]
    <3>1. CASE t \in unspent
      <4>1. R.rt[t].access = NULL /\ R.rt[t].revoked = when /\ t \in V
        BY <1>4, <1>6, <3>1
      <4>2. (R.rt[t].revoked # NULL) = TRUE
        BY <4>1
      <4> QED
        BY <4>1, <4>2 DEF MappedSpent
    <3>2. CASE t \in V /\ t \notin unspent
      BY <1>4, <1>5, <3>2 DEF MappedSpent
    <3>3. CASE t \notin V
      BY <1>4, <1>6, <3>3 DEF MappedSpent, MappedRefresh
    <3> QED
      BY <3>1, <3>2, <3>3
  <2> QED
    BY <2>1, <2>2 DEF MappedRefresh, MappedSpent
<1> QED
  BY <1>8, <1>9

\* A row created in either table, seen through the mapping.
LEMMA AccessCreatedMapped ==
    ASSUME NEW S, NEW C, NEW source, AccessCreated(S, C, source)
    PROVE  MappedAccess(C) = Promise!With(MappedAccess(S), C.atSeq,
                                        [source |-> source, scope |-> C.at[C.atSeq].scope])
BY DEF AccessCreated, MappedAccess, Promise!With

\* And one created in the refresh-token table.
LEMMA RefreshCreatedMapped ==
    ASSUME NEW S, NEW C, NEW token, NEW access, RefreshCreated(S, C, token, access)
    PROVE  MappedRefresh(C) = Promise!With(MappedRefresh(S), C.rtSeq, [access |-> access, spent |-> FALSE])
<1> DEFINE row(t) == [access |-> C.rt[t].access, spent |-> C.rt[t].revoked # NULL]
<1>1. DOMAIN C.rt = DOMAIN S.rt \cup {C.rtSeq} /\ C.rtSeq \notin DOMAIN S.rt
  BY DEF RefreshCreated
<1>2. row(C.rtSeq) = [access |-> access, spent |-> FALSE]
  <2>1. C.rt[C.rtSeq].access = access /\ C.rt[C.rtSeq].revoked = NULL
    BY DEF RefreshCreated
  <2>2. (C.rt[C.rtSeq].revoked # NULL) = FALSE
    BY <2>1
  <2> QED
    BY <2>1, <2>2
<1>3. \A t \in DOMAIN S.rt : row(t) = MappedRefresh(S)[t]
  BY DEF RefreshCreated, MappedRefresh
<1>4. DOMAIN MappedRefresh(S) = DOMAIN S.rt /\ MappedRefresh(C) = [t \in DOMAIN C.rt |-> row(t)]
  BY DEF MappedRefresh
<1> HIDE DEF row
<1> QED
  BY <1>1, <1>2, <1>3, <1>4 DEF Promise!With
\* A grant by another flow is a grant.
LEMMA IssueTokensGrants ==
    ASSUME IndInv, NEW scope \in SUBSET Scopes, IssueTokens(scope)
    PROVE  Promise!Grant
<1>1. PICK A : A = CreateAccess(db, scope, now + AccessLife, NULL)
  OBVIOUS
<1>2. now + AccessLife \in Nat /\ NULL \in Nat /\ NULL \in DOMAIN db.rt \cup {NULL} /\ WellFormed(db)
  BY RefreshAssumption DEF IndInv, TypeOK, NULL
<1>8. db.rtSeq + 1 \notin DOMAIN granted
  BY DEF IndInv, TypeOK, IsStore
<1>3. WellFormed(A) /\ AccessCreated(db, A, NULL)
  BY <1>1, <1>2, CreateAccessWellFormed
<1>4. A.at[A.atSeq].scope = scope
  <2>1. A.at[A.atSeq] = [token |-> A.strings, scope |-> scope,
                         expires |-> now + AccessLife, source |-> NULL]
    BY <1>1, <1>2, CreateAccessRow DEF WellFormed
  <2> QED
    BY <2>1
<1>5. /\ MappedAccess(A) = Promise!With(MappedAccess(db), A.atSeq, [source |-> NULL, scope |-> scope])
      /\ A.atSeq \in DOMAIN A.at \ DOMAIN db.at
      /\ A.rt = db.rt /\ A.rtSeq = db.rtSeq
  BY <1>3, <1>4, AccessCreatedMapped DEF AccessCreated
<1>6. CASE db' = A /\ UNCHANGED granted
  <2>1. /\ MappedAccess(db') = MappedAccess(A) /\ MappedRefresh(db') = MappedRefresh(db)
        /\ db'.at = A.at
    BY <1>5, <1>6 DEF MappedRefresh
  <2> QED
    BY <1>5, <1>6, <2>1, MappedDomains DEF Promise!Grant, Promise!NewAccess, Promise!NoKey, NULL
<1>7. CASE db' = CreateRefresh(A, A.rtSeq + 1, A.atSeq) /\ granted' = Insert(granted, A.rtSeq + 1, scope)
  <2>1. A.atSeq \in DOMAIN A.at /\ A.atSeq \in Nat /\ A.rtSeq + 1 \in Nat
    BY <1>3 DEF AccessCreated, WellFormed, IsStore
  <2>2. RefreshCreated(A, db', A.rtSeq + 1, A.atSeq)
    BY <1>3, <1>7, <2>1, CreateRefreshWellFormed
  <2>3. /\ MappedRefresh(db') = Promise!With(MappedRefresh(A), db'.rtSeq, [access |-> A.atSeq, spent |-> FALSE])
        /\ db'.at = A.at /\ db'.rtSeq = A.rtSeq + 1
        /\ db'.rtSeq \in DOMAIN db'.rt \ DOMAIN db.rt
    BY <1>5, <2>2, RefreshCreatedMapped DEF RefreshCreated
  <2>4. /\ MappedAccess(db') = MappedAccess(A) /\ MappedRefresh(A) = MappedRefresh(db)
        /\ granted' = Promise!With(granted, db'.rtSeq, scope)
    BY <1>5, <1>7, <2>3 DEF MappedAccess, MappedRefresh, Insert, Promise!With
  <2> QED
    BY <1>5, <1>8, <2>3, <2>4, MappedDomains
    DEF Promise!Grant, Promise!NewAccess, Promise!NewRefresh, Promise!NoKey, NULL
<1> QED
  BY <1>1, <1>6, <1>7 DEF IssueTokens

\* Access tokens taken away, and the access tokens a set of refresh tokens holds.
LEMMA WithoutMapped ==
    ASSUME NEW A
    PROVE  Promise!AccessWithout(A) = MappedWithout(db, A)
BY MappedDomains DEF Promise!AccessWithout, Promise!Restrict, MappedWithout

\* The abstract revocation takes what the rows of the table hold.
LEMMA BoundMapped ==
    ASSUME NEW V, V \subseteq DOMAIN db.rt
    PROVE  Promise!BoundAccess(V) = Held(db, V)
BY DEF Promise!BoundAccess, Held, MappedRefresh

\* The commit of save_bearer_token that issues a new pair is the exchange.
LEMMA IssueFreshExchanges ==
    ASSUME IndInv, ChainInv, NEW r \in Requests, IssueFresh(r)
    PROVE  Promise!Exchange
<1>1. PICK t, R : t = req[r].instance /\ R = RevokeRefresh(db, {t}, now)
  OBVIOUS
<1>2. PICK A : A = CreateAccess(R, req[r].scope, req[r].expires, t)
  OBVIOUS
<1>3. ExchangeCommits(r, t, R, A)
  BY <1>1, <1>2, IssueFreshTables
<1>4. /\ t \in DOMAIN db.rt /\ SourcedBy(db, t) = {} /\ req[r].scope \subseteq granted[t]
      /\ Shrinks(db, R) /\ AccessCreated(R, A, t) /\ A.at[A.atSeq].scope = req[r].scope
      /\ granted' = Insert(granted, db.rtSeq + 1, granted[t])
  BY <1>3 DEF ExchangeCommits, NewSuccessor
<1>5. PICK token : RefreshCreated(A, db', token, A.atSeq)
  BY <1>3 DEF ExchangeCommits
<1>6. /\ WellFormed(db) /\ UniqueBinding(db) /\ now \in Nat \ {NULL} /\ req[r].scope \in SUBSET Scopes
      /\ granted \in [1 .. db.rtSeq -> SUBSET Scopes] /\ db.rtSeq \in Nat /\ db.atSeq \in Nat
      /\ DOMAIN db.at \subseteq 1 .. db.atSeq
  BY DEF IndInv, TypeOK, ChainInv, Request, IsStore, NULL
<1>7. /\ MappedAccess(R) = MappedWithout(db, Held(db, {t}))
      /\ MappedRefresh(R) = MappedSpent(db, {t})
  <2>1. {t} \subseteq {t} \cap DOMAIN db.rt /\ \A x \in {t} \cap DOMAIN db.rt : db.rt[x].revoked = NULL => x \in {t}
    BY <1>4
  <2> QED
    BY <1>1, <1>6, <2>1, RevokeMapped
<1>8. /\ MappedAccess(A) = Promise!With(MappedAccess(R), A.atSeq, [source |-> t, scope |-> req[r].scope])
      /\ MappedRefresh(db') = Promise!With(MappedRefresh(A), db'.rtSeq, [access |-> A.atSeq, spent |-> FALSE])
  BY <1>4, <1>5, AccessCreatedMapped, RefreshCreatedMapped
<1>9. /\ MappedAccess(db') = MappedAccess(A) /\ MappedRefresh(A) = MappedRefresh(R)
      /\ db'.rtSeq = db.rtSeq + 1 /\ A.atSeq = db.atSeq + 1
      /\ A.atSeq \in DOMAIN db'.at /\ db'.rtSeq \in DOMAIN db'.rt /\ db'.rtSeq \notin DOMAIN db.rt
  BY <1>4, <1>5 DEF MappedAccess, MappedRefresh, AccessCreated, RefreshCreated, Shrinks
<1>10. A.atSeq \notin DOMAIN db.at /\ db'.rtSeq \notin DOMAIN granted
  BY <1>6, <1>9
<1>11. A.atSeq \in Promise!NewAccess /\ db'.rtSeq \in Promise!NewRefresh
  BY <1>9, <1>10, MappedDomains DEF Promise!NewAccess, Promise!NewRefresh
<1>12. t \in DOMAIN MappedRefresh(db) /\ Promise!Exchanged(t) = {}
  BY <1>4 DEF Promise!Exchanged, SourcedBy, MappedAccess, MappedRefresh
<1>13. MappedWithout(db, Held(db, {t})) = Promise!AccessWithout(Promise!BoundAccess({t}))
  BY <1>4, WithoutMapped, BoundMapped
<1>14. MappedSpent(db, {t}) = Promise!Spent({t})
  BY MappedDomains DEF MappedSpent, Promise!Spent, Promise!NoKey, NULL
<1>15. granted' = Promise!With(granted, db'.rtSeq, granted[t])
  BY <1>4, <1>9 DEF Insert, Promise!With
<1>16. req[r].scope \in SUBSET Scopes /\ req[r].scope \subseteq granted[t]
  BY <1>4, <1>6
<1> QED
  BY <1>7, <1>8, <1>9, <1>11, <1>12, <1>13, <1>14, <1>15, <1>16 DEF Promise!Exchange

\* A refresh without rotation reissues the access token in place, also when the refresh
\* token presented has been swept away since it was validated.
LEMMA ReuseAccessReissues ==
    ASSUME IndInv, ChainInv, NEW r \in Requests, ReuseAccess(r), req[r].access \in DOMAIN db.at
    PROVE  IF req[r].instance \in DOMAIN db.rt THEN Promise!Reissue ELSE Promise!ReissueLeft
<1> DEFINE a == req[r].access
           t == req[r].instance
<1>1. /\ db' = UpdateAccess(db, a, req[r].scope, req[r].expires)
      /\ UNCHANGED granted /\ req[r].phase = "scoped"
  BY DEF ReuseAccess
<1>2. Attached(db, granted, t, a, req[r].scope)
  BY <1>1 DEF ChainInv, RequestOfChain, Running
<1>3. IsStore(db) /\ req[r].scope \in SUBSET Scopes /\ a # NULL
  BY DEF IndInv, TypeOK, Request, IsStore, NULL
<1>4. db'.rt = db.rt /\ db'.at = [db.at EXCEPT ![a] = [token |-> db'.strings, scope |-> req[r].scope,
                                     expires |-> req[r].expires, source |-> db.at[a].source]]
  BY <1>1, <1>3, UpdateAccessRow DEF UpdateAccess, IsStore
<1>5. MappedAccess(db') = [MappedAccess(db) EXCEPT ![a].scope = req[r].scope]
  <2>1. DOMAIN db'.at = DOMAIN db.at
    BY <1>4
  <2>2. ASSUME NEW b \in DOMAIN db.at
        PROVE  MappedAccess(db')[b] = [MappedAccess(db) EXCEPT ![a].scope = req[r].scope][b]
    <3>1. CASE b = a
      <4>1. db'.at[b].scope = req[r].scope /\ db'.at[b].source = db.at[b].source
        BY <1>4, <3>1
      <4> QED
        BY <2>1, <3>1, <4>1 DEF MappedAccess
    <3>2. CASE b # a
      BY <1>4, <2>1, <3>2 DEF MappedAccess
    <3> QED
      BY <3>1, <3>2
  <2>3. /\ MappedAccess(db') = [b \in DOMAIN db.at |-> MappedAccess(db')[b]]
        /\ [MappedAccess(db) EXCEPT ![a].scope = req[r].scope]
             = [b \in DOMAIN db.at |-> [MappedAccess(db) EXCEPT ![a].scope = req[r].scope][b]]
    BY <2>1 DEF MappedAccess
  <2> QED
    BY <2>2, <2>3
<1>6. MappedRefresh(db') = MappedRefresh(db)
  BY <1>4 DEF MappedRefresh
<1>7. CASE t \in DOMAIN db.rt
  <2>1. t \in DOMAIN MappedRefresh(db) /\ MappedRefresh(db)[t].access = a /\ req[r].scope \subseteq granted[t]
    BY <1>2, <1>7 DEF Attached, BoundTo, MappedRefresh
  <2>2. MappedAccess(db') = [MappedAccess(db) EXCEPT ![MappedRefresh(db)[t].access].scope = req[r].scope]
    BY <1>5, <2>1
  <2>3. MappedRefresh(db)[t].access # Promise!NoKey
    BY <1>3, <2>1 DEF Promise!NoKey, NULL
  <2> HIDE DEF a, t
  <2>4. Promise!Reissue
    BY <1>1, <1>3, <1>6, <2>1, <2>2, <2>3 DEF Promise!Reissue
  <2> QED
    BY <1>7, <2>4 DEF t
<1>8. CASE t \notin DOMAIN db.rt
  <2>1. /\ a \in DOMAIN MappedAccess(db) /\ t \in DOMAIN granted \ DOMAIN MappedRefresh(db)
        /\ req[r].scope \in SUBSET granted[t]
    BY <1>2, <1>8, MappedDomains DEF Attached
  <2>2. Promise!Unbound(a)
    <3>1. BoundTo(db, a) = {}
      BY <1>2, <1>8 DEF Attached
    <3> QED
      BY <3>1 DEF Promise!Unbound, MappedRefresh, BoundTo
  <2>3. MappedAccess(db)[a].source # Promise!NoKey => granted[MappedAccess(db)[a].source] = granted[t]
    BY <1>2 DEF Attached, MappedAccess, Promise!NoKey, NULL
  <2> HIDE DEF a, t
  <2>4. Promise!ReissueLeft
    BY <1>1, <1>5, <1>6, <2>1, <2>2, <2>3 DEF Promise!ReissueLeft
  <2> QED
    BY <1>8, <2>4 DEF t
<1> QED
  BY <1>7, <1>8

\* RefreshToken.revoke, whoever calls it, spends the unspent rows among those it is given.
LEMMA RevokesMapped ==
    ASSUME WellFormed(db), UniqueBinding(db), now \in Nat \ {NULL}, NEW T,
           db' = RevokeRefresh(db, T, now), UNCHANGED granted
    PROVE  Promise!Revoke
<1> DEFINE V == {t \in T \cap DOMAIN db.rt : db.rt[t].revoked = NULL}
<1>1. /\ V \subseteq T \cap DOMAIN db.rt
      /\ \A t \in T \cap DOMAIN db.rt : db.rt[t].revoked = NULL => t \in V
  OBVIOUS
<1>2. V \in SUBSET {t \in DOMAIN MappedRefresh(db) : ~MappedRefresh(db)[t].spent}
  BY DEF MappedRefresh
<1> HIDE DEF V
<1>3. /\ MappedAccess(db') = MappedWithout(db, Held(db, V))
      /\ MappedRefresh(db') = MappedSpent(db, V)
  BY <1>1, RevokeMapped
<1>4. MappedWithout(db, Held(db, V)) = Promise!AccessWithout(Promise!BoundAccess(V))
  BY <1>1, WithoutMapped, BoundMapped
<1>5. MappedSpent(db, V) = Promise!Spent(V)
  BY MappedDomains DEF MappedSpent, Promise!Spent, Promise!NoKey, NULL
<1> QED
  BY <1>2, <1>3, <1>4, <1>5 DEF Promise!Revoke

\* Deleting access tokens, some perhaps gone already, sweeps them and unbinds their
\* refresh tokens.
LEMMA DeletesSweep ==
    ASSUME WellFormed(db), NEW A, NEW K, K = A \cap DOMAIN db.at,
           db' = DeleteAccess(db, A), UNCHANGED granted
    PROVE  Promise!Sweep(K)
<1>1. AccessDeleted(db, db', A) /\ IsStore(db)
  BY DeleteAccessFields DEF WellFormed
<1>2. \A t \in DOMAIN db.rt :
        /\ db.rt[t].access \in A => db.rt[t].access \in K \/ db.rt[t].access = NULL
        /\ db.rt[t].access \in K => db.rt[t].access \in A
  BY DEF WellFormed, ForeignKeys
<1>3. MappedAccess(db') = Promise!AccessWithout(K)
  <2>1. DOMAIN db.at \ A = DOMAIN db.at \ K
    OBVIOUS
  <2>2. MappedAccess(db') = MappedWithout(db, K)
    BY <1>1, <2>1 DEF AccessDeleted, MappedAccess, MappedWithout
  <2> QED
    BY <2>2, WithoutMapped
<1>4. MappedRefresh(db') = Promise!RefreshWithout(K)
  <2>1. /\ DOMAIN db'.rt = DOMAIN db.rt
        /\ \A t \in DOMAIN db.rt : db.rt[t] \in RefreshRow
        /\ \A t \in DOMAIN db.rt : db'.rt[t] = IF db.rt[t].access \in A
                                              THEN [db.rt[t] EXCEPT !.access = NULL] ELSE db.rt[t]
    BY <1>1 DEF AccessDeleted, IsStore
  <2>2. ASSUME NEW t \in DOMAIN db.rt
        PROVE  MappedRefresh(db')[t] = Promise!RefreshWithout(K)[t]
    <3>1. CASE db.rt[t].access \in K
      <4>1. db'.rt[t].access = NULL /\ db'.rt[t].revoked = db.rt[t].revoked
        BY <1>2, <2>1, <3>1 DEF RefreshRow
      <4> QED
        BY <2>1, <3>1, <4>1 DEF MappedRefresh, Promise!RefreshWithout, Promise!NoKey, NULL
    <3>2. CASE db.rt[t].access \notin K
      <4>1. db'.rt[t].access = db.rt[t].access /\ db'.rt[t].revoked = db.rt[t].revoked
        <5>1. db.rt[t].access \in A => db.rt[t].access = NULL
          BY <1>2, <3>2
        <5> QED
          BY <2>1, <5>1 DEF RefreshRow
      <4> QED
        BY <2>1, <3>2, <4>1 DEF MappedRefresh, Promise!RefreshWithout
    <3> QED
      BY <3>1, <3>2
  <2>3. /\ DOMAIN MappedRefresh(db') = DOMAIN db.rt /\ DOMAIN Promise!RefreshWithout(K) = DOMAIN db.rt
        /\ MappedRefresh(db') = [t \in DOMAIN db.rt |-> MappedRefresh(db')[t]]
        /\ Promise!RefreshWithout(K) = [t \in DOMAIN db.rt |-> Promise!RefreshWithout(K)[t]]
    BY <2>1 DEF MappedRefresh, Promise!RefreshWithout
  <2> QED
    BY <2>2, <2>3
<1> QED
  BY <1>3, <1>4 DEF Promise!Sweep

\* Deleting an access token, whatever else no row has any more is deleted with it, drops it.
LEMMA DeletesDrop ==
    ASSUME WellFormed(db), NEW a \in DOMAIN db.at, NEW A, A \cap DOMAIN db.at = {a},
           db' = DeleteAccess(db, A), UNCHANGED granted
    PROVE  Promise!Drop
<1>1. Promise!Sweep({a})
  BY DeletesSweep
<1>2. a \in DOMAIN MappedAccess(db)
  BY MappedDomains
<1> QED
  BY <1>1, <1>2 DEF Promise!Drop

\* Revoking an access token at the endpoint is a drop.
LEMMA RevokeAccessDrops ==
    ASSUME IndInv, NEW a \in DOMAIN db.at, RevokeAccessToken(a)
    PROVE  Promise!Drop
<1>1. WellFormed(db) /\ {a} \cap DOMAIN db.at = {a}
  BY DEF IndInv
<1> QED
  BY <1>1, DeletesDrop DEF RevokeAccessToken

\* Every step of the token endpoint, statement by statement, is an action of the promise
\* or changes nothing it speaks of.
LEMMA NextPromised ==
    ASSUME IndInv, ChainInv, [Next]_vars
    PROVE  [Promise!Next]_(Promise!vars) \/ (~Rotate /\ ~AllRows /\ Promise!ReissueLeft)
<1>0. WellFormed(db) /\ UniqueBinding(db) /\ now \in Nat \ {NULL}
  BY DEF IndInv, TypeOK, ChainInv, NULL
<1>1. ASSUME UNCHANGED <<db, granted>> PROVE UNCHANGED Promise!vars
  BY <1>1 DEF Promise!vars, MappedAccess, MappedRefresh
<1>2. ASSUME NEW r \in Requests, Step(r)
      PROVE  [Promise!Next]_(Promise!vars) \/ (~Rotate /\ ~AllRows /\ Promise!ReissueLeft)
  <2>1. CASE Validate(r) \/ Waits(r)
    BY <1>1, <2>1 DEF Validate, Waits
  <2>2. CASE ReuseAccess(r) /\ req[r].access \in DOMAIN db.at
    <3>1. req[r].instance \in 1 .. db.rtSeq /\ ~Rotate
      BY <2>2 DEF ReuseAccess, Reusing, ChainInv, RequestOfChain, Running, Attached, IndInv, TypeOK
    <3> QED
      BY <2>2, <3>1, ReuseAccessReissues DEF Promise!Next, AllRows
  <2>3. CASE IssueFresh(r)
    BY <2>3, IssueFreshExchanges DEF Promise!Next
  <2>4. CASE AnswerPrevious(r)
    BY <1>0, <2>4, RevokesMapped DEF AnswerPrevious, Promise!Next
  <2> QED
    BY <1>2, <2>1, <2>2, <2>3, <2>4, StatementOrCommit DEF Commits
<1>3. ASSUME Environment PROVE [Promise!Next]_(Promise!vars)
  <2>1. ASSUME NEW scope \in SUBSET Scopes, IssueTokens(scope) PROVE Promise!Next
    BY <2>1, IssueTokensGrants DEF Promise!Next
  <2>2. ASSUME NEW a \in DOMAIN db.at, RevokeAccessToken(a) PROVE Promise!Next
    BY <2>2, RevokeAccessDrops DEF Promise!Next
  <2>3. ASSUME NEW v \in Revocations, RevokeRefreshToken(v) PROVE [Promise!Next]_(Promise!vars)
    <3>1. UNCHANGED <<db, granted>> \/ \E t : db' = RevokeRefresh(db, {t}, now) /\ UNCHANGED granted
      BY <2>3 DEF RevokeRefreshToken, LookUpRefresh, RevokeRow, AnswerRevocation
    <3> QED
      BY <1>0, <1>1, <3>1, RevokesMapped DEF Promise!Next
  <2>4. CASE Tick
    BY <1>1, <2>4 DEF Tick
  <2> QED
    BY <1>3, <2>1, <2>2, <2>3, <2>4 DEF Environment, AuthorizedTokenDelete
<1>4. CASE UNCHANGED vars
  BY <1>1, <1>4 DEF vars
<1> QED
  BY <1>2, <1>3, <1>4 DEF Next

\* The refresh grant, one statement at a time and with any number of requests under way,
\* implements RefreshPromise: an exchange is one step, made only while nothing its refresh
\* token was exchanged for is alive and never for more than was granted.
THEOREM PromiseKept == Spec => KeepsPromise
<1>1. Init => Promise!Init
  BY DEF Init, EmptyStore, Promise!Init, Promise!NoKey, MappedAccess, MappedRefresh, NULL
<1>2. IndInv /\ ChainInv /\ AllRows /\ [Next]_vars => [Promise!Next]_(Promise!vars)
  BY NextPromised
<1> QED
  BY <1>1, <1>2, Invariance, ChainInvariance, RowsStay, PTL DEF Spec, KeepsPromise, Promise!Spec

-----------------------------------------------------------------------------
(***************************************************************************)
(* What the promise is worth: one access token at most lives of what a     *)
(* refresh token was exchanged for, and none outgrows its grant.           *)
(***************************************************************************)
\* Tokens that go, and refresh tokens that lose theirs, leave the rest as promised.
LEMMA KeptTakeAway ==
    ASSUME NEW A, NEW R, NEW G, NEW A2, NEW R2,
           Promise!Kept(A, R, G),
           DOMAIN A2 \subseteq DOMAIN A,
           \A a \in DOMAIN A2 :
              A2[a] = A[a] \/ A2[a] = [source |-> Promise!NoKey, scope |-> A[a].scope],
           DOMAIN R2 \subseteq DOMAIN R,
           \A t \in DOMAIN R2 :
              /\ R2[t] = [access |-> R2[t].access, spent |-> R2[t].spent]
              /\ R2[t].access # Promise!NoKey => R2[t].access = R[t].access /\ R2[t].access \in DOMAIN A2
    PROVE  Promise!Kept(A2, R2, G)
<1>1. \A a \in DOMAIN A2 : /\ a \in DOMAIN A /\ A2[a].scope = A[a].scope
                           /\ A2[a].source # Promise!NoKey => A2[a].source = A[a].source
                           /\ A2[a] = [source |-> A2[a].source, scope |-> A2[a].scope]
  BY DEF Promise!Kept, Promise!Related
<1>2. \A t \in DOMAIN R2 : t \in DOMAIN R
  OBVIOUS
<1>3. Promise!Related(A2, R2, G)
  BY <1>1, <1>2 DEF Promise!Kept, Promise!Related
<1>4. Promise!OneExchange(A2)
  BY <1>1 DEF Promise!Kept, Promise!OneExchange
<1>5. Promise!WithinGrant(A2, R2, G)
  BY <1>1, <1>2 DEF Promise!Kept, Promise!WithinGrant
<1> QED
  BY <1>3, <1>4, <1>5 DEF Promise!Kept

\* An access token changes its scope, within the grants it is held to.
LEMMA KeptRescope ==
    ASSUME NEW A, NEW R, NEW G, NEW a \in DOMAIN A, NEW scope,
           Promise!Kept(A, R, G),
           A[a].source # Promise!NoKey => scope \subseteq G[A[a].source],
           \A t \in DOMAIN R : R[t].access = a => scope \subseteq G[t]
    PROVE  Promise!Kept([A EXCEPT ![a].scope = scope], R, G)
<1> DEFINE B == [A EXCEPT ![a].scope = scope]
<1>1. A[a] = [source |-> A[a].source, scope |-> A[a].scope]
  BY DEF Promise!Kept, Promise!Related
<1>2. B[a] = [source |-> A[a].source, scope |-> scope]
  BY <1>1
<1>3. /\ DOMAIN B = DOMAIN A
      /\ \A b \in DOMAIN A : b # a => B[b] = A[b]
  OBVIOUS
<1>4. \A b \in DOMAIN A : /\ B[b].source = A[b].source
                          /\ B[b] = [source |-> B[b].source, scope |-> B[b].scope]
  BY <1>2, <1>3 DEF Promise!Kept, Promise!Related
<1>5. B[a].scope = scope
  BY <1>2
<1> HIDE DEF B
<1>6. Promise!Related(B, R, G)
  BY <1>3, <1>4 DEF Promise!Kept, Promise!Related
<1>7. Promise!OneExchange(B)
  BY <1>3, <1>4 DEF Promise!Kept, Promise!OneExchange
<1>8. Promise!WithinGrant(B, R, G)
  <2>1. ASSUME NEW b \in DOMAIN B, B[b].source # Promise!NoKey PROVE B[b].scope \subseteq G[B[b].source]
    BY <1>3, <1>4, <1>5, <2>1 DEF Promise!Kept, Promise!WithinGrant
  <2>2. ASSUME NEW t \in DOMAIN R, R[t].access # Promise!NoKey PROVE B[R[t].access].scope \subseteq G[t]
    BY <1>3, <1>5, <2>2 DEF Promise!Kept, Promise!Related, Promise!WithinGrant
  <2> QED
    BY <2>1, <2>2 DEF Promise!WithinGrant
<1> QED
  BY <1>6, <1>7, <1>8 DEF Promise!Kept, B

\* A new access token, obtained with a refresh token nothing living was obtained with.
LEMMA KeptAccess ==
    ASSUME NEW A, NEW R, NEW G, NEW a, NEW source, NEW scope,
           Promise!Kept(A, R, G), a \notin DOMAIN A,
           source # Promise!NoKey =>
              /\ source \in DOMAIN G /\ scope \subseteq G[source]
              /\ \A b \in DOMAIN A : A[b].source # source
    PROVE  Promise!Kept(Promise!With(A, a, [source |-> source, scope |-> scope]), R, G)
<1> DEFINE B == Promise!With(A, a, [source |-> source, scope |-> scope])
<1>1. /\ DOMAIN B = DOMAIN A \cup {a}
      /\ B[a] = [source |-> source, scope |-> scope]
      /\ \A b \in DOMAIN A : B[b] = A[b]
  BY DEF Promise!With
<1>2. B[a].source = source /\ B[a].scope = scope
  BY <1>1
<1> HIDE DEF B
<1>3. \A b \in DOMAIN B : B[b] = [source |-> B[b].source, scope |-> B[b].scope]
  BY <1>1, <1>2 DEF Promise!Kept, Promise!Related
<1>4. Promise!Related(B, R, G)
  BY <1>1, <1>2, <1>3 DEF Promise!Kept, Promise!Related
<1>5. Promise!OneExchange(B)
  BY <1>1, <1>2 DEF Promise!Kept, Promise!OneExchange
<1>6. Promise!WithinGrant(B, R, G)
  BY <1>1, <1>2 DEF Promise!Kept, Promise!Related, Promise!WithinGrant
<1> QED
  BY <1>4, <1>5, <1>6 DEF Promise!Kept, B

\* A new refresh token, bound to an access token none is bound to, with the grant of its chain.
LEMMA KeptRefresh ==
    ASSUME NEW A, NEW R, NEW G, NEW a \in DOMAIN A, NEW t, NEW grant,
           Promise!Kept(A, R, G), t \notin DOMAIN G,
           a # Promise!NoKey => \A u \in DOMAIN R : R[u].access # a,
           A[a].scope \subseteq grant,
           A[a].source # Promise!NoKey => G[A[a].source] = grant
    PROVE  Promise!Kept(A, Promise!With(R, t, [access |-> a, spent |-> FALSE]), Promise!With(G, t, grant))
<1> DEFINE S == Promise!With(R, t, [access |-> a, spent |-> FALSE])
           H == Promise!With(G, t, grant)
<1>1. /\ DOMAIN S = DOMAIN R \cup {t}
      /\ S[t] = [access |-> a, spent |-> FALSE]
      /\ \A u \in DOMAIN R : t # u => S[u] = R[u]
      /\ DOMAIN H = DOMAIN G \cup {t}
      /\ H[t] = grant
      /\ \A u \in DOMAIN G : H[u] = G[u]
  BY DEF Promise!With
<1>2. S[t].access = a /\ S[t] = [access |-> S[t].access, spent |-> S[t].spent]
  BY <1>1
<1> HIDE DEF S, H
<1>3. t \notin DOMAIN R /\ (\A u \in DOMAIN R : S[u] = R[u] /\ u \in DOMAIN G)
  BY <1>1 DEF Promise!Kept, Promise!Related
<1>4. Promise!Related(A, S, H)
  <2>1. \A u \in DOMAIN S : S[u] = [access |-> S[u].access, spent |-> S[u].spent]
    BY <1>1, <1>2, <1>3 DEF Promise!Kept, Promise!Related
  <2>2. ASSUME NEW u \in DOMAIN S, S[u].access # Promise!NoKey
        PROVE  /\ S[u].access \in DOMAIN A
               /\ \A v \in DOMAIN S : S[v].access = S[u].access => v = u
               /\ A[S[u].access].source # Promise!NoKey => H[A[S[u].access].source] = H[u]
    <3>1. CASE u = t
      BY <1>1, <1>2, <1>3, <2>2, <3>1 DEF Promise!Kept, Promise!Related
    <3>2. CASE u # t
      BY <1>1, <1>2, <1>3, <2>2, <3>2 DEF Promise!Kept, Promise!Related
    <3> QED
      BY <3>1, <3>2
  <2> QED
    BY <1>1, <1>3, <2>1, <2>2 DEF Promise!Kept, Promise!Related
<1>5. Promise!OneExchange(A)
  BY DEF Promise!Kept
<1>6. Promise!WithinGrant(A, S, H)
  BY <1>1, <1>2, <1>3 DEF Promise!Kept, Promise!Related, Promise!WithinGrant
<1> QED
  BY <1>4, <1>5, <1>6 DEF Promise!Kept, S, H

\* Each step of RefreshPromise, those beside cleartokens included, keeps what it is worth.
LEMMA PromiseStepKept ==
    ASSUME Promise!Kept(MappedAccess(db), MappedRefresh(db), granted),
           Promise!Next \/ Promise!Forget \/ Promise!SweepAny \/ Promise!ReissueLeft
    PROVE  Promise!Kept(MappedAccess(db'), MappedRefresh(db'), granted')
<1> DEFINE A == MappedAccess(db)
           R == MappedRefresh(db)
           G == granted
<1>0. Promise!Kept(A, R, G)
  OBVIOUS
<1>1. ASSUME NEW T, T \subseteq DOMAIN R
      PROVE  Promise!Kept(Promise!AccessWithout(Promise!BoundAccess(T)), Promise!Spent(T), G)
  <2> DEFINE K == Promise!BoundAccess(T)
             B == Promise!AccessWithout(K)
             S == Promise!Spent(T)
  <2>1. DOMAIN B = DOMAIN A \ K /\ \A a \in DOMAIN B : B[a] = A[a]
    BY DEF Promise!AccessWithout, Promise!Restrict
  <2>2. /\ DOMAIN S = DOMAIN R
        /\ \A t \in DOMAIN R : S[t] = IF t \in T THEN [access |-> Promise!NoKey, spent |-> TRUE] ELSE R[t]
    BY DEF Promise!Spent
  <2>3. \A t \in T : R[t].access \in K
    BY DEF Promise!BoundAccess
  <2>4. \A k \in K : \E t \in T : k = R[t].access
    BY DEF Promise!BoundAccess
  <2> HIDE DEF K, B, S
  <2>5. ASSUME NEW t \in DOMAIN S
        PROVE  /\ S[t] = [access |-> S[t].access, spent |-> S[t].spent]
               /\ S[t].access # Promise!NoKey => S[t].access = R[t].access /\ S[t].access \in DOMAIN B
    <3>1. CASE t \in T
      BY <2>2, <3>1
    <3>2. CASE t \notin T
      <4>1. S[t] = R[t] /\ R[t] = [access |-> R[t].access, spent |-> R[t].spent]
        BY <2>2, <2>5, <3>2 DEF Promise!Kept, Promise!Related
      <4>2. ASSUME R[t].access # Promise!NoKey PROVE R[t].access \in DOMAIN A /\ R[t].access \notin K
        BY <1>1, <2>2, <2>4, <2>5, <3>2, <4>2 DEF Promise!Kept, Promise!Related
      <4> QED
        BY <2>1, <4>1, <4>2
    <3> QED
      BY <3>1, <3>2
  <2> QED
    BY <2>1, <2>2, <2>5, KeptTakeAway DEF K, B, S
<1>2. ASSUME NEW K, Promise!Sweep(K) PROVE Promise!Kept(MappedAccess(db'), MappedRefresh(db'), granted')
  <2> DEFINE B == MappedAccess(db')
             S == MappedRefresh(db')
  <2>1. DOMAIN B = DOMAIN A \ K /\ \A a \in DOMAIN B : B[a] = A[a]
    BY <1>2 DEF Promise!Sweep, Promise!AccessWithout, Promise!Restrict
  <2>2. /\ DOMAIN S = DOMAIN R /\ granted' = G
        /\ \A t \in DOMAIN R :
              S[t] = IF R[t].access \in K THEN [R[t] EXCEPT !.access = Promise!NoKey] ELSE R[t]
    BY <1>2 DEF Promise!Sweep, Promise!RefreshWithout
  <2> HIDE DEF B, S
  <2>3. ASSUME NEW t \in DOMAIN S
        PROVE  /\ S[t] = [access |-> S[t].access, spent |-> S[t].spent]
               /\ S[t].access # Promise!NoKey => S[t].access = R[t].access /\ S[t].access \in DOMAIN B
    <3>1. R[t] = [access |-> R[t].access, spent |-> R[t].spent]
      BY <2>2 DEF Promise!Kept, Promise!Related
    <3>2. CASE R[t].access \in K
      BY <2>2, <3>1, <3>2
    <3>3. CASE R[t].access \notin K
      BY <2>1, <2>2, <3>1, <3>3 DEF Promise!Kept, Promise!Related
    <3> QED
      BY <3>2, <3>3
  <2> QED
    BY <2>1, <2>2, <2>3, KeptTakeAway DEF B, S
<1>3. CASE Promise!Grant
  <2>1. PICK a \in Promise!NewAccess, scope \in SUBSET Scopes :
          /\ MappedAccess(db') = Promise!With(A, a, [source |-> Promise!NoKey, scope |-> scope])
          /\ \/ \E t \in Promise!NewRefresh :
                  /\ MappedRefresh(db') = Promise!With(R, t, [access |-> a, spent |-> FALSE])
                  /\ granted' = Promise!With(G, t, scope)
             \/ MappedRefresh(db') = R /\ granted' = G
    BY <1>3 DEF Promise!Grant
  <2>2. Promise!Kept(MappedAccess(db'), R, G) /\ a \notin DOMAIN A
    BY <2>1, KeptAccess DEF Promise!NewAccess
  <2>3. ASSUME NEW t \in Promise!NewRefresh,
               MappedRefresh(db') = Promise!With(R, t, [access |-> a, spent |-> FALSE]),
               granted' = Promise!With(G, t, scope)
        PROVE  Promise!Kept(MappedAccess(db'), MappedRefresh(db'), granted')
    <3>1. t \notin DOMAIN G
      BY DEF Promise!NewRefresh
    <3>2. /\ a \in DOMAIN MappedAccess(db')
          /\ MappedAccess(db')[a] = [source |-> Promise!NoKey, scope |-> scope]
      BY <2>1 DEF Promise!With
    <3>3. a # Promise!NoKey => \A u \in DOMAIN R : R[u].access # a
      BY <2>2 DEF Promise!Kept, Promise!Related
    <3>4. MappedAccess(db')[a].source = Promise!NoKey /\ MappedAccess(db')[a].scope = scope
      BY <3>2
    <3> HIDE DEF A, R, G
    <3> QED
      BY <2>2, <2>3, <3>1, <3>2, <3>3, <3>4, KeptRefresh
  <2> QED
    BY <2>1, <2>2, <2>3
<1>4. CASE Promise!Exchange
  <2>1. PICK t \in DOMAIN R, a \in Promise!NewAccess, u \in Promise!NewRefresh, scope \in SUBSET Scopes :
          /\ Promise!Exchanged(t) = {} /\ scope \subseteq G[t]
          /\ MappedAccess(db') = Promise!With(Promise!AccessWithout(Promise!BoundAccess({t})), a,
                                              [source |-> t, scope |-> scope])
          /\ MappedRefresh(db') = Promise!With(Promise!Spent({t}), u, [access |-> a, spent |-> FALSE])
          /\ granted' = Promise!With(G, u, G[t])
    BY <1>4 DEF Promise!Exchange
  <2> DEFINE B == Promise!AccessWithout(Promise!BoundAccess({t}))
             S == Promise!Spent({t})
  <2>2. Promise!Kept(B, S, G)
    BY <1>1
  <2>3. DOMAIN B \subseteq DOMAIN A /\ \A b \in DOMAIN B : B[b] = A[b]
    BY DEF Promise!AccessWithout, Promise!Restrict
  <2>4. \A b \in DOMAIN A : A[b].source # t
    BY <2>1 DEF Promise!Exchanged
  <2>5. t \in DOMAIN G /\ a \notin DOMAIN A /\ u \notin DOMAIN G
    BY DEF Promise!NewAccess, Promise!NewRefresh, Promise!Kept, Promise!Related
  <2>6. Promise!Kept(MappedAccess(db'), S, G)
    <3> HIDE DEF A, B, S
    <3> QED
      BY <2>1, <2>2, <2>3, <2>4, <2>5, KeptAccess DEF B
  <2>7. /\ a \in DOMAIN MappedAccess(db')
        /\ MappedAccess(db')[a] = [source |-> t, scope |-> scope]
    BY <2>1 DEF Promise!With
  <2>8. MappedAccess(db')[a].source = t /\ MappedAccess(db')[a].scope = scope
    BY <2>7
  <2>9. a # Promise!NoKey => \A v \in DOMAIN S : S[v].access # a
    BY <2>2, <2>3, <2>5 DEF Promise!Kept, Promise!Related
  <2> HIDE DEF A, R, G, B, S
  <2> QED
    BY <2>1, <2>5, <2>6, <2>7, <2>8, <2>9, KeptRefresh DEF S
<1>5. CASE Promise!Reissue
  <2>1. PICK t \in DOMAIN R, scope \in SUBSET Scopes :
          /\ R[t].access # Promise!NoKey /\ scope \subseteq G[t]
          /\ MappedAccess(db') = [A EXCEPT ![R[t].access].scope = scope]
          /\ MappedRefresh(db') = R /\ granted' = G
    BY <1>5 DEF Promise!Reissue
  <2>2. /\ R[t].access \in DOMAIN A
        /\ \A u \in DOMAIN R : R[u].access = R[t].access => u = t
        /\ A[R[t].access].source # Promise!NoKey => G[A[R[t].access].source] = G[t]
    BY <2>1 DEF Promise!Kept, Promise!Related
  <2>3. Promise!Kept([A EXCEPT ![R[t].access].scope = scope], R, G)
    <3> HIDE DEF A, R, G
    <3>1. A[R[t].access].source # Promise!NoKey => scope \subseteq G[A[R[t].access].source]
      BY <2>1, <2>2
    <3>2. \A u \in DOMAIN R : R[u].access = R[t].access => scope \subseteq G[u]
      BY <2>1, <2>2
    <3> QED
      BY <1>0, <2>2, <3>1, <3>2, KeptRescope
  <2> QED
    BY <2>1, <2>3
<1>6. CASE Promise!ReissueLeft
  <2>1. PICK a \in DOMAIN A, t \in DOMAIN G \ DOMAIN R, scope \in UNION {SUBSET G[u] : u \in DOMAIN G} :
          /\ scope \subseteq G[t]
          /\ Promise!Unbound(a)
          /\ A[a].source # Promise!NoKey => G[A[a].source] = G[t]
          /\ MappedAccess(db') = [A EXCEPT ![a].scope = scope]
          /\ MappedRefresh(db') = R /\ granted' = G
    BY <1>6 DEF Promise!ReissueLeft
  <2>2. \A u \in DOMAIN R : R[u].access # a
    BY <2>1 DEF Promise!Unbound
  <2>3. Promise!Kept([A EXCEPT ![a].scope = scope], R, G)
    <3> HIDE DEF A, R, G
    <3>1. A[a].source # Promise!NoKey => scope \subseteq G[A[a].source]
      BY <2>1
    <3> QED
      BY <1>0, <2>2, <3>1, KeptRescope
  <2> QED
    BY <2>1, <2>3
<1>7. CASE Promise!Revoke
  <2>1. PICK T \in SUBSET {t \in DOMAIN R : ~R[t].spent} :
          /\ MappedAccess(db') = Promise!AccessWithout(Promise!BoundAccess(T))
          /\ MappedRefresh(db') = Promise!Spent(T) /\ granted' = G
    BY <1>7 DEF Promise!Revoke
  <2> QED
    BY <1>1, <2>1
<1>8. CASE Promise!Forget
  <2>1. PICK T \in SUBSET DOMAIN R :
          /\ MappedRefresh(db') = Promise!Restrict(R, DOMAIN R \ T)
          /\ MappedAccess(db') = [a \in DOMAIN A |->
                IF A[a].source \in T THEN [A[a] EXCEPT !.source = Promise!NoKey] ELSE A[a]]
          /\ granted' = G
    BY <1>8 DEF Promise!Forget
  <2> DEFINE B == MappedAccess(db')
             S == MappedRefresh(db')
  <2>2. \A a \in DOMAIN A : A[a] = [source |-> A[a].source, scope |-> A[a].scope]
    BY DEF Promise!Kept, Promise!Related
  <2>3. /\ DOMAIN B = DOMAIN A
        /\ \A a \in DOMAIN B : B[a] = A[a] \/ B[a] = [source |-> Promise!NoKey, scope |-> A[a].scope]
    BY <2>1, <2>2
  <2>4. DOMAIN S \subseteq DOMAIN R /\ \A t \in DOMAIN S : S[t] = R[t]
    BY <2>1 DEF Promise!Restrict
  <2>5. \A t \in DOMAIN S : /\ S[t] = [access |-> S[t].access, spent |-> S[t].spent]
                            /\ S[t].access # Promise!NoKey =>
                                  S[t].access = R[t].access /\ S[t].access \in DOMAIN B
    BY <2>3, <2>4 DEF Promise!Kept, Promise!Related
  <2>6. Promise!Kept(B, S, G)
    <3> HIDE DEF A, R, G, B, S
    <3> QED
      BY <1>0, <2>3, <2>4, <2>5, KeptTakeAway
  <2> QED
    BY <2>1, <2>6
<1> QED
  BY <1>2, <1>3, <1>4, <1>5, <1>6, <1>7, <1>8 DEF Promise!Next, Promise!Drop, Promise!SweepAny

\* Whatever keeps the promise, in any of its four forms, can be relied on: of what a refresh
\* token was exchanged for one access token lives at most, and no access token outgrows what
\* the resource owner granted.
THEOREM PromiseRelied ==
    KeepsPromise \/ KeepsPromiseSwept \/ KeepsPromiseLate \/ KeepsPromiseCleared => []Promise!Reliable
<1> DEFINE Kept == Promise!Kept(MappedAccess(db), MappedRefresh(db), granted)
           Change == \/ Promise!Next \/ Promise!Forget \/ Promise!SweepAny \/ Promise!ReissueLeft
                     \/ UNCHANGED Promise!vars
<1>1. Promise!Init => Kept
  BY DEF Promise!Init, Promise!Kept, Promise!Related, Promise!OneExchange, Promise!WithinGrant
<1>2. Kept /\ Change => Kept'
  BY PromiseStepKept DEF Promise!vars
<1>3. [Promise!Next]_(Promise!vars) => Change
  OBVIOUS
<1>4. [Promise!Next \/ Promise!Forget \/ Promise!SweepUnbound]_(Promise!vars) => Change
  BY DEF Promise!SweepUnbound, Promise!SweepAny
<1>5. [Promise!Next \/ Promise!Forget \/ Promise!SweepAny \/ Promise!ReissueLeft]_(Promise!vars) => Change
  OBVIOUS
<1>6. [Promise!Next \/ Promise!SweepAny]_(Promise!vars) => Change
  OBVIOUS
<1>7. Kept => Promise!Reliable
  BY DEF Promise!Kept, Promise!Reliable
<1> HIDE DEF Kept, Change
<1> QED
  BY <1>1, <1>2, <1>3, <1>4, <1>5, <1>6, <1>7, PTL
    DEF KeepsPromise, KeepsPromiseSwept, KeepsPromiseLate, KeepsPromiseCleared,
        Promise!Spec, Promise!SweptSpec, Promise!LateSpec, Promise!ClearedSpec

=============================================================================
