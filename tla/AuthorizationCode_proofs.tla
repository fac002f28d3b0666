------------------------ MODULE AuthorizationCode_proofs ------------------------
(***************************************************************************)
(* Type correctness of the code exchange, that no exchange that comes in   *)
(* after a code has been answered gets tokens for it, that no code or      *)
(* token carries more than the user approved on one form, and that nobody  *)
(* loses a code that is still good to a 500.                               *)
(***************************************************************************)
EXTENDS AuthorizationCode, TokenStore_proofs

\* The initial state: no code, no token, no exchange under way.
LEMMA InitInv == Init => IndInv
<1> SUFFICES ASSUME Init PROVE IndInv
  OBVIOUS
<1>1. NewExchange \in Exchange /\ NewExchange.phase = "new" /\ ~NewExchange.late
  BY DEF NewExchange, Exchange, NULL
<1>2. WellFormed(db)
  BY EmptyStoreWellFormed DEF Init
<1>3. grants \in [DOMAIN grants -> GrantRow] /\ DOMAIN grants = {}
  BY DEF Init
<1>4. TypeOK
  BY <1>1, <1>2, <1>3, CodeAssumption DEF Init, TypeOK, WellFormed
<1> QED
  BY <1>1, <1>2, <1>3, <1>4
     DEF Init, IndInv, SpentIsGone, DeletedIsGone, CodeWasIssued, NewIsUnissued, LateIsRefused,
         Running, Issued, NewExchange

\* One exchange moves on to phase p, or ends there, and nothing else changes.
LEMMA MoveStep ==
    ASSUME IndInv, NEW e \in Exchanges, ex[e].phase \in Running,
           NEW p \in Running \cup Finished, Move(e, p), p # "deleted"
    PROVE  IndInv'
<1> DEFINE row == [ex[e] EXCEPT !.phase = p]
<1>1. ex[e] \in Exchange
  BY DEF IndInv, TypeOK
<1>2. /\ row \in Exchange /\ row.phase = p /\ row.late = ex[e].late
      /\ row.code = ex[e].code /\ row.issued = ex[e].issued
  BY <1>1 DEF Exchange
<1>3. ex' = [ex EXCEPT ![e] = row] /\ UNCHANGED <<now, grants, codes, db, asking, consented, spent>>
  BY DEF Move
<1> HIDE DEF row
<1>4. ex' \in [Exchanges -> Exchange] /\ ex'[e] = row /\ \A f \in Exchanges \ {e} : ex'[f] = ex[f]
  BY <1>2, <1>3 DEF IndInv, TypeOK
<1>5. ~ex[e].late
  BY DEF IndInv, LateIsRefused, Running
<1> QED
  BY <1>2, <1>3, <1>4, <1>5
     DEF IndInv, TypeOK, SpentIsGone, DeletedIsGone, CodeWasIssued, NewIsUnissued, LateIsRefused,
         Issued, Running, Finished

\* Issuing a code takes a key that was never used.
LEMMA CreateCodeStep ==
    ASSUME IndInv, NEW scope \in SUBSET Scopes, CreateCode(scope),
           asking' \subseteq SUBSET Scopes, consented' \subseteq SUBSET Scopes,
           UNCHANGED <<now, db, ex, spent>>
    PROVE  IndInv'
<1>1. codes \in Nat /\ codes < MaxCodes /\ codes' = codes + 1 /\ MaxCodes \in Nat
  BY CodeAssumption DEF CreateCode, IndInv, TypeOK
<1>2. PICK challenged \in BOOLEAN :
        grants' = Insert(grants, codes + 1, [expires |-> now + CodeLife, scope |-> scope,
                                             challenged |-> challenged])
  BY DEF CreateCode
<1> DEFINE row == [expires |-> now + CodeLife, scope |-> scope, challenged |-> challenged]
<1>3. row \in GrantRow
  BY CodeAssumption DEF GrantRow, IndInv, TypeOK
<1> HIDE DEF row
<1>4. grants' = [c \in DOMAIN grants \cup {codes + 1} |-> IF c = codes + 1 THEN row ELSE grants[c]]
  BY <1>2 DEF row, Insert
<1>5. DOMAIN grants' = DOMAIN grants \cup {codes + 1} /\ grants' \in [DOMAIN grants' -> GrantRow]
  BY <1>3, <1>4 DEF IndInv, TypeOK
<1>6. 1 .. codes' = 1 .. codes \cup {codes + 1} /\ codes + 1 \notin 1 .. codes
  BY <1>1
<1>7. TypeOK'
  BY <1>1, <1>5, <1>6 DEF IndInv, TypeOK
<1>8. spent \subseteq 1 .. codes /\ \A e \in Exchanges : ex[e].phase \in Running => ex[e].code \in 1 .. codes
  BY DEF IndInv, TypeOK, CodeWasIssued
<1>9. SpentIsGone'
  BY <1>5, <1>6, <1>8 DEF IndInv, SpentIsGone
<1>10. DeletedIsGone'
  BY <1>5, <1>6, <1>8 DEF IndInv, DeletedIsGone, Running
<1>11. CodeWasIssued'
  BY <1>6, <1>8 DEF CodeWasIssued
<1> QED
  BY <1>7, <1>9, <1>10, <1>11 DEF IndInv, NewIsUnissued, LateIsRefused, Issued

\* validate_code: a code that has been answered is in the table no more.
LEMMA ValidateCodeStep ==
    ASSUME IndInv, NEW e \in Exchanges, NEW c \in 0 .. codes, ValidateCode(e, c)
    PROVE  IndInv'
<1> DEFINE late == c \in spent
<1>0. late \in BOOLEAN
  OBVIOUS
<1> DEFINE valid == c \in DOMAIN grants /\ now < grants[c].expires
           x   == [ex[e] EXCEPT !.code = c, !.late = late]
           row == IF valid THEN [x EXCEPT !.phase = "validated", !.scope = grants[c].scope,
                                          !.until = grants[c].expires]
                           ELSE [x EXCEPT !.phase = "invalid_grant"]
<1>00. late <=> c \in spent
  OBVIOUS
<1> HIDE DEF late
<1>1. ex[e] \in Exchange /\ c \in Nat /\ codes \in Nat
  BY DEF IndInv, TypeOK
<1>2. valid => /\ grants[c].scope \in SUBSET Scopes /\ grants[c].expires \in Nat
               /\ c \notin spent /\ c \in 1 .. codes
  BY DEF IndInv, TypeOK, GrantRow, SpentIsGone
<1>3. /\ row \in Exchange /\ row.phase = (IF valid THEN "validated" ELSE "invalid_grant")
      /\ row.late = late /\ row.code = c /\ row.issued = ex[e].issued
  <2>1. x \in Exchange /\ x.late = late /\ x.code = c /\ x.issued = ex[e].issued
    BY <1>0, <1>1 DEF Exchange
  <2> HIDE DEF x
  <2>2. CASE valid
    BY <1>2, <2>1, <2>2 DEF Exchange, Running
  <2>3. CASE ~valid
    BY <2>1, <2>3 DEF Exchange, Finished
  <2> QED
    BY <2>2, <2>3
<1>4. /\ ex' = [ex EXCEPT ![e] = row] /\ ex[e].phase = "new"
      /\ UNCHANGED <<now, grants, codes, db, asking, consented, spent>>
  BY DEF ValidateCode, late
<1> HIDE DEF row, valid
<1>5. ex' \in [Exchanges -> Exchange] /\ ex'[e] = row /\ \A f \in Exchanges \ {e} : ex'[f] = ex[f]
  BY <1>3, <1>4 DEF IndInv, TypeOK
<1>6. LateIsRefused'
  <2>1. row.late => row.phase = "invalid_grant"
    BY <1>00, <1>2, <1>3
  <2> QED
    BY <1>3, <1>4, <1>5, <2>1 DEF IndInv, LateIsRefused, Issued, NewIsUnissued
<1>7. CodeWasIssued' /\ DeletedIsGone' /\ NewIsUnissued'
  BY <1>2, <1>3, <1>4, <1>5 DEF IndInv, CodeWasIssued, DeletedIsGone, NewIsUnissued, Issued, Running
<1> QED
  BY <1>4, <1>5, <1>6, <1>7 DEF IndInv, TypeOK, SpentIsGone

\* save_bearer_token: two new rows, and the exchange knows which access token is its own.
LEMMA SaveBearerTokenStep ==
    ASSUME IndInv, NEW e \in Exchanges, SaveBearerToken(e)
    PROVE  IndInv'
<1>1. PICK A : A = CreateAccess(db, ex[e].scope, now + AccessLife, NULL)
  OBVIOUS
<1>2. /\ ex[e].phase = "confirmed" /\ db' = CreateRefresh(A, A.rtSeq + 1, A.atSeq)
      /\ ex' = [ex EXCEPT ![e] = [@ EXCEPT !.phase = "saved", !.issued = A.atSeq]]
      /\ UNCHANGED <<now, grants, codes, asking, consented, spent>>
  BY <1>1 DEF SaveBearerToken
<1>3. /\ ex[e] \in Exchange /\ ex[e].scope \in SUBSET Scopes
      /\ now + AccessLife \in Nat /\ NULL \in Nat /\ WellFormed(db)
  BY CodeAssumption DEF IndInv, TypeOK, Exchange, NULL
<1>4. WellFormed(A) /\ A.atSeq \in DOMAIN A.at /\ A.atSeq \in Nat /\ A.rtSeq + 1 \in Nat
  <2>1. NULL \in DOMAIN db.rt \cup {NULL}
    OBVIOUS
  <2>2. WellFormed(A) /\ AccessCreated(db, A, NULL)
    BY <1>1, <1>3, <2>1, CreateAccessWellFormed
  <2> QED
    BY <2>2 DEF AccessCreated, WellFormed, IsStore
<1>5. WellFormed(db')
  BY <1>2, <1>4, CreateRefreshWellFormed
<1> DEFINE row == [ex[e] EXCEPT !.phase = "saved", !.issued = A.atSeq]
<1>6. row \in Exchange /\ row.phase = "saved" /\ row.late = ex[e].late /\ row.code = ex[e].code
  BY <1>3, <1>4 DEF Exchange, Running
<1>7. ex' = [ex EXCEPT ![e] = row]
  BY <1>2
<1> HIDE DEF row
<1>8. ex' \in [Exchanges -> Exchange] /\ ex'[e] = row /\ \A f \in Exchanges \ {e} : ex'[f] = ex[f]
  BY <1>6, <1>7 DEF IndInv, TypeOK
<1>9. ~ex[e].late
  BY <1>2 DEF IndInv, LateIsRefused
<1>10. TypeOK'
  BY <1>2, <1>5, <1>8 DEF IndInv, TypeOK, WellFormed
<1> QED
  BY <1>2, <1>5, <1>6, <1>8, <1>9, <1>10
     DEF IndInv, SpentIsGone, DeletedIsGone, CodeWasIssued, NewIsUnissued, LateIsRefused, Issued, Running

\* invalidate_authorization_code: the row goes, if another exchange has not removed it yet.
LEMMA DeleteGrantStep ==
    ASSUME IndInv, NEW e \in Exchanges, DeleteGrant(e)
    PROVE  IndInv'
<1> DEFINE row == [ex[e] EXCEPT !.phase = "deleted"]
<1>1. ex[e] \in Exchange /\ ex[e].phase = "fetched"
  BY DEF DeleteGrant, IndInv, TypeOK
<1>2. /\ row \in Exchange /\ row.phase = "deleted" /\ row.late = ex[e].late
      /\ row.code = ex[e].code /\ row.issued = ex[e].issued
  BY <1>1 DEF Exchange, Running
<1>3. /\ ex' = [ex EXCEPT ![e] = row]
      /\ grants' = [c \in DOMAIN grants \cap (DOMAIN grants \ {ex[e].code}) |-> grants[c]]
      /\ UNCHANGED <<now, codes, db, asking, consented, spent>>
  BY DEF DeleteGrant, Restrict
<1> HIDE DEF row
<1>4. ex' \in [Exchanges -> Exchange] /\ ex'[e] = row /\ \A f \in Exchanges \ {e} : ex'[f] = ex[f]
  BY <1>2, <1>3 DEF IndInv, TypeOK
<1>5. /\ DOMAIN grants' = DOMAIN grants \ {ex[e].code}
      /\ grants' \in [DOMAIN grants' -> GrantRow]
  BY <1>3 DEF IndInv, TypeOK
<1>6. ~ex[e].late /\ ex[e].code \in 1 .. codes
  BY <1>1 DEF IndInv, LateIsRefused, CodeWasIssued, Running
<1>7. TypeOK'
  BY <1>3, <1>4, <1>5 DEF IndInv, TypeOK
<1> QED
  BY <1>1, <1>2, <1>3, <1>4, <1>5, <1>6, <1>7
     DEF IndInv, SpentIsGone, DeletedIsGone, CodeWasIssued, NewIsUnissued, LateIsRefused, Issued

\* The answer: the code it marks as spent left the table one step earlier.
LEMMA RespondStep ==
    ASSUME IndInv, NEW e \in Exchanges, Respond(e)
    PROVE  IndInv'
<1>1. CASE ex[e].issued \in DOMAIN db.at
  <2> DEFINE row == [ex[e] EXCEPT !.phase = "ok"]
  <2>1. ex[e] \in Exchange /\ ex[e].phase = "deleted"
    BY DEF Respond, IndInv, TypeOK
  <2>2. /\ row \in Exchange /\ row.phase = "ok" /\ row.late = ex[e].late /\ row.issued = ex[e].issued
    BY <2>1 DEF Exchange, Finished
  <2>3. /\ ex' = [ex EXCEPT ![e] = row] /\ spent' = spent \cup {ex[e].code}
        /\ UNCHANGED <<now, grants, codes, db, asking, consented>>
    BY <1>1 DEF Respond
  <2> HIDE DEF row
  <2>4. ex' \in [Exchanges -> Exchange] /\ ex'[e] = row /\ \A f \in Exchanges \ {e} : ex'[f] = ex[f]
    BY <2>2, <2>3 DEF IndInv, TypeOK
  <2>5. ~ex[e].late /\ ex[e].code \in 1 .. codes /\ ex[e].code \notin DOMAIN grants
    BY <2>1 DEF IndInv, LateIsRefused, CodeWasIssued, DeletedIsGone, Running
  <2>6. TypeOK'
    BY <2>3, <2>4, <2>5 DEF IndInv, TypeOK
  <2> QED
    BY <2>2, <2>3, <2>4, <2>5, <2>6
       DEF IndInv, SpentIsGone, DeletedIsGone, CodeWasIssued, NewIsUnissued, LateIsRefused, Issued, Running
<1>2. CASE ex[e].issued \notin DOMAIN db.at
  BY <1>2, MoveStep DEF Respond, Running, Finished
<1> QED
  BY <1>1, <1>2

\* cleartokens removes rows and nothing else.
LEMMA ClearGrantsStep ==
    ASSUME IndInv, ClearGrants
    PROVE  IndInv'
<1>1. PICK G : /\ grants' = [c \in DOMAIN grants \cap (DOMAIN grants \ G) |-> grants[c]]
               /\ UNCHANGED <<now, codes, db, asking, ex, consented, spent>>
  BY DEF ClearGrants, Restrict
<1>2. DOMAIN grants' \subseteq DOMAIN grants /\ grants' \in [DOMAIN grants' -> GrantRow]
  BY <1>1 DEF IndInv, TypeOK
<1> QED
  BY <1>1, <1>2 DEF IndInv, TypeOK, SpentIsGone, DeletedIsGone, CodeWasIssued, NewIsUnissued,
                    LateIsRefused, Issued

\* Every action preserves the inductive invariant.
LEMMA NextInv == IndInv /\ [Next]_vars => IndInv'
<1> SUFFICES ASSUME IndInv, [Next]_vars PROVE IndInv'
  OBVIOUS
<1> USE DEF IndInv, TypeOK, SpentIsGone, DeletedIsGone, CodeWasIssued, NewIsUnissued,
            LateIsRefused, Issued
<1>1. ASSUME NEW scope \in Asked, FormValid(scope) PROVE IndInv'
  BY <1>1, CreateCodeStep DEF FormValid, Asked
<1>2. ASSUME NEW scope \in Asked, FindApproval(scope) PROVE IndInv'
  BY <1>2 DEF FindApproval, Asked
<1>3. ASSUME NEW scope \in Asked, SilentCode(scope) PROVE IndInv'
  BY <1>3, CreateCodeStep DEF SilentCode, Asked
<1>4. ASSUME NEW e \in Exchanges, Serve(e) PROVE IndInv'
  <2>1. CASE CheckChallenge(e)
    BY <2>1, MoveStep DEF CheckChallenge, Fetched, Running, Finished
  <2>2. CASE ConfirmRedirectUri(e)
    BY <2>2, MoveStep DEF ConfirmRedirectUri, Fetched, Running, Finished
  <2>3. CASE FetchGrant(e)
    BY <2>3, MoveStep DEF FetchGrant, Fetched, Running, Finished
  <2> QED
    BY <1>4, <2>1, <2>2, <2>3, SaveBearerTokenStep, DeleteGrantStep, RespondStep DEF Serve
<1>5. ASSUME NEW e \in Exchanges, Crash(e) PROVE IndInv'
  BY <1>5, MoveStep DEF Crash, Running, Finished
<1>6. ASSUME NEW a \in DOMAIN db.at, WithdrawToken(a) PROVE IndInv'
  <2>1. WellFormed(db')
    BY <1>6, DeleteAccessWellFormed DEF WithdrawToken
  <2> QED
    BY <1>6, <2>1 DEF WithdrawToken, WellFormed
<1>7. CASE Tick
  BY <1>7, CodeAssumption DEF Tick
<1>8. CASE UNCHANGED vars
  BY <1>8 DEF vars
<1> QED
  BY <1>1, <1>2, <1>3, <1>4, <1>5, <1>6, <1>7, <1>8, ValidateCodeStep, ClearGrantsStep DEF Next

-----------------------------------------------------------------------------
\* The inductive invariant holds in every reachable state.
THEOREM Invariance == Spec => []IndInv
BY InitInv, NextInv, PTL DEF Spec

\* Type correctness of the grant table, the token tables and the exchanges.
THEOREM TypeCorrect == Spec => []TypeOK
<1>1. IndInv => TypeOK
  BY DEF IndInv
<1> QED
  BY <1>1, Invariance, PTL

\* For any number of exchanges, codes and crashes: no exchange that comes in after a
\* client was answered with tokens for a code gets tokens for that code.
THEOREM AnswerKillsCode == Spec => []CodeDeadAfterAnswer
<1>1. IndInv => CodeDeadAfterAnswer
  BY DEF IndInv, LateIsRefused, CodeDeadAfterAnswer
<1> QED
  BY <1>1, Invariance, PTL

-----------------------------------------------------------------------------
(***************************************************************************)
(* Consent.                                                                *)
(***************************************************************************)
Holding == {"validated", "challenged", "confirmed"}

\* Where a scope may be on its way from the form to a token.
LEMMA CarriedFrom ==
    ASSUME NEW scope
    PROVE  scope \in Carried <=>
             \/ \E c \in DOMAIN grants : scope = grants[c].scope
             \/ \E a \in DOMAIN db.at : scope = db.at[a].scope
             \/ scope \in asking
             \/ \E e \in Exchanges : ex[e].phase \in Holding /\ scope = ex[e].scope
  BY DEF Carried, Holding

\* The same in the next state.
LEMMA CarriedFromNext ==
    ASSUME NEW scope
    PROVE  scope \in Carried' <=>
             \/ \E c \in DOMAIN grants' : scope = grants'[c].scope
             \/ \E a \in DOMAIN db'.at : scope = db'.at[a].scope
             \/ scope \in asking'
             \/ \E e \in Exchanges : ex'[e].phase \in Holding /\ scope = ex'[e].scope
  BY DEF Carried, Holding

\* What a step may do to the scopes under way: pass on what is there, or part of it, or
\* take what the user has just approved.
PassesOn(scope) == scope \in consented' \/ \E held \in Carried : scope \subseteq held

\* A step that passes scopes on keeps every one within one consent.
LEMMA WithinKept ==
    ASSUME ~SkipAuthorization, ConsentInv, consented \subseteq consented',
           \A c \in DOMAIN grants' : PassesOn(grants'[c].scope),
           \A a \in DOMAIN db'.at : PassesOn(db'.at[a].scope),
           \A scope \in asking' : PassesOn(scope),
           \A e \in Exchanges : ex'[e].phase \in Holding => PassesOn(ex'[e].scope)
    PROVE  ConsentInv'
<1>1. ASSUME NEW scope, PassesOn(scope)
      PROVE  \E approved \in consented' : scope \subseteq approved
  <2>1. CASE scope \in consented'
    BY <2>1
  <2>2. ASSUME NEW held \in Carried, scope \subseteq held
        PROVE  \E approved \in consented' : scope \subseteq approved
    BY <2>2 DEF ConsentInv, Approved
  <2> QED
    BY <1>1, <2>1, <2>2 DEF PassesOn
<1>2. \A scope \in Carried' : \E approved \in consented' : scope \subseteq approved
  BY <1>1, CarriedFromNext
<1> QED
  BY <1>2 DEF ConsentInv, Approved

\* What is already there may stay.
LEMMA Held ==
    /\ \A c \in DOMAIN grants : PassesOn(grants[c].scope)
    /\ \A a \in DOMAIN db.at : PassesOn(db.at[a].scope)
    /\ \A scope \in asking : PassesOn(scope)
    /\ \A e \in Exchanges : ex[e].phase \in Holding => PassesOn(ex[e].scope)
<1>1. \A scope \in Carried : PassesOn(scope)
  BY DEF PassesOn
<1> QED
  BY <1>1, CarriedFrom

\* A new code has the scope of the form, or of the approval it rests on.
LEMMA CodeWithin ==
    ASSUME NEW scope, CreateCode(scope), PassesOn(scope)
    PROVE  \A c \in DOMAIN grants' : PassesOn(grants'[c].scope)
<1>1. PICK row : grants' = Insert(grants, codes + 1, row) /\ row.scope = scope
  BY DEF CreateCode
<1>2. PICK new : new = codes + 1
  OBVIOUS
<1>3. grants' = [c \in DOMAIN grants \cup {new} |-> IF c = new THEN row ELSE grants[c]]
  BY <1>1, <1>2 DEF Insert
<1>4. \A c \in DOMAIN grants' : grants'[c] = row \/ (c \in DOMAIN grants /\ grants'[c] = grants[c])
  BY <1>3
<1> QED
  BY <1>1, <1>4, Held

\* An exchange moves on with the scope it holds, or with none.
LEMMA MoveWithin ==
    ASSUME IndInv, ~SkipAuthorization, ConsentInv, NEW e \in Exchanges, NEW phase, Move(e, phase),
           phase \in Holding => ex[e].phase \in Holding
    PROVE  ConsentInv'
<1>1. ex[e] \in Exchange /\ ex \in [Exchanges -> Exchange]
  BY DEF IndInv, TypeOK
<1>2. PICK x : x = [ex[e] EXCEPT !.phase = phase]
  OBVIOUS
<1>3. x.phase = phase /\ x.scope = ex[e].scope
  BY <1>1, <1>2 DEF Exchange
<1>4. \A f \in Exchanges : ex'[f] = IF f = e THEN x ELSE ex[f]
  BY <1>1, <1>2 DEF Move
<1>5. \A f \in Exchanges : ex'[f].phase \in Holding => ex[f].phase \in Holding /\ ex'[f].scope = ex[f].scope
  BY <1>3, <1>4
<1>6. UNCHANGED <<grants, db, asking, consented>>
  BY DEF Move
<1> QED
  BY <1>5, <1>6, Held, WithinKept

\* The code and the token tables only shrink.
LEMMA ShrinkWithin ==
    ASSUME ~SkipAuthorization, ConsentInv, UNCHANGED <<asking, consented>>,
           DOMAIN grants' \subseteq DOMAIN grants, \A c \in DOMAIN grants' : grants'[c] = grants[c],
           DOMAIN db'.at \subseteq DOMAIN db.at, \A a \in DOMAIN db'.at : db'.at[a] = db.at[a],
           \A e \in Exchanges : ex'[e].phase \in Holding => ex'[e] = ex[e]
    PROVE  ConsentInv'
  BY Held, WithinKept

\* validate_code: the exchange takes the scope of the grant it read.
LEMMA ValidateWithin ==
    ASSUME IndInv, ~SkipAuthorization, ConsentInv, NEW e \in Exchanges, NEW c \in 0 .. codes, ValidateCode(e, c)
    PROVE  ConsentInv'
<1> DEFINE valid == c \in DOMAIN grants /\ now < grants[c].expires
<1>1. ex[e] \in Exchange /\ ex \in [Exchanges -> Exchange]
  BY DEF IndInv, TypeOK
<1>2. PICK late : late = (c \in spent)
  OBVIOUS
<1>3. PICK x : x = [ex[e] EXCEPT !.code = c, !.late = late]
  OBVIOUS
<1>4. PICK y : y = IF valid THEN [x EXCEPT !.phase = "validated", !.scope = grants[c].scope,
                                           !.until = grants[c].expires]
                   ELSE [x EXCEPT !.phase = "invalid_grant"]
  OBVIOUS
<1>5. ex' = [ex EXCEPT ![e] = y] /\ UNCHANGED <<grants, db, asking, consented>>
  BY <1>2, <1>3, <1>4 DEF ValidateCode
<1>6. y.phase \in Holding => valid /\ y.scope = grants[c].scope
  <2>1. CASE valid
    BY <1>1, <1>3, <1>4, <2>1 DEF Exchange
  <2>2. CASE ~valid
    <3>1. y.phase = "invalid_grant"
      BY <1>1, <1>3, <1>4, <2>2 DEF Exchange
    <3> QED
      BY <3>1 DEF Holding
  <2> QED
    BY <2>1, <2>2
<1>7. \A f \in Exchanges : ex'[f] = IF f = e THEN y ELSE ex[f]
  BY <1>1, <1>5
<1>8. \A f \in Exchanges : ex'[f].phase \in Holding => PassesOn(ex'[f].scope)
  BY <1>6, <1>7, Held
<1> QED
  BY <1>5, <1>8, Held, WithinKept

\* save_bearer_token: the access token gets the scope the exchange holds.
LEMMA SaveWithin ==
    ASSUME IndInv, ~SkipAuthorization, ConsentInv, NEW e \in Exchanges, SaveBearerToken(e)
    PROVE  ConsentInv'
<1>1. PICK A : A = CreateAccess(db, ex[e].scope, now + AccessLife, NULL)
  OBVIOUS
<1>2. /\ ex[e].phase = "confirmed" /\ db' = CreateRefresh(A, A.rtSeq + 1, A.atSeq)
      /\ ex' = [ex EXCEPT ![e] = [@ EXCEPT !.phase = "saved", !.issued = A.atSeq]]
      /\ UNCHANGED <<grants, asking, consented>>
  BY <1>1 DEF SaveBearerToken
<1>3. /\ ex[e] \in Exchange /\ ex \in [Exchanges -> Exchange] /\ ex[e].scope \in SUBSET Scopes
      /\ now + AccessLife \in Nat /\ NULL \in Nat /\ WellFormed(db)
  BY CodeAssumption DEF IndInv, TypeOK, Exchange, NULL
<1>4. WellFormed(A) /\ AccessCreated(db, A, NULL) /\ A.at[A.atSeq].scope = ex[e].scope
  <2>1. NULL \in DOMAIN db.rt \cup {NULL}
    OBVIOUS
  <2>2. WellFormed(A) /\ AccessCreated(db, A, NULL)
    BY <1>1, <1>3, <2>1, CreateAccessWellFormed
  <2>3. A.at[A.atSeq] = [token |-> A.strings, scope |-> ex[e].scope, expires |-> now + AccessLife, source |-> NULL]
    BY <1>1, <1>3, CreateAccessRow DEF WellFormed
  <2> QED
    BY <2>2, <2>3
<1>5. db'.at = A.at
  <2>1. A.rtSeq + 1 \in Nat /\ A.atSeq \in Nat /\ A.atSeq \in DOMAIN A.at
    BY <1>4 DEF WellFormed, IsStore, AccessCreated
  <2>2. RefreshCreated(A, db', A.rtSeq + 1, A.atSeq)
    BY <1>2, <1>4, <2>1, CreateRefreshWellFormed
  <2> QED
    BY <2>2 DEF RefreshCreated
<1>6. \A a \in DOMAIN db'.at : db'.at[a].scope = ex[e].scope \/ (a \in DOMAIN db.at /\ db'.at[a] = db.at[a])
  <2>1. \A a \in DOMAIN A.at : a = A.atSeq \/ (a \in DOMAIN db.at /\ A.at[a] = db.at[a])
    BY <1>4 DEF AccessCreated
  <2> QED
    BY <1>4, <1>5, <2>1
<1>7. \A a \in DOMAIN db'.at : PassesOn(db'.at[a].scope)
  BY <1>2, <1>6, Held DEF Holding
<1>8. PICK x : x = [ex[e] EXCEPT !.phase = "saved", !.issued = A.atSeq]
  OBVIOUS
<1>9. x.phase = "saved" /\ \A f \in Exchanges : ex'[f] = IF f = e THEN x ELSE ex[f]
  BY <1>2, <1>3, <1>8 DEF Exchange
<1>10. \A f \in Exchanges : ex'[f].phase \in Holding => ex'[f] = ex[f]
  BY <1>9 DEF Holding
<1> QED
  BY <1>2, <1>7, <1>10, Held, WithinKept

\* Silent or not, a code rests on a consent: the form's, or that of the token found.
LEMMA IssueWithin ==
    ASSUME ~SkipAuthorization, ConsentInv, NEW scope,
           FormValid(scope) \/ FindApproval(scope) \/ SilentCode(scope)
    PROVE  ConsentInv'
<1>1. CASE FormValid(scope)
  <2>1. CreateCode(scope) /\ consented' = consented \cup {scope} /\ UNCHANGED <<db, asking, ex>>
    BY <1>1 DEF FormValid
  <2>2. PassesOn(scope)
    BY <2>1 DEF PassesOn
  <2> QED
    BY <2>1, <2>2, CodeWithin, Held, WithinKept
<1>2. CASE FindApproval(scope)
  <2>1. asking' = asking \cup {scope} /\ UNCHANGED <<grants, db, ex, consented>>
    BY <1>2 DEF FindApproval
  <2>2. PICK a \in DOMAIN db.at : scope \subseteq db.at[a].scope
    BY <1>2 DEF FindApproval, ApprovedBefore
  <2>3. PassesOn(scope)
    BY <2>2, CarriedFrom DEF PassesOn
  <2> QED
    BY <2>1, <2>3, Held, WithinKept
<1>3. CASE SilentCode(scope)
  <2>1. /\ scope \in asking /\ CreateCode(scope) /\ asking' = asking \ {scope}
        /\ UNCHANGED <<db, ex, consented>>
    BY <1>3 DEF SilentCode
  <2>2. PassesOn(scope)
    BY <2>1, Held
  <2> QED
    BY <2>1, <2>2, CodeWithin, Held, WithinKept
<1> QED
  BY <1>1, <1>2, <1>3

\* The steps of an exchange.
LEMMA ServeWithin ==
    ASSUME IndInv, ~SkipAuthorization, ConsentInv, NEW e \in Exchanges, Serve(e) \/ Crash(e)
    PROVE  ConsentInv'
<1>1. CASE CheckChallenge(e)
  <2>1. PICK phase : Move(e, phase) /\ ex[e].phase \in Holding
    BY <1>1 DEF CheckChallenge, Fetched, Holding
  <2> QED
    BY <2>1, MoveWithin
<1>2. CASE ConfirmRedirectUri(e)
  <2>1. PICK phase : Move(e, phase) /\ ex[e].phase \in Holding
    BY <1>2 DEF ConfirmRedirectUri, Fetched, Holding
  <2> QED
    BY <2>1, MoveWithin
<1>3. CASE FetchGrant(e) \/ Crash(e)
  <2>1. PICK phase \in {"fetched", "server_error", "crashed"} : Move(e, phase)
    BY <1>3 DEF FetchGrant, Fetched, Crash
  <2> QED
    BY <2>1, MoveWithin DEF Holding
<1>4. CASE DeleteGrant(e)
  <2>1. ex \in [Exchanges -> Exchange] /\ ex[e] \in Exchange
    BY DEF IndInv, TypeOK
  <2>2. PICK x : x = [ex[e] EXCEPT !.phase = "deleted"]
    OBVIOUS
  <2>3. x.phase = "deleted" /\ \A f \in Exchanges : ex'[f] = IF f = e THEN x ELSE ex[f]
    BY <1>4, <2>1, <2>2 DEF DeleteGrant, Exchange
  <2>4. \A f \in Exchanges : ex'[f].phase \in Holding => ex'[f] = ex[f]
    BY <2>3 DEF Holding
  <2>5. DOMAIN grants' \subseteq DOMAIN grants /\ \A c \in DOMAIN grants' : grants'[c] = grants[c]
    BY <1>4 DEF DeleteGrant, Restrict
  <2> QED
    BY <1>4, <2>4, <2>5, ShrinkWithin DEF DeleteGrant
<1>5. CASE Respond(e)
  <2>1. CASE Move(e, "server_error")
    BY <2>1, MoveWithin DEF Holding
  <2>2. CASE /\ ex' = [ex EXCEPT ![e] = [@ EXCEPT !.phase = "ok"]]
             /\ UNCHANGED <<grants, db, asking, consented>>
    <3>1. ex \in [Exchanges -> Exchange] /\ ex[e] \in Exchange
      BY DEF IndInv, TypeOK
    <3>2. PICK x : x = [ex[e] EXCEPT !.phase = "ok"]
      OBVIOUS
    <3>3. x.phase = "ok" /\ \A f \in Exchanges : ex'[f] = IF f = e THEN x ELSE ex[f]
      BY <2>2, <3>1, <3>2 DEF Exchange
    <3>4. \A f \in Exchanges : ex'[f].phase \in Holding => ex'[f] = ex[f]
      BY <3>3 DEF Holding
    <3> QED
      BY <2>2, <3>4, ShrinkWithin
  <2> QED
    BY <1>5, <2>1, <2>2 DEF Respond
<1> QED
  BY <1>1, <1>2, <1>3, <1>4, <1>5, SaveWithin DEF Serve

\* Every step keeps scopes within one consent.
LEMMA ConsentStep ==
    ASSUME IndInv, ConsentInv, [Next]_vars
    PROVE  ConsentInv'
<1>1. CASE SkipAuthorization
  BY <1>1 DEF ConsentInv
<1>2. CASE ~SkipAuthorization
  <2>1. CASE \E scope \in Asked : FormValid(scope) \/ FindApproval(scope) \/ SilentCode(scope)
    BY <1>2, <2>1, IssueWithin
  <2>2. ASSUME NEW e \in Exchanges, (\E c \in 0 .. codes : ValidateCode(e, c)) \/ Serve(e) \/ Crash(e)
        PROVE  ConsentInv'
    BY <1>2, <2>2, ValidateWithin, ServeWithin
  <2>3. CASE ClearGrants
    <3>1. DOMAIN grants' \subseteq DOMAIN grants /\ \A c \in DOMAIN grants' : grants'[c] = grants[c]
      BY <2>3 DEF ClearGrants, Restrict
    <3> QED
      BY <1>2, <2>3, <3>1, ShrinkWithin DEF ClearGrants
  <2>4. ASSUME NEW a \in DOMAIN db.at, WithdrawToken(a)
        PROVE  ConsentInv'
    <3>1. Shrinks(db, db')
      BY <2>4, DeleteAccessShrinks DEF WithdrawToken, IndInv
    <3> QED
      BY <1>2, <2>4, <3>1, ShrinkWithin DEF Shrinks, WithdrawToken
  <2>5. CASE Tick \/ UNCHANGED vars
    <3>1. UNCHANGED <<grants, db, asking, ex, consented>>
      BY <2>5 DEF Tick, vars
    <3> QED
      BY <1>2, <3>1, ShrinkWithin
  <2> QED
    BY <2>1, <2>2, <2>3, <2>4, <2>5 DEF Next
<1> QED
  BY <1>1, <1>2

\* Codes and tokens never carry more than the user approved on one form, however long the
\* chain of silent approvals that lead from the form to them.
THEOREM ConsentNeverOutgrown == Spec => []WithinOneConsent
<1>1. Init => ConsentInv
  <2> SUFFICES ASSUME Init PROVE Carried = {}
    BY DEF ConsentInv
  <2>1. DOMAIN grants = {} /\ DOMAIN db.at = {} /\ asking = {}
    BY DEF Init, EmptyStore
  <2>2. \A e \in Exchanges : ex[e].phase = "new"
    BY DEF Init, NewExchange
  <2> QED
    BY <2>1, <2>2, CarriedFrom DEF Holding
<1>2. IndInv /\ ConsentInv /\ [Next]_vars => ConsentInv'
  BY ConsentStep
<1>3. ConsentInv => WithinOneConsent
  BY DEF ConsentInv, WithinOneConsent, Carried, Approved
<1> QED
  BY <1>1, <1>2, <1>3, Invariance, PTL DEF Spec

-----------------------------------------------------------------------------
(***************************************************************************)
(* Codes that are still good.                                              *)
(***************************************************************************)
Accepted == {"validated", "challenged", "confirmed", "saved", "fetched"}

OvertakenInv == CodeKnown /\ IssuedWhenSaved /\ FailsOnlyIfOvertaken

\* Another exchange of e's code has had its tokens, or the code has expired.
Excused(e) ==
    \/ \E f \in Exchanges \ {e} : ex[f].code = ex[e].code /\ Issued(f)
    \/ ex[e].until < now

\* Whoever holds tokens keeps the code they were had for, nobody is given a key of old, and a code leaves the table when it has expired or when an exchange that
\* has its tokens deletes it.
Bookkeeping ==
    /\ now <= now' /\ now' \in Nat /\ db.atSeq <= db'.atSeq /\ db'.atSeq \in Nat
    /\ \A f \in Exchanges : Issued(f) => Issued(f)' /\ ex'[f].code = ex[f].code
    /\ \A f \in Exchanges : ex'[f].issued \in 0 .. db'.atSeq
    /\ \A f \in Exchanges : ex'[f].phase \in {"saved", "fetched", "deleted"} => Issued(f)'
    /\ \A a \in DOMAIN db'.at : a \in DOMAIN db.at \/ a > db.atSeq
    /\ \A c \in DOMAIN grants' : c \notin 1 .. codes \/ (c \in DOMAIN grants /\ grants'[c] = grants[c])
    /\ \A c \in DOMAIN grants \ DOMAIN grants' :
          \/ grants[c].expires < now
          \/ \E f \in Exchanges : Issued(f)' /\ ex'[f].code = c /\ ex'[f].phase = "deleted"

\* How an exchange gets to where its code has been accepted, and to where it has failed.
Passage ==
    /\ \A f \in Exchanges : ex'[f].phase \in Accepted =>
          \/ ex[f].phase \in Accepted /\ ex'[f].code = ex[f].code /\ ex'[f].until = ex[f].until
          \/ ex'[f].code \in DOMAIN grants' /\ ex'[f].until = grants'[ex'[f].code].expires
    /\ \A f \in Exchanges : ex'[f].phase = "server_error" =>
          \/ ex'[f] = ex[f]
          \/ Excused(f) /\ ex'[f].code = ex[f].code /\ ex'[f].until = ex[f].until
          \/ Issued(f)' /\ ex'[f].issued \notin DOMAIN db'.at

\* An excuse does not lapse.
LEMMA ExcuseKept ==
    ASSUME IndInv, Bookkeeping, NEW e \in Exchanges, Excused(e),
           ex'[e].code = ex[e].code, ex'[e].until = ex[e].until
    PROVE  Excused(e)'
<1>1. now \in Nat /\ ex[e].until \in Nat
  BY DEF IndInv, TypeOK, Exchange
<1>2. CASE ex[e].until < now
  BY <1>1, <1>2 DEF Bookkeeping, Excused
<1>3. ASSUME NEW f \in Exchanges \ {e}, ex[f].code = ex[e].code, Issued(f)
      PROVE  Excused(e)'
  BY <1>3 DEF Bookkeeping, Excused, Issued
<1> QED
  BY <1>2, <1>3 DEF Excused

\* What is known of a code and of a failure stays true.
LEMMA PassageKeeps ==
    ASSUME IndInv, OvertakenInv, Bookkeeping, Passage
    PROVE  OvertakenInv'
<1>1. IssuedWhenSaved'
  BY DEF Bookkeeping, IssuedWhenSaved
<1>2. ASSUME NEW e \in Exchanges, ex'[e].phase \in Accepted
      PROVE  IF ex'[e].code \in DOMAIN grants' THEN ex'[e].until = grants'[ex'[e].code].expires
             ELSE Excused(e)'
  <2>1. CASE ex'[e].code \in DOMAIN grants' /\ ex'[e].until = grants'[ex'[e].code].expires
    BY <2>1
  <2>2. CASE ex[e].phase \in Accepted /\ ex'[e].code = ex[e].code /\ ex'[e].until = ex[e].until
    <3>1. IF ex[e].code \in DOMAIN grants THEN ex[e].until = grants[ex[e].code].expires ELSE Excused(e)
      BY <2>2 DEF OvertakenInv, CodeKnown, Excused, Accepted
    <3>2. ex[e].code \in 1 .. codes
      BY <2>2 DEF IndInv, CodeWasIssued, Running, Accepted
    <3>3. CASE ex[e].code \in DOMAIN grants'
      BY <2>2, <3>1, <3>2, <3>3 DEF Bookkeeping
    <3>4. CASE ex[e].code \notin DOMAIN grants
      <4>1. Excused(e)'
        BY <2>2, <3>1, <3>4, ExcuseKept
      <4>2. ex[e].code \notin DOMAIN grants'
        BY <3>2, <3>4 DEF Bookkeeping
      <4> QED
        BY <2>2, <4>1, <4>2
    <3>5. CASE ex[e].code \in DOMAIN grants \ DOMAIN grants'
      <4>1. CASE grants[ex[e].code].expires < now
        <5>1. Excused(e)
          BY <3>1, <3>5, <4>1 DEF Excused
        <5> QED
          BY <2>2, <3>5, <5>1, ExcuseKept
      <4>2. ASSUME NEW f \in Exchanges, Issued(f)', ex'[f].code = ex[e].code, ex'[f].phase = "deleted"
            PROVE  Excused(e)'
        <5>1. f # e
          BY <1>2, <4>2 DEF Accepted
        <5> QED
          BY <2>2, <4>2, <5>1 DEF Excused
      <4> QED
        BY <2>2, <3>5, <4>1, <4>2 DEF Bookkeeping
    <3> QED
      BY <3>3, <3>4, <3>5
  <2> QED
    BY <1>2, <2>1, <2>2 DEF Passage
<1>3. CodeKnown'
  BY <1>2 DEF CodeKnown, Excused, Accepted
<1>4. ASSUME NEW e \in Exchanges, ex'[e].phase = "server_error"
      PROVE  Excused(e)' \/ (Issued(e)' /\ ex'[e].issued \notin DOMAIN db'.at)
  <2>1. CASE Issued(e)' /\ ex'[e].issued \notin DOMAIN db'.at
    BY <2>1
  <2>2. CASE Excused(e) /\ ex'[e].code = ex[e].code /\ ex'[e].until = ex[e].until
    BY <2>2, ExcuseKept
  <2>3. CASE ex'[e] = ex[e]
    <3>1. Excused(e) \/ (Issued(e) /\ ex[e].issued \notin DOMAIN db.at)
      BY <1>4, <2>3 DEF OvertakenInv, FailsOnlyIfOvertaken, Excused
    <3>2. CASE Excused(e)
      BY <2>3, <3>2, ExcuseKept
    <3>3. CASE Issued(e) /\ ex[e].issued \notin DOMAIN db.at
      <4>1. ex[e].issued \in 0 .. db.atSeq /\ db.atSeq \in Nat
        BY DEF OvertakenInv, IssuedWhenSaved, IndInv, WellFormed, IsStore
      <4>2. ex[e].issued \notin DOMAIN db'.at
        BY <3>3, <4>1 DEF Bookkeeping
      <4> QED
        BY <2>3, <3>3, <4>2 DEF Issued
    <3> QED
      BY <3>1, <3>2, <3>3
  <2> QED
    BY <1>4, <2>1, <2>2, <2>3 DEF Passage
<1>5. FailsOnlyIfOvertaken'
  BY <1>4 DEF FailsOnlyIfOvertaken, Excused
<1> QED
  BY <1>1, <1>3, <1>5 DEF OvertakenInv

\* Tables that change beside exchanges that do not.
LEMMA BesideExchanges ==
    ASSUME IndInv, OvertakenInv, UNCHANGED ex, now' \in {now, now + 1},
           db'.atSeq = db.atSeq, DOMAIN db'.at \subseteq DOMAIN db.at,
           \A c \in DOMAIN grants' : c \notin 1 .. codes \/ (c \in DOMAIN grants /\ grants'[c] = grants[c]),
           \A c \in DOMAIN grants \ DOMAIN grants' : grants[c].expires < now
    PROVE  OvertakenInv'
<1>1. now \in Nat /\ db.atSeq \in Nat
  BY DEF IndInv, TypeOK, WellFormed, IsStore
<1>2. Bookkeeping
  BY <1>1 DEF Bookkeeping, OvertakenInv, IssuedWhenSaved, Issued
<1>3. Passage
  BY DEF Passage
<1> QED
  BY <1>2, <1>3, PassageKeeps

\* One exchange goes on, from a phase its code was accepted for.
LEMMA OneExchange ==
    ASSUME IndInv, OvertakenInv, NEW e \in Exchanges, NEW x, ex' = [ex EXCEPT ![e] = x],
           ex[e].phase \in Running, x.code = ex[e].code, x.until = ex[e].until,
           x.issued = ex[e].issued, UNCHANGED <<now, db>>,
           x.phase \in Accepted \cup {"deleted"} => ex[e].phase \in Accepted,
           x.phase \in {"saved", "fetched", "deleted"} => Issued(e),
           x.phase = "server_error" => Excused(e) \/ (Issued(e) /\ ex[e].issued \notin DOMAIN db.at),
           \A c \in DOMAIN grants' : c \in DOMAIN grants /\ grants'[c] = grants[c],
           \A c \in DOMAIN grants \ DOMAIN grants' : x.phase = "deleted" /\ c = x.code
    PROVE  OvertakenInv'
<1>1. now \in Nat /\ db.atSeq \in Nat /\ ex \in [Exchanges -> Exchange]
  BY DEF IndInv, TypeOK, WellFormed, IsStore
<1>2. ex'[e] = x /\ \A f \in Exchanges \ {e} : ex'[f] = ex[f]
  BY <1>1
<1>3. /\ \A f \in Exchanges : Issued(f)' <=> Issued(f)
      /\ \A f \in Exchanges : ex'[f].code = ex[f].code /\ ex'[f].issued = ex[f].issued
      /\ \A f \in Exchanges : ex'[f].until = ex[f].until
  BY <1>2 DEF Issued
<1>4. Bookkeeping
  <2>1. \A f \in Exchanges : ex'[f].phase \in {"saved", "fetched", "deleted"} => Issued(f)'
    BY <1>2, <1>3 DEF OvertakenInv, IssuedWhenSaved
  <2>2. \A f \in Exchanges : ex'[f].issued \in 0 .. db'.atSeq
    BY <1>3 DEF OvertakenInv, IssuedWhenSaved
  <2>3. ASSUME NEW c \in DOMAIN grants \ DOMAIN grants'
        PROVE  \E f \in Exchanges : Issued(f)' /\ ex'[f].code = c /\ ex'[f].phase = "deleted"
    BY <1>2, <1>3, <2>1
  <2> QED
    BY <1>1, <1>3, <2>1, <2>2, <2>3 DEF Bookkeeping
<1>5. Passage
  BY <1>2, <1>3 DEF Passage
<1> QED
  BY <1>4, <1>5, PassageKeeps

\* An exchange that goes on, or stops, without touching the tables.
LEMMA MoveOvertaken ==
    ASSUME IndInv, OvertakenInv, NEW e \in Exchanges, NEW phase, Move(e, phase), ex[e].phase \in Running,
           phase \in Accepted => ex[e].phase \in Accepted, phase # "deleted",
           phase \in {"saved", "fetched"} => Issued(e),
           phase = "server_error" => Excused(e) \/ (Issued(e) /\ ex[e].issued \notin DOMAIN db.at)
    PROVE  OvertakenInv'
<1>1. PICK x : x = [ex[e] EXCEPT !.phase = phase]
  OBVIOUS
<1>2. x.phase = phase /\ x.code = ex[e].code /\ x.until = ex[e].until /\ x.issued = ex[e].issued
  BY <1>1 DEF IndInv, TypeOK, Exchange
<1>3. ex' = [ex EXCEPT ![e] = x] /\ UNCHANGED <<now, grants, db>>
  BY <1>1 DEF Move
<1> QED
  BY <1>2, <1>3, OneExchange

\* get() fails only if the row is gone, and then there is a reason.
LEMMA FetchedOvertaken ==
    ASSUME IndInv, OvertakenInv, NEW e \in Exchanges, NEW result, Fetched(e, result),
           ex[e].phase \in Accepted, result \notin {"deleted", "server_error"},
           result \in {"saved", "fetched"} => Issued(e)
    PROVE  OvertakenInv'
<1>1. ex[e].phase \in Running
  BY DEF Accepted, Running
<1>2. CASE ex[e].code \in DOMAIN grants
  BY <1>1, <1>2, MoveOvertaken DEF Fetched
<1>3. CASE ex[e].code \notin DOMAIN grants
  <2>1. Excused(e)
    BY <1>3 DEF OvertakenInv, CodeKnown, Excused, Accepted
  <2>2. PICK outcome : outcome = "server_error" /\ outcome \notin Accepted
    BY DEF Accepted
  <2>3. Move(e, outcome)
    BY <1>3, <2>2 DEF Fetched
  <2> QED
    BY <1>1, <2>1, <2>2, <2>3, MoveOvertaken
<1> QED
  BY <1>2, <1>3

\* validate_code: what an exchange learns of its code is what the table says.
LEMMA ValidateOvertaken ==
    ASSUME IndInv, OvertakenInv, NEW e \in Exchanges, NEW c \in 0 .. codes, ValidateCode(e, c)
    PROVE  OvertakenInv'
<1>1. ex[e] \in Exchange /\ ex \in [Exchanges -> Exchange] /\ ex[e].phase = "new"
  BY DEF IndInv, TypeOK, ValidateCode
<1>2. PICK late, valid : late = (c \in spent) /\ valid = (c \in DOMAIN grants /\ now < grants[c].expires)
  OBVIOUS
<1>3. PICK x : x = [ex[e] EXCEPT !.code = c, !.late = late]
  OBVIOUS
<1>4. PICK y : y = IF valid THEN [x EXCEPT !.phase = "validated", !.scope = grants[c].scope,
                                           !.until = grants[c].expires]
                   ELSE [x EXCEPT !.phase = "invalid_grant"]
  OBVIOUS
<1>5. ex' = [ex EXCEPT ![e] = y] /\ UNCHANGED <<now, grants, db>>
  BY <1>2, <1>3, <1>4 DEF ValidateCode
<1>6. /\ y.issued = ex[e].issued /\ y.code = c
      /\ y.phase = "invalid_grant" \/ (valid /\ y.phase = "validated" /\ y.until = grants[c].expires)
  BY <1>1, <1>3, <1>4 DEF Exchange
<1>7. ex'[e] = y /\ \A f \in Exchanges \ {e} : ex'[f] = ex[f]
  BY <1>1, <1>5
<1>8. ~Issued(e) /\ ex[e].issued \in 0 .. db.atSeq
  BY <1>1 DEF IndInv, NewIsUnissued, OvertakenInv, IssuedWhenSaved
<1>9. now \in Nat /\ db.atSeq \in Nat
  BY DEF IndInv, TypeOK, WellFormed, IsStore
<1>10. Bookkeeping
  <2>1. \A f \in Exchanges : ex'[f].phase \in {"saved", "fetched", "deleted"} => Issued(f)'
    BY <1>6, <1>7 DEF OvertakenInv, IssuedWhenSaved, Issued
  <2>2. \A f \in Exchanges : ex'[f].issued \in 0 .. db'.atSeq
    BY <1>5, <1>6, <1>7 DEF OvertakenInv, IssuedWhenSaved
  <2>3. \A f \in Exchanges : Issued(f) => Issued(f)' /\ ex'[f].code = ex[f].code
    BY <1>7, <1>8 DEF Issued
  <2> QED
    BY <1>5, <1>9, <2>1, <2>2, <2>3 DEF Bookkeeping
<1>11. Passage
  BY <1>2, <1>5, <1>6, <1>7 DEF Passage, Accepted
<1> QED
  BY <1>10, <1>11, PassageKeeps

\* save_bearer_token: the tokens are there, under keys nobody has held.
LEMMA SaveOvertaken ==
    ASSUME IndInv, OvertakenInv, NEW e \in Exchanges, SaveBearerToken(e)
    PROVE  OvertakenInv'
<1>1. PICK A : A = CreateAccess(db, ex[e].scope, now + AccessLife, NULL)
  OBVIOUS
<1>2. /\ ex[e].phase = "confirmed" /\ db' = CreateRefresh(A, A.rtSeq + 1, A.atSeq)
      /\ ex' = [ex EXCEPT ![e] = [@ EXCEPT !.phase = "saved", !.issued = A.atSeq]]
      /\ UNCHANGED <<now, grants>>
  BY <1>1 DEF SaveBearerToken
<1>3. /\ ex[e] \in Exchange /\ ex \in [Exchanges -> Exchange] /\ ex[e].scope \in SUBSET Scopes
      /\ now \in Nat /\ now + AccessLife \in Nat /\ NULL \in Nat /\ WellFormed(db) /\ db.atSeq \in Nat
  BY CodeAssumption DEF IndInv, TypeOK, Exchange, WellFormed, IsStore, NULL
<1>4. WellFormed(A) /\ AccessCreated(db, A, NULL)
  <2>1. NULL \in DOMAIN db.rt \cup {NULL}
    OBVIOUS
  <2> QED
    BY <1>1, <1>3, <2>1, CreateAccessWellFormed
<1>5. A.atSeq = db.atSeq + 1 /\ \A a \in DOMAIN A.at : a = A.atSeq \/ a \in DOMAIN db.at
  BY <1>4 DEF AccessCreated
<1>6. db'.at = A.at /\ db'.atSeq = A.atSeq
  <2>1. A.rtSeq + 1 \in Nat /\ A.atSeq \in Nat /\ A.atSeq \in DOMAIN A.at
    BY <1>4 DEF WellFormed, IsStore, AccessCreated
  <2>2. RefreshCreated(A, db', A.rtSeq + 1, A.atSeq)
    BY <1>2, <1>4, <2>1, CreateRefreshWellFormed
  <2> QED
    BY <2>2 DEF RefreshCreated
<1>7. PICK x : x = [ex[e] EXCEPT !.phase = "saved", !.issued = A.atSeq]
  OBVIOUS
<1>8. /\ x.phase = "saved" /\ x.issued = A.atSeq /\ x.code = ex[e].code /\ x.until = ex[e].until
      /\ ex'[e] = x /\ \A f \in Exchanges \ {e} : ex'[f] = ex[f]
  BY <1>2, <1>3, <1>7 DEF Exchange
<1>9. Issued(e)' /\ A.atSeq \in 0 .. db'.atSeq /\ db'.atSeq \in Nat /\ db.atSeq <= db'.atSeq
  BY <1>3, <1>5, <1>6, <1>8 DEF Issued, NULL
<1>10. Bookkeeping
  <2>1. \A f \in Exchanges : ex'[f].phase \in {"saved", "fetched", "deleted"} => Issued(f)'
    BY <1>8, <1>9 DEF OvertakenInv, IssuedWhenSaved, Issued
  <2>2. ASSUME NEW f \in Exchanges PROVE ex'[f].issued \in 0 .. db'.atSeq
    <3>1. ex[f].issued \in 0 .. db.atSeq
      BY DEF OvertakenInv, IssuedWhenSaved
    <3> QED
      BY <1>3, <1>8, <1>9, <3>1
  <2>3. \A f \in Exchanges : Issued(f) => Issued(f)' /\ ex'[f].code = ex[f].code
    BY <1>8, <1>9 DEF Issued
  <2>4. \A a \in DOMAIN db'.at : a \in DOMAIN db.at \/ a > db.atSeq
    BY <1>3, <1>5, <1>6
  <2> QED
    BY <1>2, <1>3, <1>9, <2>1, <2>2, <2>3, <2>4 DEF Bookkeeping
<1>11. Passage
  BY <1>2, <1>8 DEF Passage, Accepted
<1> QED
  BY <1>10, <1>11, PassageKeeps

\* The steps of an exchange.
LEMMA ServeOvertaken ==
    ASSUME IndInv, OvertakenInv, NEW e \in Exchanges, Serve(e) \/ Crash(e)
    PROVE  OvertakenInv'
<1>1. CASE CheckChallenge(e)
  <2>1. PICK result \in {"challenged", "invalid_grant"} : Fetched(e, result)
    BY <1>1 DEF CheckChallenge
  <2> QED
    BY <1>1, <2>1, FetchedOvertaken DEF CheckChallenge, Accepted
<1>2. CASE ConfirmRedirectUri(e)
  <2>1. PICK result \in {"confirmed", "mismatching_uri"} : Fetched(e, result)
    BY <1>2 DEF ConfirmRedirectUri
  <2> QED
    BY <1>2, <2>1, FetchedOvertaken DEF ConfirmRedirectUri, Accepted
<1>3. CASE FetchGrant(e)
  <2>1. PICK result : result = "fetched" /\ Fetched(e, result)
    BY <1>3 DEF FetchGrant
  <2>2. Issued(e)
    BY <1>3 DEF FetchGrant, OvertakenInv, IssuedWhenSaved
  <2> QED
    BY <1>3, <2>1, <2>2, FetchedOvertaken DEF FetchGrant, Accepted
<1>4. CASE Crash(e)
  <2>1. PICK phase : phase = "crashed" /\ phase \notin Accepted /\ Move(e, phase)
    BY <1>4 DEF Crash, Accepted
  <2> QED
    BY <1>4, <2>1, MoveOvertaken DEF Crash
<1>5. CASE DeleteGrant(e)
  <2>1. PICK x : x = [ex[e] EXCEPT !.phase = "deleted"]
    OBVIOUS
  <2>2. /\ x.phase = "deleted" /\ x.code = ex[e].code /\ x.until = ex[e].until /\ x.issued = ex[e].issued
    BY <2>1 DEF IndInv, TypeOK, Exchange
  <2>3. /\ ex[e].phase = "fetched" /\ ex' = [ex EXCEPT ![e] = x] /\ UNCHANGED <<now, db>>
        /\ DOMAIN grants' = DOMAIN grants \ {ex[e].code}
        /\ \A c \in DOMAIN grants' : grants'[c] = grants[c]
    BY <1>5, <2>1 DEF DeleteGrant, Restrict
  <2>4. Issued(e) /\ ex[e].phase \in Running /\ ex[e].phase \in Accepted
    BY <2>3 DEF OvertakenInv, IssuedWhenSaved, Running, Accepted
  <2> QED
    BY <2>2, <2>3, <2>4, OneExchange
<1>6. CASE Respond(e)
  <2>1. Issued(e) /\ ex[e].phase \in Running
    BY <1>6 DEF Respond, OvertakenInv, IssuedWhenSaved, Running
  <2>2. CASE ex[e].issued \notin DOMAIN db.at
    <3>1. PICK phase : phase = "server_error" /\ phase \notin Accepted /\ Move(e, phase)
      BY <1>6, <2>2 DEF Respond, Accepted
    <3> QED
      BY <2>1, <2>2, <3>1, MoveOvertaken
  <2>3. CASE ex[e].issued \in DOMAIN db.at
    <3>1. PICK x : x = [ex[e] EXCEPT !.phase = "ok"]
      OBVIOUS
    <3>2. /\ x.phase = "ok" /\ x.code = ex[e].code /\ x.until = ex[e].until /\ x.issued = ex[e].issued
      BY <3>1 DEF IndInv, TypeOK, Exchange
    <3>3. ex' = [ex EXCEPT ![e] = x] /\ UNCHANGED <<now, grants, db>>
      BY <1>6, <2>3, <3>1 DEF Respond
    <3>4. x.phase \notin Accepted \cup {"deleted", "server_error"}
      BY <3>2 DEF Accepted
    <3> QED
      BY <2>1, <3>2, <3>3, <3>4, OneExchange
  <2> QED
    BY <2>2, <2>3
<1> QED
  BY <1>1, <1>2, <1>3, <1>4, <1>5, <1>6, SaveOvertaken DEF Serve

\* Every step keeps what is known of codes.
LEMMA NextOvertaken ==
    ASSUME IndInv, OvertakenInv, [Next]_vars
    PROVE  OvertakenInv'
<1>1. ASSUME NEW scope, FormValid(scope) \/ FindApproval(scope) \/ SilentCode(scope)
      PROVE  OvertakenInv'
  <2>1. UNCHANGED <<now, db, ex>>
    BY <1>1 DEF FormValid, FindApproval, SilentCode
  <2>2. CASE CreateCode(scope)
    <3>1. PICK row : grants' = Insert(grants, codes + 1, row)
      BY <2>2 DEF CreateCode
    <3>2. PICK new : new = codes + 1 /\ new \notin 1 .. codes
      BY DEF IndInv, TypeOK
    <3>3. grants' = [c \in DOMAIN grants \cup {new} |-> IF c = new THEN row ELSE grants[c]]
      BY <3>1, <3>2 DEF Insert
    <3> QED
      BY <2>1, <3>2, <3>3, BesideExchanges
  <2>3. CASE UNCHANGED grants
    BY <2>1, <2>3, BesideExchanges
  <2> QED
    BY <1>1, <2>2, <2>3 DEF FormValid, FindApproval, SilentCode
<1>2. CASE ClearGrants
  <2>1. PICK G \in SUBSET {c \in DOMAIN grants : grants[c].expires < now} :
           grants' = Restrict(grants, DOMAIN grants \ G)
    BY <1>2 DEF ClearGrants
  <2>2. DOMAIN grants' = DOMAIN grants \ G /\ \A c \in DOMAIN grants' : grants'[c] = grants[c]
    BY <2>1 DEF Restrict
  <2>3. UNCHANGED <<now, db, ex>>
    BY <1>2 DEF ClearGrants
  <2> QED
    BY <2>1, <2>2, <2>3, BesideExchanges
<1>3. ASSUME NEW a, WithdrawToken(a) PROVE OvertakenInv'
  <2>1. IsStore(db) /\ db' = DeleteAccess(db, {a}) /\ UNCHANGED <<now, grants, ex>>
    BY <1>3 DEF WithdrawToken, IndInv, WellFormed
  <2>2. AccessDeleted(db, db', {a})
    BY <2>1, DeleteAccessFields
  <2>3. db'.atSeq = db.atSeq /\ DOMAIN db'.at \subseteq DOMAIN db.at
    BY <2>2 DEF AccessDeleted
  <2> QED
    BY <2>1, <2>3, BesideExchanges
<1>4. CASE Tick
  <2>1. now' = now + 1 /\ UNCHANGED <<grants, db, ex>>
    BY <1>4 DEF Tick
  <2> QED
    BY <2>1, BesideExchanges
<1>5. CASE UNCHANGED vars
  <2>1. UNCHANGED <<now, grants, db, ex>>
    BY <1>5 DEF vars
  <2> QED
    BY <2>1, BesideExchanges
<1> QED
  BY <1>1, <1>2, <1>3, <1>4, <1>5, ValidateOvertaken, ServeOvertaken DEF Next

\* Nobody loses a code that is still good: a 500 means that another exchange of the code
\* has had its tokens, that the code has expired, or that what it bought was withdrawn,
\* however exchanges, crashes and cleartokens interleave.
THEOREM GoodCodesServe == Spec => []FailsOnlyIfOvertaken
<1>1. Init => OvertakenInv
  <2> SUFFICES ASSUME Init PROVE OvertakenInv
    OBVIOUS
  <2>1. /\ NewExchange.phase = "new" /\ NewExchange.issued = 0
        /\ \A e \in Exchanges : ex[e] = NewExchange
    BY DEF Init, NewExchange, NULL
  <2>2. db.atSeq = 0
    BY DEF Init, EmptyStore
  <2> QED
    BY <2>1, <2>2 DEF OvertakenInv, CodeKnown, IssuedWhenSaved, FailsOnlyIfOvertaken
<1>2. IndInv /\ OvertakenInv /\ [Next]_vars => OvertakenInv'
  BY NextOvertaken
<1>3. OvertakenInv => FailsOnlyIfOvertaken
  BY DEF OvertakenInv
<1> QED
  BY <1>1, <1>2, <1>3, Invariance, PTL DEF Spec

=============================================================================
