-------------------------- MODULE ResourceServer_proofs --------------------------
(***************************************************************************)
(* Theorems about the introspection cache, for every number of requests,   *)
(* caching time and time zone.                                             *)
(***************************************************************************)
EXTENDS ResourceServer, TLAPS

\* The expiry stored is a time, and at most the caching time away.
LEMMA ExpiresCapped ==
    ASSUME now \in Nat, exp \in Nat
    PROVE  Expires \in Int /\ Expires <= now + Cache
BY CacheAssumption DEF Expires, NULL

\* A row is good for somebody only while it has time left.
LEMMA ValidHasTime ==
    ASSUME now \in Nat, NEW row \in Row, NEW wanted, IsValid(row, wanted), row.expires <= now + Cache
    PROVE  Cache > 0 /\ row.expires > now /\ wanted \subseteq row.scope
BY CacheAssumption DEF IsValid, Row

\* The system starts with an empty cache and nobody served.
LEMMA InitInv == Init => IndInv
<1> SUFFICES ASSUME Init PROVE IndInv
  OBVIOUS
<1>1. TypeOK
  BY CacheAssumption DEF Init, TypeOK, NewRequest, Request, NULL
<1> QED
  BY <1>1 DEF Init, IndInv, RowsAreCapped, QuietIsQuiet, ServedWasOpen, RevokedStopsAfterCache,
              NewRequest, NULL

\* A step that changes one request only: it may not put an answer under way once
\* the token is quiet, and may serve only a request that is in time.
LEMMA RequestStep ==
    ASSUME IndInv, NEW r \in Requests, NEW x \in Request, req' = [req EXCEPT ![r] = x],
           UNCHANGED <<now, scope, exp, active, cached, quiet>>,
           x.phase = "answered" => quiet = NULL, x.start <= now,
           x.phase = "served" => Cache > 0 /\ (quiet # NULL => x.start < quiet + Cache)
    PROVE  IndInv'
<1>1. req \in [Requests -> Request] /\ req' \in [Requests -> Request]
  BY DEF IndInv, TypeOK
<1>2. \A q \in Requests : req'[q] = IF q = r THEN x ELSE req[q]
  BY <1>1
<1>3. TypeOK'
  BY <1>1 DEF IndInv, TypeOK
<1>4. RowsAreCapped' /\ QuietIsQuiet'
  BY <1>2 DEF IndInv, RowsAreCapped, QuietIsQuiet
<1>5. ServedWasOpen' /\ RevokedStopsAfterCache'
  BY <1>2 DEF IndInv, ServedWasOpen, RevokedStopsAfterCache
<1> QED
  BY <1>3, <1>4, <1>5 DEF IndInv

\* A row served from was stored before the token became quiet.
LEMMA LoadStep ==
    ASSUME IndInv, NEW r \in Requests, LoadAccessToken(r)
    PROVE  IndInv'
<1>1. PICK wanted \in SUBSET Scopes :
        req' = [req EXCEPT ![r] = [@ EXCEPT !.wanted = wanted, !.start = now, !.decided = now,
                   !.phase = IF \E row \in cached : IsValid(row, wanted) THEN "served" ELSE "asking"]]
  BY DEF LoadAccessToken
<1> DEFINE known == \E row \in cached : IsValid(row, wanted)
           x == [req[r] EXCEPT !.wanted = wanted, !.start = now, !.decided = now,
                               !.phase = IF known THEN "served" ELSE "asking"]
<1>2. req[r] \in Request /\ now \in Nat /\ quiet \in Nat /\ cached \subseteq Row
  BY DEF IndInv, TypeOK
<1>3. x \in Request /\ x.start = now /\ x.phase = IF known THEN "served" ELSE "asking"
  BY <1>2 DEF Request
<1>4. ASSUME known PROVE Cache > 0 /\ (quiet # NULL => now < quiet + Cache)
  <2>1. PICK row \in cached : IsValid(row, wanted)
    BY <1>4
  <2>2. Cache > 0 /\ row.expires > now /\ row.expires \in Int
    BY <1>2, <2>1, ValidHasTime DEF IndInv, RowsAreCapped, Row
  <2>3. quiet # NULL => row.expires <= quiet + Cache
    BY <2>1 DEF IndInv, QuietIsQuiet
  <2> QED
    BY <1>2, <2>2, <2>3, CacheAssumption
<1>5. req' = [req EXCEPT ![r] = x] /\ UNCHANGED <<now, scope, exp, active, cached, quiet>>
  BY <1>1 DEF LoadAccessToken
<1>6. x.start <= now
  BY <1>2, <1>3
<1> HIDE DEF x, known
<1> QED
  BY <1>3, <1>4, <1>5, <1>6, RequestStep

\* A failed POST serves nobody.
LEMMA PostFailsStep ==
    ASSUME IndInv, NEW r \in Requests, PostFails(r)
    PROVE  IndInv'
<1> DEFINE x == [req[r] EXCEPT !.phase = "refused", !.decided = now, !.failed = TRUE]
<1>1. req[r] \in Request /\ now \in Nat /\ req[r].start <= now
  BY DEF IndInv, TypeOK, ServedWasOpen
<1>2. x \in Request /\ x.phase = "refused" /\ x.start = req[r].start
  BY <1>1 DEF Request
<1>3. req' = [req EXCEPT ![r] = x] /\ UNCHANGED <<now, scope, exp, active, cached, quiet>>
  BY DEF PostFails
<1> HIDE DEF x
<1> QED
  BY <1>1, <1>2, <1>3, RequestStep

\* The authorization server confirms no token that is quiet.
LEMMA IntrospectStep ==
    ASSUME IndInv, NEW r \in Requests, Introspect(r)
    PROVE  IndInv'
<1> DEFINE good == active /\ (exp = NULL \/ now < exp)
           x == [req[r] EXCEPT !.phase = IF good THEN "answered" ELSE "refused", !.decided = now]
<1>1. req[r] \in Request /\ now \in Nat /\ req[r].start <= now
  BY DEF IndInv, TypeOK, ServedWasOpen
<1>2. x \in Request /\ x.start = req[r].start /\ x.phase = IF good THEN "answered" ELSE "refused"
  BY <1>1 DEF Request
<1>3. req' = [req EXCEPT ![r] = x] /\ UNCHANGED <<now, scope, exp, active, cached, quiet>>
  BY DEF Introspect, Decide
<1>4. good => quiet = NULL
  BY DEF IndInv, QuietIsQuiet
<1> HIDE DEF x, good
<1> QED
  BY <1>1, <1>2, <1>3, <1>4, RequestStep

\* What is stored is capped, and only the last answer under way can make the token
\* quiet, at the moment it is stored.
LEMMA StoreStep ==
    ASSUME IndInv, NEW r \in Requests, StoreAnswer(r)
    PROVE  IndInv'
<1> DEFINE row == [expires |-> Expires, scope |-> scope]
           x == [req[r] EXCEPT !.phase = IF IsValid(row, req[r].wanted) THEN "served" ELSE "refused",
                               !.decided = now]
<1>1. req[r] \in Request /\ now \in Nat /\ quiet \in Nat /\ exp \in Nat /\ scope \in SUBSET Scopes
  BY DEF IndInv, TypeOK
<1>2. Expires \in Int /\ Expires <= now + Cache
  BY <1>1, ExpiresCapped
<1>3. row \in Row /\ row.expires = Expires
  BY <1>1, <1>2 DEF Row
<1>4. x \in Request /\ x.start = req[r].start /\ x.phase \in {"served", "refused"}
  BY <1>1 DEF Request
<1>5. x.phase = "served" => Cache > 0
  <2>1. x.phase = "served" => IsValid(row, req[r].wanted)
    BY <1>1 DEF Request
  <2> QED
    BY <1>1, <1>2, <1>3, <2>1, ValidHasTime
<1>6. /\ cached' = {row} /\ req' = [req EXCEPT ![r] = x]
      /\ req[r].phase = "answered" /\ quiet' = Quieter(r)
      /\ UNCHANGED <<now, scope, exp, active>>
  BY DEF StoreAnswer, Decide
<1>7. quiet = NULL
  BY <1>6 DEF IndInv, QuietIsQuiet
<1> HIDE DEF x, row
<1>8. req \in [Requests -> Request] /\ \A q \in Requests : req'[q] = IF q = r THEN x ELSE req[q]
  BY <1>6 DEF IndInv, TypeOK
<1>9. \/ quiet' = NULL
      \/ quiet' = now /\ ~active /\ \A q \in Requests \ {r} : req[q].phase # "answered"
  BY <1>6, <1>7 DEF Quieter
<1>10. TypeOK'
  <2>1. req' \in [Requests -> Request]
    BY <1>4, <1>6, <1>8
  <2>2. quiet' \in 0 .. now'
    BY <1>1, <1>6, <1>9 DEF NULL
  <2> QED
    BY <1>3, <1>6, <2>1, <2>2 DEF IndInv, TypeOK
<1>11. RowsAreCapped'
  BY <1>2, <1>3, <1>6 DEF RowsAreCapped
<1>12. QuietIsQuiet'
  BY <1>2, <1>3, <1>4, <1>6, <1>8, <1>9 DEF QuietIsQuiet
<1>13. ServedWasOpen'
  BY <1>4, <1>5, <1>6, <1>8 DEF IndInv, ServedWasOpen
<1>14. RevokedStopsAfterCache'
  <2> SUFFICES ASSUME quiet' # NULL, NEW q \in Requests, req'[q].phase = "served"
               PROVE  req'[q].start < quiet' + Cache
    BY DEF RevokedStopsAfterCache
  <2>1. quiet' = now
    BY <1>9
  <2>2. req'[q].start <= now /\ Cache > 0 /\ req'[q].start \in Nat
    BY <1>4, <1>6, <1>8, <1>13 DEF ServedWasOpen, Request
  <2> QED
    BY <1>1, <2>1, <2>2, CacheAssumption
<1> QED
  BY <1>10, <1>11, <1>12, <1>13, <1>14 DEF IndInv

\* Revocation leaves rows that end within the caching time of it.
LEMMA RevokeStep ==
    ASSUME IndInv, Revoke
    PROVE  IndInv'
<1>1. /\ active /\ ~active' /\ UNCHANGED <<now, scope, exp, cached, req>>
      /\ quiet' = IF \E r \in Requests : req[r].phase = "answered" THEN NULL ELSE now
  BY DEF Revoke
<1>2. now \in Nat /\ req \in [Requests -> Request]
  BY DEF IndInv, TypeOK
<1>3. TypeOK'
  <2>1. active' \in BOOLEAN
    BY DEF Revoke
  <2>2. quiet' \in 0 .. now
    BY <1>1, <1>2 DEF NULL
  <2> QED
    BY <1>1, <2>1, <2>2 DEF IndInv, TypeOK
<1>4. RowsAreCapped' /\ ServedWasOpen'
  BY <1>1 DEF IndInv, RowsAreCapped, ServedWasOpen
<1>5. QuietIsQuiet'
  BY <1>1 DEF IndInv, RowsAreCapped, QuietIsQuiet
<1>6. RevokedStopsAfterCache'
  <2> SUFFICES ASSUME quiet' # NULL, NEW q \in Requests, req'[q].phase = "served"
               PROVE  req'[q].start < quiet' + Cache
    BY DEF RevokedStopsAfterCache
  <2>1. quiet' = now /\ req'[q] = req[q]
    BY <1>1
  <2>2. req[q].start <= now /\ Cache > 0 /\ req[q].start \in Nat
    BY <1>2, <2>1 DEF IndInv, ServedWasOpen, Request
  <2> QED
    BY <1>2, <2>1, <2>2, CacheAssumption
<1> QED
  BY <1>3, <1>4, <1>5, <1>6 DEF IndInv

\* Removing rows disturbs nothing.
LEMMA ClearRowStep ==
    ASSUME IndInv, ClearRow
    PROVE  IndInv'
<1>1. cached' \subseteq cached /\ UNCHANGED <<now, scope, exp, active, req, quiet>>
  BY DEF ClearRow
<1> QED
  BY <1>1 DEF IndInv, TypeOK, RowsAreCapped, QuietIsQuiet, ServedWasOpen, RevokedStopsAfterCache

\* Time only makes the caps looser.
LEMMA TickStep ==
    ASSUME IndInv, Tick
    PROVE  IndInv'
<1>1. now' = now + 1 /\ now < MaxTime /\ UNCHANGED <<scope, exp, active, cached, req, quiet>>
  BY DEF Tick
<1>2. now \in Nat /\ now' \in 1 .. MaxTime
  BY <1>1, CacheAssumption DEF IndInv, TypeOK
<1>3. TypeOK'
  BY <1>1, <1>2 DEF IndInv, TypeOK
<1>4. RowsAreCapped'
  BY <1>1, <1>2, CacheAssumption DEF IndInv, TypeOK, RowsAreCapped, Row
<1>5. ServedWasOpen'
  <2> SUFFICES ASSUME NEW r \in Requests PROVE req[r].start <= now + 1
    BY <1>1 DEF IndInv, ServedWasOpen
  <2> QED
    BY <1>2 DEF IndInv, TypeOK, ServedWasOpen, Request
<1>6. QuietIsQuiet' /\ RevokedStopsAfterCache'
  BY <1>1 DEF IndInv, QuietIsQuiet, RevokedStopsAfterCache
<1> QED
  BY <1>3, <1>4, <1>5, <1>6 DEF IndInv

\* Every action preserves the inductive invariant.
LEMMA NextInv == IndInv /\ [Next]_vars => IndInv'
<1> SUFFICES ASSUME IndInv, [Next]_vars PROVE IndInv'
  OBVIOUS
<1>1. ASSUME NEW r \in Requests, Serve(r) PROVE IndInv'
  BY <1>1, LoadStep, PostFailsStep, IntrospectStep, StoreStep DEF Serve
<1>2. CASE UNCHANGED vars
  BY <1>2 DEF vars, IndInv, TypeOK, RowsAreCapped, QuietIsQuiet, ServedWasOpen,
              RevokedStopsAfterCache
<1> QED
  BY <1>1, <1>2, RevokeStep, ClearRowStep, TickStep DEF Next

-----------------------------------------------------------------------------
\* The inductive invariant holds in every reachable state.
THEOREM Invariance == Spec => []IndInv
BY InitInv, NextInv, PTL DEF Spec

\* Type correctness, with at most one row for the token's string.
THEOREM TypeCorrect == Spec => []TypeOK
<1>1. IndInv => TypeOK
  BY DEF IndInv
<1> QED
  BY <1>1, Invariance, PTL

\* The cache forgets a revocation for no longer than the caching time, whatever the
\* time zone and however long answers are under way.
THEOREM RevocationReaches == Spec => []RevokedStopsAfterCache
<1>1. IndInv => RevokedStopsAfterCache
  BY DEF IndInv
<1> QED
  BY <1>1, Invariance, PTL

-----------------------------------------------------------------------------
\* No row outlives the token, and nobody was let in after it.
EndsInTime ==
    exp # NULL => /\ \A row \in cached : row.expires <= exp
                  /\ \A r \in Requests : req[r].phase = "served" => req[r].decided < exp

\* East of Greenwich, or at it, each step keeps to the token's expiry.
LEMMA EndsInTimeStep ==
    ASSUME Zone >= 0, IndInv, EndsInTime, [Next]_vars
    PROVE  EndsInTime'
<1>1. /\ now \in Nat /\ exp \in Nat /\ cached \subseteq Row /\ req \in [Requests -> Request]
  BY DEF IndInv, TypeOK
<1>2. ASSUME NEW r \in Requests, LoadAccessToken(r) PROVE EndsInTime'
  <2>1. PICK wanted \in SUBSET Scopes :
          req' = [req EXCEPT ![r] = [@ EXCEPT !.wanted = wanted, !.start = now, !.decided = now,
                     !.phase = IF \E row \in cached : IsValid(row, wanted) THEN "served" ELSE "asking"]]
    BY <1>2 DEF LoadAccessToken
  <2>2. req'[r].decided = now
        /\ (req'[r].phase = "served" => \E row \in cached : IsValid(row, wanted))
    BY <1>1, <2>1 DEF Request
  <2>3. ASSUME exp # NULL, req'[r].phase = "served" PROVE req'[r].decided < exp
    BY <1>1, <2>2, <2>3 DEF EndsInTime, IsValid, Row
  <2>4. \A q \in Requests \ {r} : req'[q] = req[q]
    BY <1>1, <2>1
  <2> QED
    BY <1>2, <2>3, <2>4 DEF EndsInTime, LoadAccessToken
<1>3. ASSUME NEW r \in Requests, PostFails(r) \/ Introspect(r) PROVE EndsInTime'
  <2>1. req'[r].phase # "served" /\ \A q \in Requests \ {r} : req'[q] = req[q]
    BY <1>1, <1>3 DEF PostFails, Introspect, Decide, Request
  <2> QED
    BY <1>3, <2>1 DEF EndsInTime, PostFails, Introspect
<1>4. ASSUME NEW r \in Requests, StoreAnswer(r) PROVE EndsInTime'
  <2> DEFINE row == [expires |-> Expires, scope |-> scope]
  <2>1. /\ cached' = {row} /\ UNCHANGED <<now, exp>>
        /\ req' = [req EXCEPT ![r] = [@ EXCEPT !.decided = now,
                      !.phase = IF IsValid(row, req[r].wanted) THEN "served" ELSE "refused"]]
    BY <1>1, <1>4 DEF StoreAnswer, Decide
  <2>2. exp # NULL => Expires <= exp /\ Expires \in Int
    BY <1>1, CacheAssumption DEF Expires
  <2>3. req'[r].decided = now /\ (req'[r].phase = "served" => Expires > now)
    BY <1>1, <2>1 DEF IsValid, Request
  <2>4. \A q \in Requests \ {r} : req'[q] = req[q]
    BY <1>1, <2>1
  <2> QED
    BY <1>1, <2>1, <2>2, <2>3, <2>4 DEF EndsInTime
<1>5. CASE Revoke \/ Tick \/ UNCHANGED vars
  BY <1>5 DEF EndsInTime, Revoke, Tick, vars
<1>6. CASE ClearRow
  BY <1>6 DEF EndsInTime, ClearRow
<1> QED
  BY <1>2, <1>3, <1>4, <1>5, <1>6 DEF Next, Serve

\* Where local time is not behind UTC nobody is let in past the token's expiry.
THEOREM ExpiryRespected ==
    ASSUME Zone >= 0
    PROVE  Spec => []ServedBeforeExpiry
<1>1. Init => EndsInTime
  BY DEF Init, EndsInTime, NewRequest
<1>2. IndInv /\ EndsInTime /\ [Next]_vars => EndsInTime'
  BY EndsInTimeStep
<1>3. EndsInTime => ServedBeforeExpiry
  BY DEF EndsInTime, ServedBeforeExpiry
<1> QED
  BY <1>1, <1>2, <1>3, Invariance, PTL DEF Spec

-----------------------------------------------------------------------------
\* West of Greenwich, or at it, an answer stored in time makes a row that is good for all
\* the authorization server says.
LEMMA StoredInTime ==
    ASSUME Zone <= 0, Cache > 0, now \in Nat, exp \in Nat, exp = NULL \/ now < exp
    PROVE  Expires > now
BY CacheAssumption DEF Expires, NULL

\* A refused request keeps its reason, and a new refusal has one.
LEMMA RefusalStep ==
    ASSUME Zone <= 0, IndInv, RefusedOnlyWithReason, [Next]_vars
    PROVE  RefusedOnlyWithReason'
<1> DEFINE Reason(x) == \/ x.failed
                        \/ ~(x.wanted \subseteq scope)
                        \/ exp # NULL /\ x.decided >= exp
<1>1. /\ now \in Nat /\ exp \in Nat /\ scope \in SUBSET Scopes /\ req \in [Requests -> Request]
  BY DEF IndInv, TypeOK
<1>2. UNCHANGED <<scope, exp>> /\ (active' => active)
  <2>1. UNCHANGED <<scope, exp>>
    BY DEF Next, Serve, LoadAccessToken, PostFails, Introspect, StoreAnswer, Revoke, ClearRow, Tick, vars
  <2>2. UNCHANGED active \/ Revoke
    BY DEF Next, Serve, LoadAccessToken, PostFails, Introspect, StoreAnswer, ClearRow, Tick, vars
  <2>3. active' => active
    BY <2>2, Zenon DEF Revoke
  <2> QED
    BY <2>1, <2>3
<1>3. ASSUME NEW r \in Requests, NEW x, req' = [req EXCEPT ![r] = x],
             Cache > 0 /\ active /\ x.phase = "refused" => Reason(x)
      PROVE  RefusedOnlyWithReason'
  <2>1. \A q \in Requests : req'[q] = IF q = r THEN x ELSE req[q]
    BY <1>1, <1>3
  <2> QED
    BY <1>2, <1>3, <2>1 DEF RefusedOnlyWithReason
<1>4. ASSUME NEW r \in Requests, LoadAccessToken(r) PROVE RefusedOnlyWithReason'
  <2>1. PICK wanted \in SUBSET Scopes, phase \in {"served", "asking"} :
          req' = [req EXCEPT ![r] = [@ EXCEPT !.wanted = wanted, !.start = now, !.decided = now,
                                              !.phase = phase]]
    BY <1>4 DEF LoadAccessToken
  <2>2. PICK x : x = [req[r] EXCEPT !.wanted = wanted, !.start = now, !.decided = now, !.phase = phase]
    OBVIOUS
  <2>3. x.phase # "refused" /\ req' = [req EXCEPT ![r] = x]
    BY <1>1, <2>1, <2>2 DEF Request
  <2> QED
    BY <1>3, <2>3
<1>5. ASSUME NEW r \in Requests, PostFails(r) PROVE RefusedOnlyWithReason'
  <2>1. PICK x : x = [req[r] EXCEPT !.phase = "refused", !.decided = now, !.failed = TRUE]
    OBVIOUS
  <2>2. x.failed /\ req' = [req EXCEPT ![r] = x]
    BY <1>1, <1>5, <2>1 DEF Request, PostFails
  <2> QED
    BY <1>3, <2>2
<1>6. ASSUME NEW r \in Requests, Introspect(r) PROVE RefusedOnlyWithReason'
  <2>1. PICK phase \in {"answered", "refused"} :
          /\ Decide(r, phase)
          /\ phase = "refused" => ~(active /\ (exp = NULL \/ now < exp))
    BY <1>6 DEF Introspect
  <2>2. PICK x : x = [req[r] EXCEPT !.phase = phase, !.decided = now]
    OBVIOUS
  <2>3. x.phase = phase /\ x.decided = now /\ req' = [req EXCEPT ![r] = x]
    BY <1>1, <2>1, <2>2 DEF Request, Decide
  <2>4. active /\ x.phase = "refused" => exp # NULL /\ x.decided >= exp
    BY <1>1, <2>1, <2>3
  <2> QED
    BY <1>3, <2>3, <2>4
<1>7. ASSUME NEW r \in Requests, StoreAnswer(r) PROVE RefusedOnlyWithReason'
  <2> DEFINE row == [expires |-> Expires, scope |-> scope]
  <2>1. PICK phase \in {"served", "refused"} :
          /\ Decide(r, phase)
          /\ phase = "refused" => ~IsValid(row, req[r].wanted)
    BY <1>7 DEF StoreAnswer
  <2>2. PICK x : x = [req[r] EXCEPT !.phase = phase, !.decided = now]
    OBVIOUS
  <2>3. x.phase = phase /\ x.decided = now /\ x.wanted = req[r].wanted /\ req' = [req EXCEPT ![r] = x]
    BY <1>1, <2>1, <2>2 DEF Request, Decide
  <2>4. CASE Cache > 0 /\ (exp = NULL \/ now < exp) /\ x.phase = "refused"
    <3>1. Expires > now
      BY <1>1, <2>4, StoredInTime
    <3>2. ~(x.wanted \subseteq scope)
      BY <2>1, <2>3, <2>4, <3>1 DEF IsValid
    <3> QED
      BY <1>3, <2>3, <3>2
  <2>5. CASE ~(exp = NULL \/ now < exp)
    <3>1. exp # NULL /\ x.decided >= exp
      BY <1>1, <2>3, <2>5
    <3> QED
      BY <1>3, <2>3, <3>1
  <2>6. CASE ~(Cache > 0) \/ x.phase # "refused"
    BY <1>3, <2>3, <2>6
  <2> QED
    BY <2>4, <2>5, <2>6
<1>8. CASE UNCHANGED req
  BY <1>2, <1>8 DEF RefusedOnlyWithReason
<1> QED
  BY <1>4, <1>5, <1>6, <1>7, <1>8 DEF Next, Serve, Revoke, ClearRow, Tick, vars

\* Where local time is not ahead of UTC, a request whose token is good for all it wants is
\* refused only if the authorization server could not be asked.
THEOREM RefusalHasReason ==
    ASSUME Zone <= 0
    PROVE  Spec => []RefusedOnlyWithReason
<1>1. Init => RefusedOnlyWithReason
  BY DEF Init, RefusedOnlyWithReason, NewRequest
<1>2. IndInv /\ RefusedOnlyWithReason /\ [Next]_vars => RefusedOnlyWithReason'
  BY RefusalStep
<1> QED
  BY <1>1, <1>2, Invariance, PTL DEF Spec

=============================================================================
