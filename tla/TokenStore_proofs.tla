---------------------------- MODULE TokenStore_proofs ----------------------------
(***************************************************************************)
(* What the row operations of TokenStore preserve: the types of the rows   *)
(* and the relations between the two tables that every component relies    *)
(* on.                                                                     *)
(***************************************************************************)
EXTENDS TokenStore, TLAPS

\* What a transaction that creates, reissues or deletes one row leaves behind.
AccessCreated(S, C, source) ==
    /\ C.rt = S.rt /\ C.rtSeq = S.rtSeq /\ C.atSeq = S.atSeq + 1 /\ C.strings = S.strings + 1
    /\ DOMAIN C.at = DOMAIN S.at \cup {C.atSeq} /\ C.atSeq \notin DOMAIN S.at
    /\ C.at[C.atSeq].source = source /\ \A a \in DOMAIN S.at : C.at[a] = S.at[a]

RefreshCreated(S, C, token, access) ==
    /\ C.at = S.at /\ C.atSeq = S.atSeq /\ C.rtSeq = S.rtSeq + 1 /\ C.strings = S.strings
    /\ DOMAIN C.rt = DOMAIN S.rt \cup {C.rtSeq} /\ C.rtSeq \notin DOMAIN S.rt
    /\ C.rt[C.rtSeq] = [token |-> token, access |-> access, revoked |-> NULL]
    /\ \A t \in DOMAIN S.rt : C.rt[t] = S.rt[t]

AccessUpdated(S, C, a, scope) ==
    /\ C.rt = S.rt /\ C.rtSeq = S.rtSeq /\ C.atSeq = S.atSeq /\ C.strings = S.strings + 1
    /\ DOMAIN C.at = DOMAIN S.at /\ C.at[a].scope = scope
    /\ \A b \in DOMAIN S.at : C.at[b].source = S.at[b].source
    /\ \A b \in DOMAIN S.at \ {a} : C.at[b] = S.at[b]

AccessDeleted(S, D, A) ==
    /\ D.atSeq = S.atSeq /\ D.rtSeq = S.rtSeq /\ D.strings = S.strings
    /\ D.at = [a \in DOMAIN S.at \ A |-> S.at[a]]
    /\ D.rt = [t \in DOMAIN S.rt |-> IF S.rt[t].access \in A
                                     THEN [S.rt[t] EXCEPT !.access = NULL] ELSE S.rt[t]]

\* The empty tables satisfy everything.
LEMMA EmptyStoreWellFormed == WellFormed(EmptyStore)
BY DEF WellFormed, EmptyStore, IsStore, ForeignKeys, UniqueSource, RevokedUnbound

\* What DeleteAccess leaves in each table: the rows that stay keep their data, and
\* refresh tokens bound to a deleted row keep all but that key.
LEMMA DeleteAccessFields ==
    ASSUME NEW S, IsStore(S), NEW A, NEW D, D = DeleteAccess(S, A)
    PROVE  /\ D = [at |-> D.at, rt |-> D.rt, atSeq |-> D.atSeq, rtSeq |-> D.rtSeq, strings |-> D.strings]
           /\ AccessDeleted(S, D, A)
<1>1. D = [at |-> D.at, rt |-> D.rt, atSeq |-> D.atSeq, rtSeq |-> D.rtSeq, strings |-> D.strings]
  BY DEF DeleteAccess, IsStore
<1>2. D.atSeq = S.atSeq /\ D.rtSeq = S.rtSeq /\ D.strings = S.strings
  BY DEF DeleteAccess, IsStore
<1>3. D.at = [a \in DOMAIN S.at \ A |-> S.at[a]]
  BY DEF DeleteAccess, IsStore, Restrict
<1>4. D.rt = [t \in DOMAIN S.rt |-> IF S.rt[t].access \in A
                                   THEN [S.rt[t] EXCEPT !.access = NULL] ELSE S.rt[t]]
  BY DEF DeleteAccess, IsStore
<1> QED
  BY <1>1, <1>2, <1>3, <1>4 DEF AccessDeleted

\* Deleting access tokens (delete() with SET_NULL on RefreshToken.access_token)
\* keeps the tables well formed.
LEMMA DeleteAccessWellFormed ==
    ASSUME NEW S, WellFormed(S), NEW A, NEW D, D = DeleteAccess(S, A)
    PROVE  WellFormed(D)
<1>0. IsStore(S)
  BY DEF WellFormed
<1>1. /\ D = [at |-> D.at, rt |-> D.rt, atSeq |-> D.atSeq, rtSeq |-> D.rtSeq, strings |-> D.strings]
      /\ D.atSeq = S.atSeq /\ D.rtSeq = S.rtSeq /\ D.strings = S.strings
      /\ D.at = [a \in DOMAIN S.at \ A |-> S.at[a]]
      /\ D.rt = [t \in DOMAIN S.rt |-> IF S.rt[t].access \in A
                                       THEN [S.rt[t] EXCEPT !.access = NULL] ELSE S.rt[t]]
  <2>1. /\ D = [at |-> D.at, rt |-> D.rt, atSeq |-> D.atSeq, rtSeq |-> D.rtSeq, strings |-> D.strings]
        /\ AccessDeleted(S, D, A)
    BY <1>0, DeleteAccessFields
  <2> QED
    BY <2>1 DEF AccessDeleted
<1>2. \A t \in DOMAIN S.rt : /\ D.rt[t] \in RefreshRow
                             /\ D.rt[t].revoked = S.rt[t].revoked
                             /\ D.rt[t].access = IF S.rt[t].access \in A THEN NULL ELSE S.rt[t].access
  BY <1>0, <1>1 DEF IsStore, RefreshRow, NULL
<1>3. IsStore(D)
  BY <1>0, <1>1, <1>2 DEF IsStore
<1>4. ForeignKeys(D)
  BY <1>1, <1>2 DEF WellFormed, ForeignKeys
<1>5. UniqueSource(D)
  BY <1>1 DEF WellFormed, UniqueSource
<1>6. RevokedUnbound(D)
  BY <1>1, <1>2 DEF WellFormed, RevokedUnbound
<1> QED
  BY <1>3, <1>4, <1>5, <1>6 DEF WellFormed

\* Deleting refresh tokens (SET_NULL on AccessToken.source_refresh_token) does too.
LEMMA DeleteRefreshWellFormed ==
    ASSUME NEW S, WellFormed(S), NEW T, NEW D, D = DeleteRefresh(S, T)
    PROVE  WellFormed(D)
<1>0. IsStore(S)
  BY DEF WellFormed
<1>1. D = [at |-> D.at, rt |-> D.rt, atSeq |-> D.atSeq, rtSeq |-> D.rtSeq, strings |-> D.strings]
  BY <1>0 DEF DeleteRefresh, IsStore
<1>2. D.atSeq = S.atSeq /\ D.rtSeq = S.rtSeq /\ D.strings = S.strings
  BY <1>0 DEF DeleteRefresh, IsStore
<1>3. D.rt = [t \in DOMAIN S.rt \ T |-> S.rt[t]]
  BY <1>0 DEF DeleteRefresh, IsStore, Restrict
<1>4. D.at = [a \in DOMAIN S.at |-> IF S.at[a].source \in T
                                   THEN [S.at[a] EXCEPT !.source = NULL] ELSE S.at[a]]
  BY <1>0 DEF DeleteRefresh, IsStore
<1>5. \A a \in DOMAIN S.at : /\ D.at[a] \in AccessRow
                             /\ D.at[a].source = IF S.at[a].source \in T THEN NULL ELSE S.at[a].source
  BY <1>0, <1>4 DEF IsStore, AccessRow, NULL
<1>6. IsStore(D)
  BY <1>0, <1>1, <1>2, <1>3, <1>4, <1>5 DEF IsStore
<1>7. ForeignKeys(D)
  BY <1>3, <1>4, <1>5 DEF WellFormed, ForeignKeys
<1>8. UniqueSource(D)
  BY <1>4, <1>5 DEF WellFormed, UniqueSource
<1>9. RevokedUnbound(D)
  BY <1>3 DEF WellFormed, RevokedUnbound
<1> QED
  BY <1>6, <1>7, <1>8, <1>9 DEF WellFormed

\* RefreshToken.revoke keeps the tables well formed, whatever rows it is applied to.
LEMMA RevokeRefreshFields ==
    ASSUME NEW S, WellFormed(S), NEW T, NEW when \in Nat, NEW R, R = RevokeRefresh(S, T, when)
    PROVE  /\ R = [at |-> R.at, rt |-> R.rt, atSeq |-> R.atSeq, rtSeq |-> R.rtSeq, strings |-> R.strings]
           /\ R.atSeq = S.atSeq /\ R.rtSeq = S.rtSeq /\ R.strings = S.strings
           /\ DOMAIN R.at \subseteq DOMAIN S.at /\ DOMAIN R.rt = DOMAIN S.rt
           /\ \A a \in DOMAIN R.at : R.at[a] = S.at[a]
           /\ \A t \in T \cap DOMAIN S.rt :
                 when # NULL => R.rt[t].revoked # NULL /\ R.rt[t].access = NULL
           /\ \A t \in DOMAIN S.rt : S.rt[t].revoked # NULL => R.rt[t].revoked = S.rt[t].revoked
           /\ \A t \in DOMAIN S.rt : R.rt[t].token = S.rt[t].token
           /\ \A t \in DOMAIN S.rt : R.rt[t].access \in {NULL, S.rt[t].access}
           /\ WellFormed(R)
<1> DEFINE rows == {t \in T \cap DOMAIN S.rt : S.rt[t].revoked = NULL}
           A    == {S.rt[t].access : t \in rows} \ {NULL}
<1>0. IsStore(S)
  BY DEF WellFormed
<1>1. PICK D : D = DeleteAccess(S, A)
  OBVIOUS
<1>4. R = [D EXCEPT !.rt = [t \in DOMAIN D.rt |->
             IF t \in rows THEN [token |-> D.rt[t].token, access |-> NULL, revoked |-> when]
                          ELSE D.rt[t]]]
  BY <1>1 DEF RevokeRefresh, StampAndUnbind
<1>14. \A t \in T \cap DOMAIN S.rt : t \notin rows => S.rt[t].revoked # NULL
  OBVIOUS
<1>15. \A t \in rows : S.rt[t].revoked = NULL
  OBVIOUS
<1> HIDE DEF rows, A
<1>21. D = [at |-> D.at, rt |-> D.rt, atSeq |-> D.atSeq, rtSeq |-> D.rtSeq, strings |-> D.strings]
       /\ AccessDeleted(S, D, A)
  BY <1>0, <1>1, DeleteAccessFields
<1>2. /\ D = [at |-> D.at, rt |-> D.rt, atSeq |-> D.atSeq, rtSeq |-> D.rtSeq, strings |-> D.strings]
      /\ D.atSeq = S.atSeq /\ D.rtSeq = S.rtSeq /\ D.strings = S.strings
      /\ D.at = [a \in DOMAIN S.at \ A |-> S.at[a]]
      /\ D.rt = [t \in DOMAIN S.rt |-> IF S.rt[t].access \in A
                                       THEN [S.rt[t] EXCEPT !.access = NULL] ELSE S.rt[t]]
  BY <1>21 DEF AccessDeleted
<1>3. WellFormed(D)
  BY <1>1, DeleteAccessWellFormed
<1>5. R = [at |-> R.at, rt |-> R.rt, atSeq |-> R.atSeq, rtSeq |-> R.rtSeq, strings |-> R.strings]
  BY <1>2, <1>4
<1>6. R.at = D.at /\ R.atSeq = S.atSeq /\ R.rtSeq = S.rtSeq /\ R.strings = S.strings
  BY <1>2, <1>4
<1>7. R.rt = [t \in DOMAIN S.rt |->
                IF t \in rows THEN [token |-> D.rt[t].token, access |-> NULL, revoked |-> when]
                             ELSE D.rt[t]]
  BY <1>2, <1>4
<1>8. \A t \in DOMAIN S.rt : /\ D.rt[t] \in RefreshRow /\ D.rt[t].token = S.rt[t].token
                             /\ D.rt[t].revoked = S.rt[t].revoked
                             /\ D.rt[t].access \in {NULL, S.rt[t].access}
  BY <1>0, <1>2 DEF IsStore, RefreshRow, NULL
<1>9. \A t \in DOMAIN S.rt :
         /\ R.rt[t] \in RefreshRow /\ R.rt[t].token = S.rt[t].token
         /\ t \in rows => R.rt[t].revoked = when /\ R.rt[t].access = NULL
         /\ t \notin rows => R.rt[t].revoked = S.rt[t].revoked /\ R.rt[t].access = D.rt[t].access
  <2> SUFFICES ASSUME NEW t \in DOMAIN S.rt
               PROVE  /\ R.rt[t] \in RefreshRow /\ R.rt[t].token = S.rt[t].token
                      /\ t \in rows => R.rt[t].revoked = when /\ R.rt[t].access = NULL
                      /\ t \notin rows => /\ R.rt[t].revoked = S.rt[t].revoked
                                         /\ R.rt[t].access = D.rt[t].access
    OBVIOUS
  <2>1. CASE t \in rows
    <3>1. R.rt[t] = [token |-> D.rt[t].token, access |-> NULL, revoked |-> when]
      BY <1>7, <2>1
    <3>2. D.rt[t].token \in Nat /\ D.rt[t].token = S.rt[t].token
      BY <1>8 DEF RefreshRow
    <3> QED
      BY <2>1, <3>1, <3>2 DEF RefreshRow, NULL
  <2>2. CASE t \notin rows
    <3>1. R.rt[t] = D.rt[t]
      BY <1>7, <2>2
    <3> QED
      BY <1>8, <2>2, <3>1
  <2> QED
    BY <2>1, <2>2
<1>10. IsStore(R)
  BY <1>0, <1>2, <1>3, <1>5, <1>6, <1>7, <1>9 DEF WellFormed, IsStore
<1>11. ForeignKeys(R)
  BY <1>2, <1>3, <1>6, <1>7, <1>9 DEF WellFormed, ForeignKeys
<1>12. UniqueSource(R)
  BY <1>3, <1>6 DEF WellFormed, UniqueSource
<1>13. RevokedUnbound(R)
  <2>1. DOMAIN R.rt = DOMAIN S.rt
    BY <1>7
  <2>2. \A t \in DOMAIN S.rt : S.rt[t].revoked # NULL => S.rt[t].access = NULL
    BY DEF WellFormed, RevokedUnbound
  <2> QED
    BY <1>8, <1>9, <2>1, <2>2 DEF RevokedUnbound
<1>16. \A t \in T \cap DOMAIN S.rt :
         when # NULL => R.rt[t].revoked # NULL /\ R.rt[t].access = NULL
  BY <1>7, <1>9, <1>13, <1>14 DEF RevokedUnbound
<1>17. \A t \in DOMAIN S.rt : S.rt[t].revoked # NULL => R.rt[t].revoked = S.rt[t].revoked
  BY <1>9, <1>15
<1>18. \A t \in DOMAIN S.rt : R.rt[t].token = S.rt[t].token /\ R.rt[t].access \in {NULL, S.rt[t].access}
  BY <1>8, <1>9
<1>19. /\ DOMAIN R.at \subseteq DOMAIN S.at /\ DOMAIN R.rt = DOMAIN S.rt
       /\ \A a \in DOMAIN R.at : R.at[a] = S.at[a]
  <2>1. DOMAIN R.at \subseteq DOMAIN S.at /\ \A a \in DOMAIN R.at : R.at[a] = S.at[a]
    BY <1>2, <1>6
  <2>2. DOMAIN R.rt = DOMAIN S.rt
    BY <1>7
  <2> QED
    BY <2>1, <2>2
<1>20. WellFormed(R)
  BY <1>10, <1>11, <1>12, <1>13 DEF WellFormed
<1> QED
  BY <1>5, <1>6, <1>16, <1>17, <1>18, <1>19, <1>20

\* A new access token may name a source refresh token that no live one names yet.
LEMMA CreateAccessWellFormed ==
    ASSUME NEW S, WellFormed(S), NEW scope \in SUBSET Scopes, NEW expires \in Nat,
           NEW source \in Nat, source \in DOMAIN S.rt \cup {NULL},
           source # NULL => \A a \in DOMAIN S.at : S.at[a].source # source,
           NEW C, C = CreateAccess(S, scope, expires, source)
    PROVE  WellFormed(C) /\ AccessCreated(S, C, source)
<1> DEFINE new == S.atSeq + 1
           row == [token |-> S.strings + 1, scope |-> scope, expires |-> expires, source |-> source]
<1>0. IsStore(S)
  BY DEF WellFormed
<1>1. /\ C = [at |-> C.at, rt |-> C.rt, atSeq |-> C.atSeq, rtSeq |-> C.rtSeq, strings |-> C.strings]
      /\ C.rt = S.rt /\ C.rtSeq = S.rtSeq /\ C.atSeq = new /\ C.strings = S.strings + 1
  BY <1>0 DEF CreateAccess, IsStore
<1>2. C.at = [a \in DOMAIN S.at \cup {new} |-> IF a = new THEN row ELSE S.at[a]]
  BY <1>0 DEF CreateAccess, IsStore, Insert
<1>3. new \in 1 .. new /\ new \notin DOMAIN S.at /\ DOMAIN S.at \subseteq 1 .. new
  BY <1>0 DEF IsStore
<1>4. row \in AccessRow /\ row.source = source
  BY <1>0 DEF IsStore, AccessRow
<1> HIDE DEF row
<1>5. IsStore(C)
  BY <1>0, <1>1, <1>2, <1>3, <1>4 DEF IsStore
<1>6. ForeignKeys(C)
  BY <1>1, <1>2, <1>4 DEF WellFormed, ForeignKeys
<1>7. UniqueSource(C)
  BY <1>2, <1>3, <1>4 DEF WellFormed, UniqueSource
<1>8. RevokedUnbound(C)
  BY <1>1 DEF WellFormed, RevokedUnbound
<1> QED
  BY <1>1, <1>2, <1>3, <1>4, <1>5, <1>6, <1>7, <1>8 DEF WellFormed, AccessCreated

\* A new refresh token is unrevoked and bound to a live access token.
LEMMA CreateRefreshWellFormed ==
    ASSUME NEW S, WellFormed(S), NEW token \in Nat, NEW access \in Nat, access \in DOMAIN S.at,
           NEW C, C = CreateRefresh(S, token, access)
    PROVE  WellFormed(C) /\ RefreshCreated(S, C, token, access)
<1> DEFINE new == S.rtSeq + 1
           row == [token |-> token, access |-> access, revoked |-> NULL]
<1>0. IsStore(S)
  BY DEF WellFormed
<1>1. /\ C = [at |-> C.at, rt |-> C.rt, atSeq |-> C.atSeq, rtSeq |-> C.rtSeq, strings |-> C.strings]
      /\ C.at = S.at /\ C.atSeq = S.atSeq /\ C.rtSeq = new /\ C.strings = S.strings
  BY <1>0 DEF CreateRefresh, IsStore
<1>2. C.rt = [t \in DOMAIN S.rt \cup {new} |-> IF t = new THEN row ELSE S.rt[t]]
  BY <1>0 DEF CreateRefresh, IsStore, Insert
<1>3. new \in 1 .. new /\ new \notin DOMAIN S.rt /\ DOMAIN S.rt \subseteq 1 .. new
  BY <1>0 DEF IsStore
<1>4. row \in RefreshRow /\ row.access = access /\ row.revoked = NULL
  BY DEF RefreshRow, NULL
<1>5. C.rt[new] = row
  BY <1>2
<1> HIDE DEF row
<1>6. IsStore(C)
  BY <1>0, <1>1, <1>2, <1>3, <1>4 DEF IsStore
<1>7. ForeignKeys(C)
  BY <1>1, <1>2, <1>4 DEF WellFormed, ForeignKeys
<1>8. UniqueSource(C)
  BY <1>1 DEF WellFormed, UniqueSource
<1>9. RevokedUnbound(C)
  BY <1>2, <1>4 DEF WellFormed, RevokedUnbound
<1>10. WellFormed(C)
  BY <1>6, <1>7, <1>8, <1>9 DEF WellFormed
<1> QED
  BY <1>1, <1>2, <1>3, <1>5, <1>10 DEF row, RefreshCreated

\* Reissuing an access token in place leaves every key where it was.
LEMMA UpdateAccessWellFormed ==
    ASSUME NEW S, WellFormed(S), NEW a \in DOMAIN S.at, NEW scope \in SUBSET Scopes, NEW expires \in Nat,
           NEW C, C = UpdateAccess(S, a, scope, expires)
    PROVE  WellFormed(C) /\ AccessUpdated(S, C, a, scope)
<1> DEFINE row == [token |-> S.strings + 1, scope |-> scope, expires |-> expires,
                   source |-> S.at[a].source]
<1>0. IsStore(S)
  BY DEF WellFormed
<1>1. C = [at |-> C.at, rt |-> C.rt, atSeq |-> C.atSeq, rtSeq |-> C.rtSeq, strings |-> C.strings]
  BY <1>0 DEF UpdateAccess, IsStore
<1>2. C.rt = S.rt /\ C.rtSeq = S.rtSeq /\ C.atSeq = S.atSeq /\ C.strings = S.strings + 1
  BY <1>0 DEF UpdateAccess, IsStore
<1>3. C.at = [S.at EXCEPT ![a] = row]
  BY <1>0 DEF UpdateAccess, IsStore
<1>4. row \in AccessRow /\ row.source = S.at[a].source /\ row.scope = scope
  BY <1>0 DEF IsStore, AccessRow
<1> HIDE DEF row
<1>5. DOMAIN C.at = DOMAIN S.at /\ \A b \in DOMAIN S.at : C.at[b] = IF b = a THEN row ELSE S.at[b]
  BY <1>0, <1>3 DEF IsStore
<1>6. IsStore(C)
  BY <1>0, <1>1, <1>2, <1>3, <1>4 DEF IsStore
<1>7. ForeignKeys(C)
  BY <1>2, <1>4, <1>5 DEF WellFormed, ForeignKeys
<1>8. UniqueSource(C)
  BY <1>4, <1>5 DEF WellFormed, UniqueSource
<1>9. RevokedUnbound(C)
  BY <1>2 DEF WellFormed, RevokedUnbound
<1> QED
  BY <1>2, <1>4, <1>5, <1>6, <1>7, <1>8, <1>9 DEF WellFormed, AccessUpdated
-----------------------------------------------------------------------------
\* Deleting and revoking only take away: rows of the access-token table, bindings to
\* them, and the right of a refresh token to be used.
Shrinks(S, D) ==
    /\ D.atSeq = S.atSeq /\ D.rtSeq = S.rtSeq /\ D.strings = S.strings
    /\ DOMAIN D.at \subseteq DOMAIN S.at /\ \A a \in DOMAIN D.at : D.at[a] = S.at[a]
    /\ DOMAIN D.rt = DOMAIN S.rt
    /\ \A t \in DOMAIN S.rt :
          /\ D.rt[t].token = S.rt[t].token
          /\ D.rt[t].access = IF S.rt[t].access \in DOMAIN D.at THEN S.rt[t].access ELSE NULL
          /\ S.rt[t].revoked # NULL => D.rt[t].revoked = S.rt[t].revoked

\* AbstractAccessToken.revoke is a delete: what it leaves of the two tables.
LEMMA DeleteAccessShrinks ==
    ASSUME NEW S, WellFormed(S), NEW A, NEW D, D = DeleteAccess(S, A)
    PROVE  Shrinks(S, D)
<1>0. IsStore(S) /\ ForeignKeys(S)
  BY DEF WellFormed
<1>1. AccessDeleted(S, D, A)
  BY <1>0, DeleteAccessFields
<1>2. \A t \in DOMAIN S.rt : S.rt[t] \in RefreshRow /\ S.rt[t].access \in DOMAIN S.at \cup {NULL}
  BY <1>0 DEF IsStore, ForeignKeys
<1>3. NULL \notin DOMAIN S.at
  BY <1>0 DEF IsStore, NULL
<1>4. DOMAIN D.at = DOMAIN S.at \ A
  BY <1>1 DEF AccessDeleted
<1>5. ASSUME NEW t \in DOMAIN S.rt
      PROVE  /\ D.rt[t].token = S.rt[t].token /\ D.rt[t].revoked = S.rt[t].revoked
             /\ D.rt[t].access = IF S.rt[t].access \in DOMAIN D.at THEN S.rt[t].access ELSE NULL
  <2>1. D.rt[t] = IF S.rt[t].access \in A THEN [S.rt[t] EXCEPT !.access = NULL] ELSE S.rt[t]
    BY <1>1 DEF AccessDeleted
  <2> QED
    BY <1>2, <1>3, <1>4, <2>1 DEF RefreshRow
<1> QED
  BY <1>1, <1>5 DEF AccessDeleted, Shrinks

RefreshSpent(S, R, unspent, when) ==
    /\ R.at = [a \in DOMAIN S.at \ {S.rt[t].access : t \in unspent} |-> S.at[a]]
    /\ R.rt = [t \in DOMAIN S.rt |->
                 IF t \in unspent
                 THEN [token |-> S.rt[t].token, access |-> NULL, revoked |-> when]
                 ELSE S.rt[t]]
    /\ R.atSeq = S.atSeq /\ R.rtSeq = S.rtSeq /\ R.strings = S.strings

\* What RefreshToken.revoke leaves when no two refresh tokens share an access token: it
\* spends exactly the unrevoked ones among its rows and deletes exactly what they held.
LEMMA RevokeRefreshExact ==
    ASSUME NEW S, WellFormed(S), UniqueBinding(S), NEW T, NEW when, NEW unspent,
           unspent = {t \in T \cap DOMAIN S.rt : S.rt[t].revoked = NULL},
           NEW R, R = RevokeRefresh(S, T, when)
    PROVE  RefreshSpent(S, R, unspent, when)
<1> DEFINE A == {S.rt[t].access : t \in unspent} \ {NULL}
<1>0. IsStore(S)
  BY DEF WellFormed
<1>1. PICK D : D = DeleteAccess(S, A)
  OBVIOUS
<1>2. R = [D EXCEPT !.rt = [t \in DOMAIN D.rt |->
             IF t \in unspent THEN [token |-> D.rt[t].token, access |-> NULL, revoked |-> when]
                              ELSE D.rt[t]]]
  BY <1>1 DEF RevokeRefresh, StampAndUnbind
<1>3. /\ unspent \subseteq DOMAIN S.rt
      /\ NULL \notin DOMAIN S.at
  BY <1>0 DEF IsStore, NULL
<1>4. \A t \in DOMAIN S.rt : S.rt[t].access \in A => t \in unspent
  BY <1>3 DEF UniqueBinding
<1>5. DOMAIN S.at \ A = DOMAIN S.at \ {S.rt[t].access : t \in unspent}
  BY <1>3
<1> HIDE DEF A
<1>6. D = [at |-> D.at, rt |-> D.rt, atSeq |-> D.atSeq, rtSeq |-> D.rtSeq, strings |-> D.strings]
      /\ AccessDeleted(S, D, A)
  BY <1>0, <1>1, DeleteAccessFields
<1>7. /\ R.at = D.at /\ R.atSeq = D.atSeq /\ R.rtSeq = D.rtSeq /\ R.strings = D.strings
      /\ R.rt = [t \in DOMAIN D.rt |->
             IF t \in unspent THEN [token |-> D.rt[t].token, access |-> NULL, revoked |-> when]
                              ELSE D.rt[t]]
  BY <1>2, <1>6
<1>8. DOMAIN D.rt = DOMAIN S.rt
  BY <1>6 DEF AccessDeleted
<1>9. \A t \in DOMAIN S.rt : S.rt[t] \in RefreshRow
  BY <1>0 DEF IsStore
<1>10. \A t \in DOMAIN S.rt : D.rt[t].token = S.rt[t].token /\ (t \notin unspent => D.rt[t] = S.rt[t])
  BY <1>4, <1>6, <1>9 DEF AccessDeleted, RefreshRow
<1>11. R.rt = [t \in DOMAIN S.rt |->
                IF t \in unspent
                THEN [token |-> S.rt[t].token, access |-> NULL, revoked |-> when] ELSE S.rt[t]]
  BY <1>7, <1>8, <1>10
<1> QED
  BY <1>5, <1>6, <1>7, <1>11 DEF AccessDeleted, RefreshSpent

\* RefreshToken.revoke only takes away, too.
LEMMA RevokeRefreshShrinks ==
    ASSUME NEW S, WellFormed(S), UniqueBinding(S), NEW T, NEW when \in Nat,
           NEW R, R = RevokeRefresh(S, T, when)
    PROVE  Shrinks(S, R)
<1>1. PICK unspent : unspent = {t \in T \cap DOMAIN S.rt : S.rt[t].revoked = NULL}
  OBVIOUS
<1>2. /\ R.at = [a \in DOMAIN S.at \ {S.rt[t].access : t \in unspent} |-> S.at[a]]
      /\ R.rt = [t \in DOMAIN S.rt |->
                   IF t \in unspent
                   THEN [token |-> S.rt[t].token, access |-> NULL, revoked |-> when]
                   ELSE S.rt[t]]
      /\ R.atSeq = S.atSeq /\ R.rtSeq = S.rtSeq /\ R.strings = S.strings
  <2>1. RefreshSpent(S, R, unspent, when)
    BY <1>1, RevokeRefreshExact
  <2> QED
    BY <2>1 DEF RefreshSpent
<1>3. NULL \notin DOMAIN S.at /\ \A t \in DOMAIN S.rt : S.rt[t].access \in DOMAIN S.at \cup {NULL}
  BY DEF WellFormed, IsStore, ForeignKeys, NULL
<1>4. unspent \subseteq DOMAIN S.rt /\ \A t \in unspent : S.rt[t].revoked = NULL
  BY <1>1
<1>5. DOMAIN R.at = DOMAIN S.at \ {S.rt[t].access : t \in unspent} /\ DOMAIN R.rt = DOMAIN S.rt
  BY <1>2
<1>6. ASSUME NEW t \in DOMAIN S.rt
      PROVE  /\ R.rt[t].token = S.rt[t].token
             /\ R.rt[t].access = IF S.rt[t].access \in DOMAIN R.at THEN S.rt[t].access ELSE NULL
             /\ S.rt[t].revoked # NULL => R.rt[t].revoked = S.rt[t].revoked
  <2>1. CASE t \in unspent
    <3>1. R.rt[t] = [token |-> S.rt[t].token, access |-> NULL, revoked |-> when]
      BY <1>2, <2>1
    <3> QED
      BY <1>4, <1>5, <2>1, <3>1
  <2>2. CASE t \notin unspent
    <3>1. R.rt[t] = S.rt[t]
      BY <1>2, <2>2
    <3>2. S.rt[t].access # NULL => \A u \in unspent : S.rt[u].access # S.rt[t].access
      BY <1>4, <2>2 DEF UniqueBinding
    <3> QED
      BY <1>3, <1>5, <3>1, <3>2
  <2> QED
    BY <2>1, <2>2
<1> QED
  BY <1>2, <1>5, <1>6 DEF Shrinks

\* The row AccessToken.objects.create leaves under the new key.
LEMMA CreateAccessRow ==
    ASSUME NEW S, IsStore(S), NEW scope, NEW expires, NEW source,
           NEW C, C = CreateAccess(S, scope, expires, source)
    PROVE  C.at[C.atSeq] = [token |-> C.strings, scope |-> scope, expires |-> expires, source |-> source]
BY DEF CreateAccess, IsStore, Insert

\* The row the reissuing save leaves under the old key.
LEMMA UpdateAccessRow ==
    ASSUME NEW S, IsStore(S), NEW a \in DOMAIN S.at, NEW scope, NEW expires,
           NEW C, C = UpdateAccess(S, a, scope, expires)
    PROVE  /\ C.at = [S.at EXCEPT ![a] = [token |-> C.strings, scope |-> scope, expires |-> expires,
                                         source |-> S.at[a].source]]
BY DEF UpdateAccess, IsStore
=============================================================================
