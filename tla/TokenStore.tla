------------------------------- MODULE TokenStore -------------------------------
(***************************************************************************)
(* The access-token and refresh-token tables of django-oauth-toolkit and   *)
(* the row operations of models.py that every other component is built     *)
(* from.  A table is a function from the primary keys of its rows to the   *)
(* rows; a store holds both tables and the sequences keys are drawn from.  *)
(* The operations map a store to the store one committed transaction       *)
(* leaves behind.                                                          *)
(*                                                                         *)
(* NULL stands for SQL NULL in foreign keys and timestamps: primary keys   *)
(* and the clock start at 1.                                               *)
(***************************************************************************)
EXTENDS Naturals, FiniteSets, Functions

CONSTANT Scopes        \* the names a scope string may contain

NULL == 0

\* A token string is a number: random strings are abstracted to "never drawn
\* before".  The string of a new refresh token is the key of its row.
AccessRow  == [token : Nat, scope : SUBSET Scopes, expires : Nat, source : Nat]
RefreshRow == [token : Nat, access : Nat, revoked : Nat]

EmptyStore == [at |-> [a \in {} |-> NULL], rt |-> [t \in {} |-> NULL],
               atSeq |-> 0, rtSeq |-> 0, strings |-> 0]

IsStore(S) ==
    /\ S = [at |-> S.at, rt |-> S.rt,
            atSeq |-> S.atSeq, rtSeq |-> S.rtSeq, strings |-> S.strings]
    /\ S.atSeq \in Nat /\ S.rtSeq \in Nat /\ S.strings \in Nat
    /\ S.at \in [DOMAIN S.at -> AccessRow]  /\ DOMAIN S.at \subseteq 1 .. S.atSeq
    /\ S.rt \in [DOMAIN S.rt -> RefreshRow] /\ DOMAIN S.rt \subseteq 1 .. S.rtSeq

Insert(T, k, row) == [x \in DOMAIN T \cup {k} |-> IF x = k THEN row ELSE T[x]]

-----------------------------------------------------------------------------
(***************************************************************************)
(* Deleting rows.  Both foreign keys are on_delete=SET_NULL.               *)
(***************************************************************************)
DeleteAccess(S, A) ==
    [S EXCEPT !.at = Restrict(S.at, DOMAIN S.at \ A),
              !.rt = [t \in DOMAIN S.rt |->
                        IF S.rt[t].access \in A
                        THEN [S.rt[t] EXCEPT !.access = NULL] ELSE S.rt[t]]]

DeleteRefresh(S, T) ==
    [S EXCEPT !.rt = Restrict(S.rt, DOMAIN S.rt \ T),
              !.at = [a \in DOMAIN S.at |->
                        IF S.at[a].source \in T
                        THEN [S.at[a] EXCEPT !.source = NULL] ELSE S.at[a]]]

(***************************************************************************)
(* RefreshToken.revoke on every row of T: rows already revoked are left    *)
(* alone, the others lose their access token and are stamped.              *)
(***************************************************************************)
StampAndUnbind(S, rows, when) ==
    LET D == DeleteAccess(S, {S.rt[t].access : t \in rows} \ {NULL})
    IN  [D EXCEPT !.rt = [t \in DOMAIN D.rt |->
                            IF t \in rows
                            THEN [token |-> D.rt[t].token, access |-> NULL, revoked |-> when]
                            ELSE D.rt[t]]]

RevokeEveryTime(S, T, when) ==         \* mutant: no revoked__isnull=True in the query
    StampAndUnbind(S, T \cap DOMAIN S.rt, when)

RevokeOnlyStamps(S, T, when) ==        \* mutant: the access token is not revoked
    [S EXCEPT !.rt = [t \in DOMAIN S.rt |->
                        IF t \in T /\ S.rt[t].revoked = NULL
                        THEN [S.rt[t] EXCEPT !.revoked = when] ELSE S.rt[t]]]

RevokeRefresh(S, T, when) ==
    StampAndUnbind(S, {t \in T \cap DOMAIN S.rt : S.rt[t].revoked = NULL}, when)

-----------------------------------------------------------------------------
(***************************************************************************)
(* Creating and updating rows.                                             *)
(***************************************************************************)
CreateAccess(S, scope, expires, source) ==
    [S EXCEPT !.at = Insert(S.at, S.atSeq + 1, [token |-> S.strings + 1, scope |-> scope,
                                                expires |-> expires, source |-> source]),
              !.atSeq = S.atSeq + 1, !.strings = S.strings + 1]

CreateRefreshInPlace(S, token, access) ==            \* mutant: the sequence is not advanced
    [S EXCEPT !.rt = Insert(S.rt, S.rtSeq + 1,
                            [token |-> token, access |-> access, revoked |-> NULL])]

CreateRefresh(S, token, access) ==
    [S EXCEPT !.rt = Insert(S.rt, S.rtSeq + 1,
                            [token |-> token, access |-> access, revoked |-> NULL]),
              !.rtSeq = S.rtSeq + 1]

UpdateAccess(S, a, scope, expires) ==
    [S EXCEPT !.at = [S.at EXCEPT ![a] = [token |-> S.strings + 1, scope |-> scope,
                                          expires |-> expires, source |-> S.at[a].source]],
              !.strings = S.strings + 1]

-----------------------------------------------------------------------------
(***************************************************************************)
(* What makes the tables well formed.                                      *)
(***************************************************************************)
\* on_delete=SET_NULL: a foreign key is NULL or names a row of the other table.
ForeignKeys(S) ==
    /\ \A a \in DOMAIN S.at : S.at[a].source \in DOMAIN S.rt \cup {NULL}
    /\ \A t \in DOMAIN S.rt : S.rt[t].access \in DOMAIN S.at \cup {NULL}

\* The unique constraints of the two OneToOneFields.
UniqueSource(S) ==
    \A a, b \in DOMAIN S.at : S.at[a].source = S.at[b].source /\ S.at[a].source # NULL => a = b

UniqueBinding(S) ==
    \A t, u \in DOMAIN S.rt : S.rt[t].access = S.rt[u].access /\ S.rt[t].access # NULL => t = u

RevokedUnbound(S) ==
    \A t \in DOMAIN S.rt : S.rt[t].revoked # NULL => S.rt[t].access = NULL

WellFormed(S) == IsStore(S) /\ ForeignKeys(S) /\ UniqueSource(S) /\ RevokedUnbound(S)

=============================================================================
