------------------------------ MODULE ClearExpired ------------------------------
(***************************************************************************)
(* The cleartokens command: clear_expired running beside the token         *)
(* endpoint.  Each of its loops reads the ids of one batch in one          *)
(* statement and deletes the rows with those ids in a later one, so        *)
(* requests are served between the two.                                    *)
(***************************************************************************)
EXTENDS TokenRefresh, FiniteSetsExt

CONSTANTS
    RefreshExpire,      \* REFRESH_TOKEN_EXPIRE_SECONDS, 0 when it is None
    BatchSize           \* CLEAR_EXPIRED_TOKENS_BATCH_SIZE

ASSUME ClearAssumption == RefreshExpire \in Nat /\ BatchSize \in Nat

VARIABLES
    loop,       \* the batch_delete under way, or "idle", "done"
    start,      \* now as clear_expired read it
    batch,      \* the ids read, {} between two batches
    issuedAt    \* history: when each refresh token was created

clearVars == <<loop, start, batch>>
allVars   == <<vars, clearVars, issuedAt>>

Loops == {"revoked", "expired", "access"}

ClearInit ==
    /\ Init
    /\ loop = "idle" /\ start = NULL /\ batch = {}
    /\ issuedAt = [t \in {} |-> NULL]

\* The three querysets.  A row whose column is NULL satisfies no comparison.
RevokedBefore(S) ==
    {t \in DOMAIN S.rt : S.rt[t].revoked # NULL /\ S.rt[t].revoked + RefreshExpire < start}
ExpiredBefore(S) ==
    {t \in DOMAIN S.rt : /\ S.rt[t].access # NULL
                         /\ S.at[S.rt[t].access].expires + RefreshExpire < start}
ExpiredAccessEvenBound(S) == {a \in DOMAIN S.at : S.at[a].expires < start}    \* mutant: refresh_token__isnull dropped
ExpiredAccess(S) == {a \in DOMAIN S.at : BoundTo(S, a) = {} /\ S.at[a].expires < start}

QueryReissued(k) ==                   \* mutant: rows of current access tokens match too
    CASE k = "revoked" -> RevokedBefore(db)
      [] k = "expired" -> {t \in DOMAIN db.rt : db.rt[t].access # NULL}
      [] k = "access"  -> ExpiredAccess(db)

Query(k) ==
    CASE k = "revoked" -> RevokedBefore(db)
      [] k = "expired" -> ExpiredBefore(db)
      [] k = "access"  -> ExpiredAccess(db)

Following(k) == CASE k = "revoked" -> "expired" [] k = "expired" -> "access" [] k = "access" -> "done"

-----------------------------------------------------------------------------
Start ==
    /\ loop \in {"idle", "done"}
    /\ start' = now
    /\ loop' = IF RefreshExpire = 0 THEN "access" ELSE "revoked"
    /\ UNCHANGED <<vars, batch, issuedAt>>

ReadNothing ==                        \* mutant: a batch size of 0
    /\ loop \in Loops /\ batch = {} /\ Query(loop) # {}
    /\ UNCHANGED allVars

ReadBatch ==
    /\ loop \in Loops /\ batch = {}
    /\ batch' \in kSubset(IF Cardinality(Query(loop)) < BatchSize
                          THEN Cardinality(Query(loop)) ELSE BatchSize, Query(loop))
    /\ batch' # {}
    /\ UNCHANGED <<vars, loop, start, issuedAt>>

\* The deletion waits for the locks of the rows it deletes or whose key it nulls.
DeleteBatch ==
    /\ loop \in Loops /\ batch # {}
    /\ \/ /\ loop = "access"
          /\ \A a \in batch : \A t \in BoundTo(db, a) : Unlocked(t)
          /\ db' = DeleteAccess(db, batch)
       \/ /\ loop # "access"
          /\ \A t \in batch : Unlocked(t)
          /\ db' = DeleteRefresh(db, batch)
    /\ batch' = {}
    /\ UNCHANGED <<now, req, granted, rev, loop, start, issuedAt>>

NextLoop ==
    /\ loop \in Loops /\ batch = {} /\ Query(loop) = {}
    /\ loop' = Following(loop)
    /\ UNCHANGED <<vars, start, batch, issuedAt>>

Clear == ReadBatch \/ DeleteBatch \/ NextLoop

\* A request is served while the command runs.
Beside ==
    /\ issuedAt' = [t \in 1 .. db'.rtSeq |-> IF t \in DOMAIN issuedAt THEN issuedAt[t] ELSE now]
    /\ UNCHANGED clearVars

Served == Next /\ Beside

ClearNext == Served \/ Start \/ Clear

ClearSpec == ClearInit /\ [][ClearNext]_allVars

\* The command goes on, and workers finish the requests whose locks it waits for.
ClearFairSpec ==
    /\ ClearSpec /\ WF_allVars(Clear)
    /\ \A r \in Requests : WF_allVars(Serve(r) /\ Beside)

-----------------------------------------------------------------------------
(***************************************************************************)
(* Properties.                                                             *)
(***************************************************************************)
ClearTypeOK ==
    /\ TypeOK
    /\ loop \in Loops \cup {"idle", "done"} /\ start \in 0 .. now
    /\ batch \subseteq 1 .. (IF loop = "access" THEN db.atSeq ELSE db.rtSeq)
    /\ issuedAt \in [1 .. db.rtSeq -> 1 .. now]

CurrentAt(S, a, time) == S.at[a].expires >= time

\* "all the refresh tokens for current access tokens should still exist": whatever
\* the endpoint does between the two statements of a batch, the refresh token of an
\* access token that is current when the deletion runs survives it.
KeepsRefreshOfCurrent ==
    [][\A t \in DOMAIN db.rt \ DOMAIN db'.rt :
          db.rt[t].access # NULL => ~CurrentAt(db, db.rt[t].access, start)]_allVars

\* "all current access tokens should still exist", and no access token that could
\* still be refreshed is swept away: the run deletes an access token only if it has
\* expired and no refresh token is bound to it at that moment.
KeepsUsableAccess ==
    [][Clear => \A a \in DOMAIN db.at \ DOMAIN db'.at :
                    ~CurrentAt(db, a, start) /\ BoundTo(db, a) = {}]_allVars

\* The command ends, although rows it has picked are locked, changed or deleted by requests
\* between its two statements, and new rows expire while it runs.
CommandEnds == loop \in Loops ~> loop = "done"

\* A run removes every refresh token whose lifetime exceeds REFRESH_TOKEN_EXPIRE_SECONDS
\* (counted from the expiry of the access token it was issued with).
RemovesEveryOldRefresh ==
    loop = "done" /\ RefreshExpire # 0 =>
        \A t \in DOMAIN db.rt : issuedAt[t] + AccessLife + RefreshExpire >= start

-----------------------------------------------------------------------------
(***************************************************************************)
(* Why the command takes only what it may: what a batch was picked for is  *)
(* still the case when the rows are deleted.                               *)
(***************************************************************************)
\* A timestamp, once there, stays.
PickedRevoked == loop = "revoked" => \A t \in batch \cap DOMAIN db.rt : db.rt[t].revoked # NULL

\* Without rotation a refresh may extend an access token between the two statements.
PickedOld ==
    Rotate =>
        /\ loop = "expired" =>
              \A t \in batch \cap DOMAIN db.rt :
                  db.rt[t].access # NULL => ~CurrentAt(db, db.rt[t].access, start)
        /\ loop = "access" =>
              \A a \in batch \cap DOMAIN db.at : ~CurrentAt(db, a, start) /\ BoundTo(db, a) = {}

\* The inductive invariant, with that of the token endpoint.
ClearInv ==
    /\ IndInv /\ ClearTypeOK
    /\ loop \notin Loops => batch = {}
    /\ PickedRevoked /\ PickedOld

=============================================================================
