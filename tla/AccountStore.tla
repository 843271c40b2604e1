---------------------------- MODULE AccountStore -----------------------------
(***************************************************************************)
(* The account database as fortytwo-authd uses it                          *)
(* (fortytwo-auth/src/authd_database.c).                                   *)
(*                                                                         *)
(* Every public operation is one PostgreSQL transaction or one statement,  *)
(* so it is one step here.  A row of "account" joins what the code keeps   *)
(* in bbs_users, bbs_password_credentials, bbs_legacy_mbse_bindings,       *)
(* bbs_user_roles and bbs_registration_attempts for one user_id.  A        *)
(* password hash is the password it verifies; must_change, locked and      *)
(* disabled all count as "disabled"; auth_epoch and authz_revision are one *)
(* "version", because every reader compares both.  Audit rows and display  *)
(* names decide nothing and are left out.                                  *)
(*                                                                         *)
(* The single libpq connection can fail at any call: before the server     *)
(* committed ("failed") or after it committed but before the client heard  *)
(* of it ("lost").  Both look like an error to the daemon, which never     *)
(* reconnects.                                                             *)
(***************************************************************************)
EXTENDS Naturals, FiniteSets

CONSTANTS
    Accounts,       \* the user_ids, each with at most one registration_id
    Existing,       \* accounts that exist before the daemon first starts
    Sessions,       \* the session_ids
    Logins,         \* canonical login names
    Passwords,
    None,           \* no login name, no credential row, no user
    MaxPending,     \* registration_max_pending
    Threshold,      \* password_failure_threshold
    CountLimit,     \* 2147483647 in the code: where failed_count saturates
    MaxVersion,     \* bound: administrative changes stop at this version
    MaxFaults       \* bound: number of failed or lost database calls

ASSUME StoreAssumption ==
    /\ IsFiniteSet(Accounts) /\ Existing \subseteq Accounts
    /\ None \notin Logins \cup Passwords \cup Accounts \cup Sessions
    /\ MaxPending \in Nat \ {0}
    /\ CountLimit \in Nat /\ Threshold \in 1 .. CountLimit
    /\ MaxVersion \in Nat /\ MaxFaults \in Nat

VARIABLES
    account,    \* the joined rows of each user_id
    session,    \* bbs_terminal_sessions
    link,       \* PQstatus(connection) = CONNECTION_OK
    faults      \* how many database calls went wrong so far

storeVars == <<account, session, link, faults>>

Standing == {"absent", "pending", "active", "disabled", "deleted"}

AttemptState == {"none", "pending_legacy", "completed", "aborted", "failed"}

Row == [status : Standing, login : Logins \cup {None},
        password : Passwords \cup {None}, binding : BOOLEAN, role : BOOLEAN,
        version : Nat, failures : 0 .. CountLimit, throttled : BOOLEAN,
        attempt : AttemptState, expired : BOOLEAN]

SessionRow == [state : {"absent", "open", "closed"}, user : Accounts \cup {None}]

StoreTypeOK ==
    /\ account \in [Accounts -> Row]
    /\ session \in [Sessions -> SessionRow]
    /\ link \in BOOLEAN
    /\ faults \in Nat

NewRow(s, l, p, a) ==
    [status |-> s, login |-> l, password |-> p, binding |-> s # "absent",
     role |-> s = "active", version |-> 1, failures |-> 0,
     throttled |-> FALSE, attempt |-> a, expired |-> FALSE]

NoSession == [state |-> "absent", user |-> None]

(* Accounts made by hand before the first start are active members. *)
StoreInit ==
    /\ \E name \in [Existing -> Logins], word \in [Existing -> Passwords] :
          /\ \A u, v \in Existing : name[u] = name[v] => u = v
          /\ account = [u \in Accounts |->
                          IF u \in Existing
                          THEN NewRow("active", name[u], word[u], "none")
                          ELSE NewRow("absent", None, None, "none")]
    /\ session = [s \in Sessions |-> NoSession]
    /\ link = FALSE
    /\ faults = 0

-----------------------------------------------------------------------------
(* How a call can end. *)

Outcome == {"ok", "failed", "lost"}

(* Whether the server executed the statements of the call. *)
Executed(o) == o # "failed"

(* What outcome o says of, and does to, the connection. *)
Answered(o) ==
    \/ /\ o = "ok" /\ link
       /\ UNCHANGED <<link, faults>>
    \/ /\ o = "failed" /\ ~link
       /\ UNCHANGED <<link, faults>>
    \/ /\ o = "failed" /\ link /\ faults < MaxFaults
       /\ faults' = faults + 1
       /\ link' \in BOOLEAN
    \/ /\ o = "lost" /\ link /\ faults < MaxFaults
       /\ faults' = faults + 1
       /\ link' = FALSE

(* authd_database_open. *)
Connect ==
    /\ ~link
    /\ link' = TRUE
    /\ UNCHANGED <<account, session, faults>>

-----------------------------------------------------------------------------
(* Registration. *)

Pending(u) == account[u].status = "pending" /\ account[u].attempt = "pending_legacy"

(* The unique index on login_name covers the rows with deleted_at NULL. *)
NameTaken(l) ==
    \E u \in Accounts :
        account[u].login = l /\ account[u].status \notin {"absent", "deleted"}

LiveAttempts == {u \in Accounts : Pending(u) /\ ~account[u].expired}

(* LEGACY_CONFLICT belongs to the caller, who chooses the legacy key. *)
BeginVerdict(l) ==
    CASE Cardinality(LiveAttempts) >= MaxPending -> "limit_reached"
      [] Cardinality(LiveAttempts) < MaxPending /\ NameTaken(l) -> "name_unavailable"
      [] OTHER -> "ok"

BeginRegistration(l, p, u, o) ==
    LET created == Executed(o) /\ BeginVerdict(l) = "ok"
    IN  /\ Answered(o)
        /\ created => account[u].status = "absent"
        /\ account' = IF created
                      THEN [account EXCEPT ![u] = NewRow("pending", l, p, "pending_legacy")]
                      ELSE account
        /\ UNCHANGED session

(* Mutant: the recheck forgets expires_at. *)
CommittableLate(u, v) ==
    /\ Pending(u)
    /\ ~account[u].role
    /\ account[u].version = v

(* The locked recheck of the snapshot that Begin returned. *)
Committable(u, v) ==
    /\ Pending(u)
    /\ ~account[u].expired
    /\ ~account[u].role
    /\ account[u].version = v

Opened(u, s) == [session EXCEPT ![s] = [state |-> "open", user |-> u]]

CommitRegistration(u, v, s, o) ==
    LET done == Executed(o) /\ Committable(u, v)
    IN  /\ Answered(o)
        /\ done => session[s].state = "absent"
        /\ account' = IF done
                      THEN [account EXCEPT ![u].status = "active", ![u].role = TRUE,
                                           ![u].version = @ + 1,
                                           ![u].attempt = "completed"]
                      ELSE account
        /\ session' = IF done THEN Opened(u, s) ELSE session

(* Mutant: the legacy binding survives the deletion. *)
DeletedButBound(row, verdict) ==
    [row EXCEPT !.status = "deleted", !.attempt = verdict, !.version = @ + 1,
                !.role = FALSE, !.password = None, !.failures = 0]

(* What abort and expiry leave of a pending identity. *)
Deleted(row, verdict) ==
    [row EXCEPT !.status = "deleted", !.attempt = verdict, !.version = @ + 1,
                !.role = FALSE, !.password = None, !.failures = 0,
                !.binding = FALSE]

Withdrawn(U, verdict) ==
    [u \in Accounts |-> IF u \in U THEN Deleted(account[u], verdict) ELSE account[u]]

(* Mutant: the abort deletes the identity whatever became of it. *)
AbortAnyway(u, o) ==
    /\ Answered(o)
    /\ account' = IF Executed(o) THEN Withdrawn({u}, "aborted") ELSE account
    /\ UNCHANGED session

(* STALE_STATE, without effect, when the attempt is no longer pending. *)
AbortRegistration(u, o) ==
    /\ Answered(o)
    /\ account' = IF Executed(o) /\ Pending(u)
                  THEN Withdrawn({u}, "aborted") ELSE account
    /\ UNCHANGED session

(* Mutant: the batch skips the attempts that nobody else aborted. *)
ExpireNothing(o) == Answered(o) /\ UNCHANGED <<account, session>>

(* One batch; AUTHD_REGISTRATION_EXPIRY_BATCH exceeds every bound here. *)
ExpireRegistrations(o) ==
    /\ Answered(o)
    /\ account' = IF Executed(o)
                  THEN Withdrawn({u \in Accounts : Pending(u) /\ account[u].expired},
                                 "failed")
                  ELSE account
    /\ UNCHANGED session

-----------------------------------------------------------------------------
(* Login. *)

(* The inner join with the legacy binding is the only filter on deletion. *)
LookupRows(l) == {u \in Accounts : account[u].login = l /\ account[u].binding}

(* What authd_login_record_t keeps of the row for the recheck. *)
Snapshot(u) ==
    [user |-> u, version |-> account[u].version, password |-> account[u].password]

NoSnapshot == [user |-> None, version |-> 0, password |-> None]

(* The eligible_user and credential_reset parts of the statement. *)
Current(snap) ==
    LET row == account[snap.user]
    IN  /\ row.status = "active" /\ ~row.throttled
        /\ row.version = snap.version
        /\ row.password = snap.password

SessionVerdict(snap) ==
    CASE ~Current(snap) -> "stale_state"
      [] Current(snap) /\ ~account[snap.user].role -> "access_denied"
      [] OTHER -> "ok"

CreatePasswordSession(snap, s, o) ==
    LET u == snap.user
        granted == Executed(o) /\ SessionVerdict(snap) = "ok"
    IN  /\ Answered(o)
        /\ granted => session[s].state = "absent"
        /\ account' = IF Executed(o) /\ Current(snap)
                      THEN [account EXCEPT ![u].failures = 0] ELSE account
        /\ session' = IF granted THEN Opened(u, s) ELSE session

(* The caller cannot tell whether the failure window has passed meanwhile. *)
RecordPasswordFailure(u, o) ==
    /\ Answered(o)
    /\ \E n \in {1, account[u].failures + 1} :
          account' = IF Executed(o) /\ account[u].password # None
                     THEN [account EXCEPT
                             ![u].failures = IF n > CountLimit THEN CountLimit ELSE n,
                             ![u].throttled = @ \/ n >= Threshold]
                     ELSE account
    /\ UNCHANGED session

(* NOT_FOUND, without effect, when the session is already closed. *)
CloseTerminalSession(s, o) ==
    /\ Answered(o)
    /\ session' = IF Executed(o) /\ session[s].state = "open"
                  THEN [session EXCEPT ![s].state = "closed"] ELSE session
    /\ UNCHANGED account

(* lookup, audit and health check: nothing changes but the connection. *)
ReadOnlyCall(o) == Answered(o) /\ UNCHANGED <<account, session>>

-----------------------------------------------------------------------------
(* What happens to the database without the daemon. *)

(* expires_at passes. *)
Elapse(u) ==
    /\ Pending(u) /\ ~account[u].expired
    /\ account' = [account EXCEPT ![u].expired = TRUE]
    /\ UNCHANGED <<session, link, faults>>

(* throttled_until passes. *)
ThrottleEnds(u) ==
    /\ account[u].throttled
    /\ account' = [account EXCEPT ![u].throttled = FALSE]
    /\ UNCHANGED <<session, link, faults>>

(* An administrator changes a member's password, state or role. *)
Administer(u) ==
    /\ account[u].status \in {"active", "disabled"}
    /\ \E s \in {"active", "disabled"}, p \in Passwords, r \in BOOLEAN,
          v \in {account[u].version, account[u].version + 1} :
          /\ v <= MaxVersion
          /\ account' = [account EXCEPT ![u].status = s, ![u].password = p,
                                        ![u].role = r, ![u].version = v]
    /\ UNCHANGED <<session, link, faults>>

(* The connection breaks between two calls. *)
LinkBreaks ==
    /\ link /\ faults < MaxFaults
    /\ link' = FALSE
    /\ faults' = faults + 1
    /\ UNCHANGED <<account, session>>

World ==
    \/ \E u \in Accounts : Elapse(u) \/ ThrottleEnds(u) \/ Administer(u)
    \/ LinkBreaks

(* A caller that issues any call at any time. *)
StoreCall ==
    \E o \in Outcome :
        \/ \E l \in Logins, p \in Passwords, u \in Accounts :
              BeginRegistration(l, p, u, o)
        \/ \E u \in Accounts, v \in 1 .. MaxVersion, s \in Sessions :
              \/ CommitRegistration(u, v, s, o)
              \/ \E p \in Passwords :
                    CreatePasswordSession(
                        [user |-> u, version |-> v, password |-> p], s, o)
        \/ \E u \in Accounts : AbortRegistration(u, o) \/ RecordPasswordFailure(u, o)
        \/ \E s \in Sessions : CloseTerminalSession(s, o)
        \/ ExpireRegistrations(o)
        \/ ReadOnlyCall(o)

StoreNext == StoreCall \/ World \/ Connect

StoreSpec == StoreInit /\ [][StoreNext]_storeVars

-----------------------------------------------------------------------------
(* Properties. *)

(* The five tables of an identity agree with each other after every abort, *)
(* expiry, commit and administrative change.                               *)
Coherent ==
    \A u \in Accounts :
        LET row == account[u]
        IN  /\ row.status = "absent" <=> row.login = None
            /\ row.status = "pending" <=> row.attempt = "pending_legacy"
            /\ row.status = "deleted" <=> row.attempt \in {"aborted", "failed"}
            /\ row.binding <=> row.status \notin {"absent", "deleted"}
            /\ row.binding <=> row.password # None
            /\ row.role => row.status \in {"active", "disabled"}

(* lookup_login selects by login_name with no test of deleted_at and       *)
(* treats two rows as a corrupt record: a name that was released and taken *)
(* again must still find one row.                                          *)
LookupUnambiguous ==
    \A l \in Logins : \A u, v \in LookupRows(l) : u = v

(* A session, open or closed, belongs to an account that was activated and *)
(* still exists: a late abort or expiry never deletes an account that a    *)
(* commit already activated, even when the reply to the commit was lost.   *)
SessionsHaveMembers ==
    \A s \in Sessions :
        session[s].state # "absent" =>
            /\ session[s].user \in Accounts
            /\ account[session[s].user].status \in {"active", "disabled"}

(* registration_max_pending bounds the attempts that are pending and not   *)
(* expired, whatever aborts, losses and expiries happened before.          *)
PendingBounded == Cardinality(LiveAttempts) <= MaxPending

(* An attempt that expired is never activated afterwards.                  *)
NoLateActivation ==
    [][\A u \in Accounts :
          account[u].status = "pending" /\ account[u].expired
              => account'[u].status \in {"pending", "deleted"}]_storeVars

LifecycleStanding ==
    [u \in Accounts |->
        CASE account[u].status = "absent" -> "none"
          [] account[u].status = "pending" -> "applicant"
          [] account[u].status = "deleted" -> "gone"
          [] OTHER -> "member"]

Lifecycle == INSTANCE AccountLifecycle WITH
    Nobody <- None,
    standing <- LifecycleStanding,
    visit <- [s \in Sessions |->
                [owner |-> session[s].user, phase |-> session[s].state]]

(* The calls implement the account lifecycle. *)
LifecycleSpec == Lifecycle!Spec
=============================================================================
